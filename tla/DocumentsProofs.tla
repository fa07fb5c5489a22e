--------------------------- MODULE DocumentsProofs ---------------------------
(***************************************************************************)
(* Theorems about what happens to a document and to the answers about it:  *)
(* the store, the LLM's answers, their processing and the memory of an     *)
(* extraction.  The four components share no state, and each has its own   *)
(* section.                                                                *)
(***************************************************************************)
EXTENDS DocumentStore, LLMExtraction, ResponseProcessing, ChunkedExtraction,
        TLAPS, ChannelLemmas

-----------------------------------------------------------------------------
(* The store: the inductive invariant *)

\* What a caller has been told is true, and stays true: identifiers never
\* change and effects are never forgotten.
ToldTruth(c) ==
  /\ link[c] # "none" => NameOf(c) \in Names
  /\ reply[c] # 0 => link[c] # "none" /\ reply[c] = collections[NameOf(c)]
  /\ link[c] = "ok" /\ request[c] = "create" => reply[c] # 0
  /\ link[c] = "ok" /\ request[c] \in {"add", "delete"} => <<c, NameOf(c)>> \in effected
  /\ link[c] = "backoff" => attempt[c] < MaxRetries

CachesKnow(m) == \A n \in Named(Own) : cached[m][n] # 0

\* A manager asks for what its task needs, and knows the collections it has passed.
ManagerSound(m) ==
  /\ task[m] \in {"new", "ready", "failed"} => request[m] = "none" /\ link[m] = "none"
  /\ task[m] = "health" => request[m] = "health" /\ position[m] = 1
  /\ task[m] = "ensure" => request[m] \in {"list", "create"}
  /\ task[m] = "relist" => request[m] = "list"
  /\ task[m] = "getMeta" => request[m] = "get"
  /\ task[m] = "meta" => request[m] = "create"
  /\ task[m] \in {"ensure", "relist"} =>
       /\ position[m] \in DOMAIN Own
       /\ \A i \in 1 .. position[m] - 1 : cached[m][Own[i]] # 0
  /\ task[m] \in {"getMeta", "meta"} => position[m] \in DOMAIN Meta
  /\ Initialised(m) => CachesKnow(m)

CacheTrue(m) == \A n \in Names : cached[m][n] \in {0, collections[n]}

At(u, tasks) == task[u][1] \in tasks
For(u, kinds) == task[u][2] \in kinds

\* A user comes after the initialisation, so it only ever looks up the name of a
\* collection that is not the manager's own; and what it has passed is stored.
UserSound(u) ==
  /\ At(u, {"idle"}) => task[u] = <<"idle", "store">>
  /\ ~At(u, {"idle"}) => task[Main] = "ready"
  /\ position[u] \in 1 .. Len(Own) + 1
  /\ For(u, {"store", "delete"}) => position[u] <= Len(Own)
  /\ For(u, {"delete"}) => position[u] = 1
  /\ At(u, {"idle", "embed", "ok", "error"}) => request[u] = "none" /\ link[u] = "none"
  /\ At(u, {"embed"}) => ~For(u, {"delete"})
  /\ At(u, {"resolve"}) => request[u] \in {"none", "list"}
  /\ At(u, {"resolve"}) /\ request[u] = "none" => link[u] = "none"
  /\ At(u, {"resolve"}) /\ request[u] = "list" => NameOf(u) \notin Named(Own)
  /\ At(u, {"writing"}) => NameOf(u) \notin Named(Own)
  /\ At(u, {"act"}) => request[u] = CASE For(u, {"store"})  -> "add"
                                     [] For(u, {"delete"}) -> "delete"
                                     [] OTHER              -> "query"
  /\ At(u, {"resolve", "writing", "embed", "act"}) /\ For(u, {"store"}) /\ u \notin problems =>
       \A i \in 1 .. position[u] - 1 : <<u, Own[i]>> \in effected
  /\ task[u] = <<"ok", "store">> => \A n \in Named(Own) : <<u, n>> \in effected
  /\ task[u] = <<"ok", "delete">> => <<u, Own[1]>> \in effected

OnlySearchEnds ==
  ended => \E u \in Users : task[u] = <<"writing", "search">> /\ NameOf(u) \notin Named(Own)

StoreInv ==
  /\ StoreTypeOK /\ task = [c \in Callers |-> task[c]]
  /\ \A c \in Callers : ToldTruth(c)
  /\ \A m \in Managers : ManagerSound(m) /\ CacheTrue(m)
  /\ \A u \in Users : UserSound(u)
  /\ OnlySearchEnds

-----------------------------------------------------------------------------
(* The store: names and frames *)

LEMMA Given ==
  /\ Len(Own) \in Nat \ {0} /\ DOMAIN Own = 1 .. Len(Own)
  /\ Len(Meta) \in Nat \ {0} /\ DOMAIN Meta = 1 .. Len(Meta)
  /\ Main \in Managers /\ Users \cap Managers = {} /\ Callers = Users \cup Managers
  /\ MaxRetries \in Nat
<1>1. /\ Own \in Seq(STRING) /\ Own # <<>> /\ Meta \in Seq(STRING) /\ Meta # <<>>
      /\ MaxRetries \in Nat /\ Users \cap Managers = {} /\ Main \in Managers
  BY StoreAssumption, MainAssumption
<1>2. /\ Len(Own) \in Nat \ {0} /\ DOMAIN Own = 1 .. Len(Own)
      /\ Len(Meta) \in Nat \ {0} /\ DOMAIN Meta = 1 .. Len(Meta)
  BY <1>1, EmptySeq, LenProperties
<1>. QED  BY <1>1, <1>2 DEF Callers

LEMMA NamesGiven ==
  /\ \A i \in 1 .. Len(Own) : Own[i] \in Named(Own) /\ Own[i] \in Names
  /\ \A i \in 1 .. Len(Meta) : Meta[i] \in Names
  /\ Named(Own) \subseteq Names
BY Given DEF Named, Names

LEMMA FiniteNames == IsFiniteSet(Names)
<1>1. ASSUME NEW s \in Seq(STRING)  PROVE IsFiniteSet(Named(s))
  <2>0. Len(s) \in Nat /\ s \in [1 .. Len(s) -> STRING]
    BY LenProperties
  <2>1. /\ IsFiniteSet(1 .. Len(s)) /\ DOMAIN s = 1 .. Len(s)
        /\ s \in [1 .. Len(s) -> Named(s)]
    BY <2>0, FS_Interval DEF Named
  <2>2. \A x \in Named(s) : \E i \in 1 .. Len(s) : s[i] = x
    BY <2>1 DEF Named
  <2>3. s \in Surjection(1 .. Len(s), Named(s))
    BY <2>1, <2>2 DEF Surjection
  <2>. QED  BY <2>1, <2>3, FS_Surjection
<1>. QED  BY <1>1, StoreAssumption, FS_Union DEF Names

\* The names of a user's positions.
UserName(p) == Append(Own, Meta[Len(Meta)])[p]

LEMMA UserNames ==
  ASSUME NEW p \in 1 .. Len(Own) + 1
  PROVE  UserName(p) \in Names /\ (p <= Len(Own) => UserName(p) = Own[p])
<1>1. Own \in Seq(STRING) /\ Meta[Len(Meta)] \in STRING
  BY Given, StoreAssumption, ElementOfSeq
<1>2. /\ Append(Own, Meta[Len(Meta)])[Len(Own) + 1] = Meta[Len(Meta)]
      /\ \A i \in 1 .. Len(Own) : Append(Own, Meta[Len(Meta)])[i] = Own[i]
  BY <1>1, AppendProperties
<1>3. p = Len(Own) + 1 \/ p \in 1 .. Len(Own)
  BY Given
<1>. QED  BY <1>2, <1>3, Given, NamesGiven DEF UserName

LEMMA NameOfUser ==
  ASSUME NEW u \in Users
  PROVE  NameOf(u) = UserName(position[u]) /\ NameOf(u)' = UserName(position'[u])
BY DEF NameOf, UserName

\* Identifiers and effects stay.
Grows ==
  /\ \A n \in Names : collections[n] = 0 \/ collections'[n] = collections[n]
  /\ effected \subseteq effected'

Same(c) ==
  /\ task'[c] = task[c] /\ position'[c] = position[c] /\ request'[c] = request[c]
  /\ link'[c] = link[c] /\ attempt'[c] = attempt[c] /\ reply'[c] = reply[c]

LEMMA SameName == ASSUME NEW c, Same(c) PROVE NameOf(c)' = NameOf(c)
BY DEF Same, NameOf

LEMMA ToldKept ==
  ASSUME NEW c \in Callers, ToldTruth(c), Same(c), Grows
  PROVE  ToldTruth(c)'
<1>. PICK n : n = NameOf(c)
  OBVIOUS
<1>1. NameOf(c)' = n
  BY SameName
<1>2. reply[c] # 0 => collections'[n] = collections[n]
  BY DEF ToldTruth, Grows
<1>. QED  BY <1>1, <1>2 DEF ToldTruth, Same, Grows

LEMMA ManagerKept ==
  ASSUME NEW m \in Managers, ManagerSound(m), Same(m),
         \A n \in Named(Own) : cached[m][n] # 0 => cached'[m][n] # 0
  PROVE  ManagerSound(m)'
<1>1. \A i \in 1 .. position[m] - 1 :
        position[m] \in DOMAIN Own /\ cached[m][Own[i]] # 0 => cached'[m][Own[i]] # 0
  BY Given, NamesGiven
<1>2. CachesKnow(m) => CachesKnow(m)'
  BY DEF CachesKnow
<1>. QED  BY <1>1, <1>2 DEF ManagerSound, Same, Initialised

LEMMA CacheKept ==
  ASSUME NEW m \in Managers, CacheTrue(m), Grows, cached'[m] = cached[m]
  PROVE  CacheTrue(m)'
BY DEF CacheTrue, Grows

LEMMA UserKept ==
  ASSUME NEW u \in Users, UserSound(u), Same(u), Grows,
         u \in problems' <=> u \in problems,
         task[Main] = "ready" => task'[Main] = "ready"
  PROVE  UserSound(u)'
<1>. PICK n : n = NameOf(u)
  OBVIOUS
<1>1. NameOf(u)' = n
  BY SameName
<1>. QED  BY <1>1 DEF UserSound, Same, Grows, At, For

-----------------------------------------------------------------------------
(* The store: what one caller's step leaves of the others *)

TaskTypes ==
  /\ task = [c \in Callers |-> task[c]]
  /\ \A m \in Managers : task[m] \in ManagerTasks
  /\ \A u \in Users : task[u] \in UserTasks \X {"store", "delete", "search"}

CallTypes ==
  /\ position \in [Callers -> Nat]
  /\ request \in [Callers -> Requests]
  /\ link \in [Callers -> {"none", "sent", "backoff", "ok", "exists", "error"}]
  /\ attempt \in [Callers -> 0 .. MaxRetries]
  /\ reply \in [Callers -> Nat]

ServerTypes ==
  /\ collections \in [Names -> Nat]
  /\ content \subseteq Names /\ effected \subseteq Users \X Names
  /\ late \subseteq {"create", "add", "delete"} \X Names

CacheTypes == cached \in [Managers -> [Names -> Nat]]
EndTypes == problems \subseteq Users /\ ended \in BOOLEAN

LEMMA Types ==
  /\ StoreTypeOK /\ task = [c \in Callers |-> task[c]]
       <=> TaskTypes /\ CallTypes /\ ServerTypes /\ CacheTypes /\ EndTypes
BY DEF StoreTypeOK, TaskTypes, CallTypes, ServerTypes, CacheTypes, EndTypes

LEMMA Types2 ==
  ASSUME TaskTypes', CallTypes', ServerTypes', CacheTypes', EndTypes'
  PROVE  StoreTypeOK' /\ task' = [c \in Callers |-> task'[c]]
BY DEF StoreTypeOK, TaskTypes, CallTypes, ServerTypes, CacheTypes, EndTypes

LEMMA Moved ==
  ASSUME TaskTypes, CallTypes, NEW c \in Callers, NEW to, NEW at \in Nat,
         NEW what \in Requests, Goes2(c, to, at, what),
         c \in Managers => to \in ManagerTasks,
         c \in Users => to \in UserTasks \X {"store", "delete", "search"}
  PROVE  /\ TaskTypes' /\ CallTypes'
         /\ task'[c] = to /\ position'[c] = at /\ request'[c] = what
         /\ link'[c] = IF what = "none" THEN "none" ELSE "sent"
         /\ attempt'[c] = 0 /\ reply'[c] = 0
         /\ \A d \in Callers : d # c => Same(d)
<1>1. /\ task'[c] = to /\ position'[c] = at /\ request'[c] = what
      /\ link'[c] = IF what = "none" THEN "none" ELSE "sent"
      /\ attempt'[c] = 0 /\ reply'[c] = 0
  BY DEF Goes2, TaskTypes, CallTypes
<1>2. \A d \in Callers : d # c => Same(d)
  BY DEF Goes2, Same, TaskTypes, CallTypes
<1>3. CallTypes'
  BY Given DEF Goes2, CallTypes
<1>4. task' = [d \in Callers |-> task'[d]]
  BY DEF Goes2, TaskTypes
<1>5. /\ \A m \in Managers : task'[m] \in ManagerTasks
      /\ \A u \in Users : task'[u] \in UserTasks \X {"store", "delete", "search"}
  BY <1>1, <1>2, Given DEF TaskTypes, Same
<1>. QED  BY <1>1, <1>2, <1>3, <1>4, <1>5 DEF TaskTypes

\* The caller that takes a new position knows nothing yet.
LEMMA AsksTruth ==
  ASSUME NEW c \in Callers, NEW what, reply'[c] = 0,
         link'[c] = IF what = "none" THEN "none" ELSE "sent",
         what # "none" => NameOf(c)' \in Names
  PROVE  ToldTruth(c)'
BY DEF ToldTruth

LEMMA ManagerMoves ==
  ASSUME StoreInv, NEW m \in Managers, task[m] # "ready", NEW to \in ManagerTasks,
         NEW at \in Nat, NEW what \in Requests, Goes2(m, to, at, what),
         UNCHANGED <<serverVars, problems, effected, ended>>,
         CacheTypes', \A d \in Managers : d # m => cached'[d] = cached[d],
         ManagerSound(m)', CacheTrue(m)', what # "none" => NameOf(m)' \in Names
  PROVE  StoreInv'
<1>0. /\ TaskTypes /\ CallTypes /\ ServerTypes /\ CacheTypes /\ EndTypes
      /\ m \in Callers /\ m \notin Users
  BY Types, Given DEF StoreInv
<1>1. /\ TaskTypes' /\ CallTypes' /\ reply'[m] = 0
      /\ link'[m] = IF what = "none" THEN "none" ELSE "sent"
      /\ \A d \in Callers : d # m => Same(d)
  BY <1>0, Moved
<1>2. ServerTypes' /\ EndTypes' /\ Grows
  BY <1>0 DEF ServerTypes, EndTypes, Grows, serverVars
<1>3. \A c \in Callers : ToldTruth(c)'
  BY <1>0, <1>1, <1>2, AsksTruth, ToldKept DEF StoreInv
<1>4. \A d \in Managers : ManagerSound(d)' /\ CacheTrue(d)'
  BY <1>1, <1>2, ManagerKept, CacheKept, Given DEF StoreInv
<1>5. ASSUME NEW u \in Users  PROVE UserSound(u)'
  <2>1. Same(u) /\ (task[Main] = "ready" => task'[Main] = "ready")
    BY <1>0, <1>1, Given DEF Same
  <2>. QED  BY <1>2, <2>1, UserKept DEF StoreInv
<1>6. OnlySearchEnds'
  <2>1. ASSUME NEW u \in Users  PROVE task'[u] = task[u] /\ NameOf(u)' = NameOf(u)
    BY <1>0, <1>1, Given, SameName DEF Same
  <2>. QED  BY <2>1 DEF StoreInv, OnlySearchEnds
<1>. QED  BY <1>1, <1>2, <1>3, <1>4, <1>5, <1>6, Types2 DEF StoreInv

LEMMA UserMoves ==
  ASSUME StoreInv, NEW u \in Users, NEW to \in UserTasks \X {"store", "delete", "search"},
         NEW at \in Nat, NEW what \in Requests, Goes2(u, to, at, what),
         UNCHANGED <<serverVars, effected>>, EndTypes',
         \A v \in Users : v # u => (v \in problems' <=> v \in problems),
         CacheTypes', \A m \in Managers : CacheTrue(m)',
         \A m \in Managers, n \in Named(Own) : cached[m][n] # 0 => cached'[m][n] # 0,
         UserSound(u)', OnlySearchEnds'
  PROVE  StoreInv'
<1>0. /\ TaskTypes /\ CallTypes /\ ServerTypes /\ CacheTypes /\ EndTypes
      /\ u \in Callers /\ u \notin Managers
  BY Types, Given DEF StoreInv
<1>1. /\ TaskTypes' /\ CallTypes' /\ reply'[u] = 0
      /\ link'[u] = IF what = "none" THEN "none" ELSE "sent"
      /\ \A d \in Callers : d # u => Same(d)
  BY <1>0, Moved
<1>2. ServerTypes' /\ Grows
  BY <1>0 DEF ServerTypes, Grows, serverVars
<1>3. NameOf(u)' \in Names
  BY NameOfUser, UserNames DEF UserSound
<1>4. \A c \in Callers : ToldTruth(c)'
  BY <1>0, <1>1, <1>2, <1>3, AsksTruth, ToldKept DEF StoreInv
<1>5. ASSUME NEW m \in Managers  PROVE ManagerSound(m)'
  <2>1. Same(m)
    BY <1>0, <1>1, Given
  <2>. QED  BY <2>1, ManagerKept DEF StoreInv
<1>6. ASSUME NEW v \in Users  PROVE UserSound(v)'
  <2>1. task'[Main] = task[Main]
    BY <1>0, <1>1, Given DEF Same
  <2>2. CASE v # u
    <3>1. Same(v)
      BY <1>1, <2>2, Given
    <3>. QED  BY <1>2, <2>1, <2>2, <3>1, UserKept DEF StoreInv
  <2>. QED  BY <2>2
<1>. QED  BY <1>1, <1>2, <1>4, <1>5, <1>6, Types2 DEF StoreInv

-----------------------------------------------------------------------------
(* The store: the steps preserve the invariant *)

LEMMA StoreStarts == StoreInit => StoreInv
<1>. SUFFICES ASSUME StoreInit PROVE StoreInv
  OBVIOUS
<1>1. StoreTypeOK /\ task = [c \in Callers |-> task[c]]
  <2>1. TaskTypes
    BY Given DEF StoreInit, TaskTypes, ManagerTasks, UserTasks
  <2>2. CallTypes
    BY Given DEF StoreInit, CallTypes, Requests
  <2>3. ServerTypes /\ CacheTypes /\ EndTypes
    BY DEF StoreInit, ServerTypes, CacheTypes, EndTypes
  <2>. QED  BY <2>1, <2>2, <2>3, Types
<1>2. ASSUME NEW c \in Callers  PROVE ToldTruth(c)
  BY <1>2 DEF StoreInit, ToldTruth
<1>3. ASSUME NEW m \in Managers  PROVE ManagerSound(m) /\ CacheTrue(m)
  BY <1>3, Given DEF StoreInit, ManagerSound, Initialised, CacheTrue
<1>4. ASSUME NEW u \in Users  PROVE UserSound(u)
  <2>1. task[u] = <<"idle", "store">> /\ position[u] = 1 /\ request[u] = "none" /\ link[u] = "none"
    BY <1>4, Given DEF StoreInit
  <2>. QED  BY <2>1, Given DEF UserSound, At, For
<1>. QED  BY <1>1, <1>2, <1>3, <1>4 DEF StoreInv, OnlySearchEnds, StoreInit

\* The server gives a name at most one identifier.
LEMMA EffectGrows ==
  ASSUME ServerTypes, NEW what, NEW n \in Names, Effect(what, n)
  PROVE  /\ collections' \in [Names -> Nat] /\ content' \subseteq Names
         /\ \A k \in Names : collections[k] = 0 \/ collections'[k] = collections[k]
         /\ what = "create" => collections'[n] # 0
<1>1. Fresh \in Nat \ {0}
  <2>1. IsFiniteSet({k \in Names : collections[k] # 0})
    BY FiniteNames, FS_Subset
  <2>. QED  BY <2>1, FS_CardinalityType DEF Fresh
<1>. QED  BY <1>1 DEF Effect, ServerTypes

\* A step that touches no caller.
LEMMA ServerMoves ==
  ASSUME StoreInv, ServerTypes', Grows,
         UNCHANGED <<requestVars, cached, task, position, problems, ended>>
  PROVE  StoreInv'
<1>1. /\ TaskTypes' /\ CallTypes' /\ CacheTypes' /\ EndTypes'
      /\ \A c \in Callers : Same(c)
  BY Types DEF StoreInv, TaskTypes, CallTypes, CacheTypes, EndTypes, requestVars, Same
<1>2. \A c \in Callers : ToldTruth(c)'
  BY <1>1, ToldKept DEF StoreInv
<1>3. \A m \in Managers : ManagerSound(m)' /\ CacheTrue(m)'
  BY <1>1, ManagerKept, CacheKept, Given DEF StoreInv
<1>4. \A u \in Users : UserSound(u)'
  BY <1>1, UserKept, Given DEF StoreInv
<1>5. OnlySearchEnds'
  BY <1>1, SameName, Given DEF StoreInv, OnlySearchEnds
<1>. QED  BY <1>1, <1>2, <1>3, <1>4, <1>5, Types2 DEF StoreInv

LEMMA LateStep == ASSUME StoreInv, LateEffect PROVE StoreInv'
<1>1. PICK r \in late : /\ late' = late \ {r}
                        /\ Effect(r[1], r[2]) \/ UNCHANGED <<collections, content>>
                        /\ UNCHANGED <<requestVars, cached, task, position, problems,
                                       effected, ended>>
  BY DEF LateEffect
<1>2. ServerTypes /\ r[2] \in Names
  BY Types DEF StoreInv, ServerTypes
<1>3. ServerTypes' /\ Grows
  <2>1. CASE Effect(r[1], r[2])
    BY <1>1, <1>2, <2>1, EffectGrows DEF ServerTypes, Grows
  <2>2. CASE UNCHANGED <<collections, content>>
    BY <1>1, <1>2, <2>2 DEF ServerTypes, Grows
  <2>. QED  BY <1>1, <2>1, <2>2
<1>. QED  BY <1>1, <1>3, ServerMoves

\* A step of the client is one of its caller's request.
LEMMA RequestMoves ==
  ASSUME StoreInv, ServerTypes', Grows, NEW c \in Callers, CallTypes', ToldTruth(c)',
         \A d \in Callers : d # c => Same(d), request'[c] = request[c],
         link[c] # "none", UNCHANGED <<cached, task, position, problems, ended>>
  PROVE  StoreInv'
<1>1. TaskTypes' /\ CacheTypes' /\ EndTypes'
  BY Types DEF StoreInv, TaskTypes, CacheTypes, EndTypes
<1>2. \A d \in Callers : ToldTruth(d)'
  BY ToldKept DEF StoreInv
<1>3. ASSUME NEW d \in Callers
      PROVE  task'[d] = task[d] /\ position'[d] = position[d] /\ request'[d] = request[d]
             /\ NameOf(d)' = NameOf(d) /\ (link[d] = "none" => link'[d] = "none")
  <2>1. task'[d] = task[d] /\ position'[d] = position[d]
    OBVIOUS
  <2>. QED  BY <2>1 DEF Same, NameOf
<1>4. ASSUME NEW m \in Managers  PROVE ManagerSound(m)' /\ CacheTrue(m)'
  <2>1. CacheTrue(m)'
    BY CacheKept DEF StoreInv
  <2>2. ManagerSound(m)'
    BY <1>3, Given DEF StoreInv, ManagerSound, Initialised, CachesKnow
  <2>. QED  BY <2>1, <2>2
<1>5. ASSUME NEW u \in Users  PROVE UserSound(u)'
  <2>. PICK n : n = NameOf(u)
    OBVIOUS
  <2>1. NameOf(u)' = n
    BY <1>3, Given
  <2>. QED  BY <1>3, <2>1, Given DEF StoreInv, UserSound, At, For, Grows
<1>6. OnlySearchEnds'
  BY <1>3, Given DEF StoreInv, OnlySearchEnds
<1>. QED  BY <1>1, <1>2, <1>4, <1>5, <1>6, Types2 DEF StoreInv

LEMMA ClientMoves ==
  ASSUME StoreInv, NEW c \in Callers, ClientStep(c)
  PROVE  StoreInv'
<1>. PICK n, what : n = NameOf(c) /\ what = request[c]
  OBVIOUS
<1>0. /\ TaskTypes /\ CallTypes /\ ServerTypes /\ ToldTruth(c)
      /\ MaxRetries \in Nat
  BY Types, Given DEF StoreInv
<1>1. /\ link[c] # "none" /\ n \in Names /\ UNCHANGED <<request, elsewhere>>
      /\ NameOf(c)' = n
  BY <1>0 DEF ClientStep, Answers, AnswersError, AnswerLost, NoAnswer, Retries, GivesUp,
              Again, ToldTruth, elsewhere, NameOf
<1>2. SUFFICES /\ ServerTypes' /\ Grows /\ CallTypes' /\ ToldTruth(c)'
               /\ \A d \in Callers : d # c => Same(d)
  BY <1>1, RequestMoves DEF elsewhere
<1>3. ASSUME Executes(c)
      PROVE  /\ ServerTypes' /\ Grows /\ collections'[n] \in Nat
             /\ what = "create" => collections'[n] # 0
             /\ what \in {"add", "delete"} => <<c, n>> \in effected'
             /\ reply[c] # 0 => collections'[n] = collections[n]
  <2>1. /\ collections' \in [Names -> Nat] /\ content' \subseteq Names
        /\ \A k \in Names : collections[k] = 0 \/ collections'[k] = collections[k]
        /\ what = "create" => collections'[n] # 0
    BY <1>0, <1>1, <1>3, EffectGrows DEF Executes
  <2>2. c \in Managers => what \notin {"add", "delete"}
    BY <1>0, Given DEF StoreInv, ManagerSound, TaskTypes, ManagerTasks
  <2>3. effected' = IF what \in {"add", "delete"} THEN effected \cup {<<c, n>>} ELSE effected
    BY <1>3 DEF Executes
  <2>4. effected' \subseteq Users \X Names
    BY <1>0, <1>1, <2>2, <2>3, Given DEF ServerTypes
  <2>. QED  BY <1>0, <1>1, <1>3, <2>1, <2>3, <2>4
            DEF Executes, ServerTypes, Grows, ToldTruth
<1>4. CASE Answers(c)
  <2>1. /\ Executes(c) /\ link' = [link EXCEPT ![c] = "ok"]
        /\ reply' = [reply EXCEPT ![c] = collections'[n]]
        /\ UNCHANGED <<request, attempt, elsewhere>>
    BY <1>1, <1>4 DEF Answers
  <2>2. CallTypes' /\ link'[c] = "ok" /\ reply'[c] = collections'[n]
    BY <1>0, <1>3, <2>1 DEF CallTypes, elsewhere
  <2>3. \A d \in Callers : d # c => Same(d)
    BY <1>0, <2>1 DEF Same, CallTypes, elsewhere
  <2>4. ToldTruth(c)'
    BY <1>1, <1>3, <2>1, <2>2 DEF ToldTruth
  <2>. QED  BY <1>3, <2>1, <2>2, <2>3, <2>4
<1>5. ASSUME NEW l \in {"sent", "backoff", "exists", "error"}, NEW a \in 0 .. MaxRetries,
             link' = [link EXCEPT ![c] = l], attempt' = [attempt EXCEPT ![c] = a],
             UNCHANGED <<request, reply, elsewhere>>, l = "backoff" => a < MaxRetries,
             Grows
      PROVE  /\ CallTypes' /\ ToldTruth(c)' /\ \A d \in Callers : d # c => Same(d)
  <2>1. CallTypes' /\ link'[c] = l /\ attempt'[c] = a
    BY <1>0, <1>5 DEF CallTypes, elsewhere
  <2>2. \A d \in Callers : d # c => Same(d)
    BY <1>0, <1>5 DEF Same, CallTypes, elsewhere
  <2>3. reply[c] # 0 => collections'[n] = collections[n]
    BY <1>0, <1>1, <1>5 DEF ToldTruth, Grows
  <2>4. ToldTruth(c)'
    BY <1>0, <1>1, <1>5, <2>1, <2>3 DEF ToldTruth
  <2>. QED  BY <2>1, <2>2, <2>4
<1>6. ASSUME NEW problem \in {"exists", "error"}, Again(c, problem), Grows,
             UNCHANGED <<reply, elsewhere>>
      PROVE  /\ CallTypes' /\ ToldTruth(c)' /\ \A d \in Callers : d # c => Same(d)
  <2>1. PICK l : l = IF attempt[c] < MaxRetries THEN "backoff" ELSE problem
    OBVIOUS
  <2>2. /\ l \in {"sent", "backoff", "exists", "error"}
        /\ link' = [link EXCEPT ![c] = l] /\ UNCHANGED <<request, attempt>>
        /\ attempt[c] \in 0 .. MaxRetries
        /\ l = "backoff" => attempt[c] < MaxRetries
    BY <1>0, <1>6, <2>1 DEF Again, CallTypes
  <2>3. attempt' = [attempt EXCEPT ![c] = attempt[c]]
    BY <1>0, <2>2 DEF CallTypes
  <2>. QED  BY <1>5, <1>6, <2>1, <2>2, <2>3
<1>7. CASE AnswersError(c)
  <2>1. ServerTypes' /\ Grows
    BY <1>0, <1>7 DEF AnswersError, ServerTypes, Grows, serverVars
  <2>2. PICK problem \in {"exists", "error"} : Again(c, problem)
    BY <1>7 DEF AnswersError
  <2>. QED  BY <1>6, <1>7, <2>1, <2>2 DEF AnswersError
<1>8. CASE AnswerLost(c)
  BY <1>3, <1>6, <1>8 DEF AnswerLost
<1>9. CASE NoAnswer(c)
  <2>1. late' \subseteq {"create", "add", "delete"} \X Names
    BY <1>0, <1>1, <1>9 DEF NoAnswer, ServerTypes
  <2>2. ServerTypes' /\ Grows
    BY <1>0, <1>9, <2>1 DEF NoAnswer, ServerTypes, Grows
  <2>. QED  BY <1>6, <1>9, <2>2 DEF NoAnswer
<1>10. CASE Retries(c)
  <2>1. attempt[c] < MaxRetries /\ attempt[c] \in Nat
    BY <1>0, <1>10 DEF Retries, ToldTruth, CallTypes
  <2>2. PICK a \in 0 .. MaxRetries : a = attempt[c] + 1
    BY <1>0, <2>1
  <2>3. ServerTypes' /\ Grows
    BY <1>0, <1>10 DEF Retries, ServerTypes, Grows, serverVars
  <2>. QED  BY <1>5, <1>10, <2>2, <2>3 DEF Retries
<1>11. CASE GivesUp(c)
  <2>1. attempt' = [attempt EXCEPT ![c] = attempt[c]] /\ attempt[c] \in 0 .. MaxRetries
    BY <1>0, <1>11 DEF GivesUp, CallTypes
  <2>2. ServerTypes' /\ Grows
    BY <1>0, <1>11 DEF GivesUp, ServerTypes, Grows, serverVars
  <2>. QED  BY <1>5, <1>11, <2>1, <2>2 DEF GivesUp
<1>. QED  BY <1>4, <1>7, <1>8, <1>9, <1>10, <1>11 DEF ClientStep

-----------------------------------------------------------------------------
(* The store: the steps of a manager *)

\* The name of a manager that has a task at a position.
LEMMA ManagerName ==
  ASSUME NEW m \in Managers
  PROVE  NameOf(m)' = IF task'[m] \in {"getMeta", "meta"} THEN Meta[position'[m]]
                      ELSE Own[position'[m]]
BY Given DEF NameOf

\* What a manager's step starts from.
LEMMA ManagerHas ==
  ASSUME StoreInv, NEW m \in Managers
  PROVE  /\ TaskTypes /\ CallTypes /\ ServerTypes /\ CacheTypes /\ EndTypes
         /\ m \in Callers /\ m \notin Users
         /\ ManagerSound(m) /\ CacheTrue(m) /\ ToldTruth(m)
BY Types, Given DEF StoreInv

LEMMA ManagerGoes ==
  ASSUME StoreInv, NEW m \in Managers, task[m] # "ready", NEW to \in ManagerTasks,
         NEW at \in Nat, NEW what \in Requests, Goes2(m, to, at, what),
         UNCHANGED <<serverVars, problems, effected, ended>>,
         CacheTypes', \A d \in Managers : d # m => cached'[d] = cached[d], CacheTrue(m)',
         <<to, what>> \in {<<"health", "health">>, <<"ensure", "list">>, <<"ensure", "create">>,
                           <<"relist", "list">>, <<"getMeta", "get">>, <<"meta", "create">>,
                           <<"ready", "none">>, <<"failed", "none">>},
         to = "health" => at = 1,
         to \in {"ensure", "relist"} =>
           /\ at \in DOMAIN Own
           /\ \A i \in 1 .. at - 1 : cached'[m][Own[i]] # 0,
         to \in {"getMeta", "meta"} => at \in DOMAIN Meta,
         to \in {"getMeta", "meta", "ready"} => CachesKnow(m)'
  PROVE  StoreInv'
<1>1. task'[m] = to /\ position'[m] = at /\ request'[m] = what
      /\ link'[m] = IF what = "none" THEN "none" ELSE "sent"
  BY ManagerHas, Moved
<1>2. ManagerSound(m)'
  BY <1>1 DEF ManagerSound, Initialised
<1>3. what # "none" => NameOf(m)' \in Names
  BY <1>1, ManagerName, NamesGiven, Given
<1>. QED  BY <1>2, <1>3, ManagerMoves

\* A step that leaves the map as it is.
LEMMA CacheStays ==
  ASSUME StoreInv, NEW m \in Managers, UNCHANGED <<cached, serverVars>>
  PROVE  /\ CacheTypes' /\ CacheTrue(m)'
         /\ \A d \in Managers : d # m => cached'[d] = cached[d]
BY ManagerHas DEF CacheTypes, CacheTrue, serverVars

\* The map gets an identifier of its collection.
LEMMA CacheLearns ==
  ASSUME StoreInv, NEW m \in Managers, task[m] \in {"ensure", "relist"},
         Caches(m), UNCHANGED serverVars, reply[m] # 0
  PROVE  /\ CacheTypes' /\ CacheTrue(m)'
         /\ \A d \in Managers : d # m => cached'[d] = cached[d]
         /\ \A i \in 1 .. position[m] : cached'[m][Own[i]] # 0
<1>1. PICK n : n = NameOf(m)
  OBVIOUS
<1>2. /\ n = Own[position[m]] /\ position[m] \in DOMAIN Own /\ n \in Names
      /\ reply[m] = collections[n] /\ reply[m] \in Nat
      /\ \A i \in 1 .. position[m] - 1 : cached[m][Own[i]] # 0
  BY <1>1, ManagerHas, NamesGiven, Given DEF ManagerSound, ToldTruth, NameOf, CallTypes
<1>3. /\ CacheTypes' /\ cached'[m][n] = reply[m]
      /\ \A k \in Names : k # n => cached'[m][k] = cached[m][k]
      /\ \A d \in Managers : d # m => cached'[d] = cached[d]
  BY <1>1, <1>2, ManagerHas DEF Caches, CacheTypes
<1>4. CacheTrue(m)'
  BY <1>2, <1>3, ManagerHas DEF CacheTrue, serverVars
<1>5. ASSUME NEW i \in 1 .. position[m]  PROVE cached'[m][Own[i]] # 0
  <2>1. Own[i] \in Names /\ (i = position[m] \/ i \in 1 .. position[m] - 1)
    BY <1>2, NamesGiven, Given
  <2>. QED  BY <1>2, <1>3, <2>1
<1>. QED  BY <1>3, <1>4, <1>5

LEMMA NextOwn ==
  ASSUME StoreInv, NEW m \in Managers, task[m] \in {"ensure", "relist"}, reply[m] # 0,
         Caches(m), NextName(m), UNCHANGED <<serverVars, problems, effected, ended>>
  PROVE  StoreInv'
<1>1. /\ CacheTypes' /\ CacheTrue(m)'
      /\ \A d \in Managers : d # m => cached'[d] = cached[d]
      /\ \A i \in 1 .. position[m] : cached'[m][Own[i]] # 0
      /\ position[m] \in 1 .. Len(Own) /\ Len(Own) \in Nat
  BY CacheLearns, ManagerHas, Given DEF ManagerSound
<1>2. CASE position[m] < Len(Own)
  <2>1. PICK at \in DOMAIN Own : at = position[m] + 1
    BY <1>1, <1>2, Given
  <2>2. Goes2(m, "ensure", at, "list")
    BY <1>2, <2>1 DEF NextName
  <2>3. at \in Nat /\ \A i \in 1 .. at - 1 : cached'[m][Own[i]] # 0
    BY <1>1, <2>1
  <2>. QED  BY <1>1, <2>1, <2>2, <2>3, ManagerGoes DEF ManagerTasks, Requests
<1>3. CASE ~(position[m] < Len(Own))
  <2>1. Goes2(m, "getMeta", 1, "get") /\ position[m] = Len(Own) /\ 1 \in DOMAIN Meta
    BY <1>1, <1>3, Given DEF NextName
  <2>2. CachesKnow(m)'
    BY <1>1, <2>1, Given DEF CachesKnow, Named
  <2>. QED  BY <1>1, <2>1, <2>2, ManagerGoes DEF ManagerTasks, Requests
<1>. QED  BY <1>2, <1>3

LEMMA ManagerSteps ==
  ASSUME StoreInv, NEW m \in Managers, StartManager(m) \/ ManagerStep(m)
  PROVE  StoreInv'
<1>. USE DEF ManagerTasks, Requests
<1>0. /\ TaskTypes /\ CallTypes /\ ManagerSound(m) /\ CacheTrue(m) /\ ToldTruth(m)
      /\ position[m] \in Nat /\ Len(Own) \in Nat \ {0} /\ Len(Meta) \in Nat \ {0}
      /\ DOMAIN Own = 1 .. Len(Own) /\ DOMAIN Meta = 1 .. Len(Meta)
  BY ManagerHas, Given DEF CallTypes
<1>1. CASE StartManager(m)
  <2>1. /\ task[m] \in {"new", "failed"} /\ Goes2(m, "health", 1, "health")
        /\ cached' = [cached EXCEPT ![m] = [n \in Names |-> 0]]
        /\ UNCHANGED <<serverVars, problems, effected, ended>>
    BY <1>1 DEF StartManager, ManagerAt
  <2>2. CacheTypes' /\ \A d \in Managers : d # m => cached'[d] = cached[d]
    BY <2>1, ManagerHas DEF CacheTypes
  <2>3. CacheTrue(m)'
    BY <2>1, ManagerHas DEF CacheTypes, CacheTrue
  <2>. QED  BY <2>1, <2>2, <2>3, ManagerGoes
<1>2. CASE CheckHealth(m)
  <2>1. /\ task[m] = "health" /\ UNCHANGED <<cached, serverVars, problems, effected, ended>>
        /\ \/ Goes2(m, "ensure", 1, "list")
           \/ Goes2(m, "failed", position[m], "none")
    BY <1>2 DEF CheckHealth, ManagerAt, Here
  <2>2. /\ CacheTypes' /\ CacheTrue(m)'
        /\ \A d \in Managers : d # m => cached'[d] = cached[d]
    BY <2>1, CacheStays
  <2>. QED  BY <1>0, <2>1, <2>2, ManagerGoes
<1>3. CASE EnsureFound(m) \/ Created(m) \/ Relisted(m)
  <2>1. /\ task[m] \in {"ensure", "relist"} /\ Caches(m) /\ NextName(m) /\ reply[m] # 0
        /\ UNCHANGED <<serverVars, problems, effected, ended>>
    BY <1>0, <1>3 DEF EnsureFound, Created, Relisted, ManagerAt, ToldTruth
  <2>. QED  BY <2>1, NextOwn
<1>4. CASE EnsureCreates(m) \/ CreateRaced(m) \/ EnsureFails(m)
  <2>1. /\ task[m] \in {"ensure", "relist"}
        /\ UNCHANGED <<cached, serverVars, problems, effected, ended>>
        /\ \/ Goes2(m, "ensure", position[m], "create")
           \/ Goes2(m, "relist", position[m], "list")
           \/ Goes2(m, "failed", position[m], "none")
    BY <1>4 DEF EnsureCreates, CreateRaced, EnsureFails, ManagerAt, Here
  <2>2. /\ CacheTypes' /\ CacheTrue(m)'
        /\ \A d \in Managers : d # m => cached'[d] = cached[d]
    BY <2>1, CacheStays
  <2>3. /\ position[m] \in DOMAIN Own
        /\ \A i \in 1 .. position[m] - 1 : cached'[m][Own[i]] # 0
    BY <1>0, <2>1 DEF ManagerSound
  <2>. QED  BY <1>0, <2>1, <2>2, <2>3, ManagerGoes
<1>5. CASE MetaGot(m) \/ MetaCreated(m)
  <2>1. /\ task[m] \in {"getMeta", "meta"}
        /\ UNCHANGED <<cached, serverVars, problems, effected, ended>>
        /\ \/ position[m] < Len(Meta) /\ Goes2(m, "getMeta", position[m] + 1, "get")
           \/ Goes2(m, "ready", position[m], "none")
           \/ Goes2(m, "meta", position[m], "create")
    BY <1>5 DEF MetaGot, MetaCreated, NextMeta, ManagerAt, Here
  <2>2. /\ CacheTypes' /\ CacheTrue(m)'
        /\ \A d \in Managers : d # m => cached'[d] = cached[d]
    BY <2>1, CacheStays
  <2>3. CachesKnow(m)' /\ position[m] \in DOMAIN Meta
    BY <1>0, <2>1 DEF ManagerSound, Initialised, CachesKnow
  <2>4. PICK at : at = position[m] + 1
    OBVIOUS
  <2>5. at \in Nat /\ (position[m] < Len(Meta) => at \in DOMAIN Meta)
    BY <1>0, <2>4
  <2>. QED  BY <1>0, <2>1, <2>2, <2>3, <2>4, <2>5, ManagerGoes
<1>. QED  BY <1>1, <1>2, <1>3, <1>4, <1>5 DEF ManagerStep

-----------------------------------------------------------------------------
(* The store: the steps of a user *)

\* What a user's step starts from.
LEMMA UserHas ==
  ASSUME StoreInv, NEW u \in Users
  PROVE  /\ TaskTypes /\ CallTypes /\ ServerTypes /\ CacheTypes /\ EndTypes
         /\ u \in Callers /\ u \notin Managers /\ Main \in Managers
         /\ UserSound(u) /\ ToldTruth(u)
         /\ NameOf(u) = UserName(position[u]) /\ NameOf(u) \in Names
         /\ position[u] \in 1 .. Len(Own) + 1
         /\ position[u] <= Len(Own) => NameOf(u) = Own[position[u]]
<1>1. UserSound(u)
  BY DEF StoreInv
<1>2. position[u] \in 1 .. Len(Own) + 1
  BY <1>1 DEF UserSound
<1>. QED  BY <1>1, <1>2, Types, Given, NameOfUser, UserNames DEF StoreInv

\* The goroutine that is caught writing the map searches a foreign collection.
LEMMA ClashIsSearch ==
  ASSUME StoreInv, NEW u \in Users, \A v \in Users : v # u => Same(v), ended' => Clash(u)
  PROVE  OnlySearchEnds'
<1>. SUFFICES ASSUME ended'
              PROVE  \E v \in Users : /\ task'[v] = <<"writing", "search">>
                                      /\ NameOf(v)' \notin Named(Own)
  BY DEF OnlySearchEnds
<1>1. PICK v \in Users \ {u} : \E k \in Kinds : task[v] = <<"writing", k>>
  BY DEF Clash
<1>2. PICK k \in Kinds : task[v] = <<"writing", k>>
  BY <1>1
<1>3. /\ NameOf(v) \notin Named(Own)
      /\ k \in {"store", "delete"} => position[v] <= Len(Own)
  <2>1. At(v, {"writing"}) /\ For(v, {k})
    BY <1>2 DEF At, For
  <2>2. UserSound(v)
    BY UserHas
  <2>3. (At(v, {"writing"}) => NameOf(v) \notin Named(Own))
        /\ (For(v, {"store", "delete"}) => position[v] <= Len(Own))
    BY <2>2 DEF UserSound
  <2>. QED  BY <2>1, <2>3 DEF For
<1>4. k = "search"
  BY <1>3, UserHas, NamesGiven, Given DEF Kinds
<1>. QED  BY <1>2, <1>3, <1>4, SameName DEF Same

LEMMA UserGoes ==
  ASSUME StoreInv, NEW u \in Users, NEW t \in UserTasks, t # "idle", t # "writing",
         NEW k \in {"store", "delete", "search"}, NEW at \in 1 .. Len(Own) + 1,
         NEW what \in Requests, Goes2(u, <<t, k>>, at, what),
         UNCHANGED <<serverVars, effected>>, EndTypes', ended' => Clash(u),
         \A v \in Users : v # u => (v \in problems' <=> v \in problems),
         CacheTypes', \A m \in Managers : CacheTrue(m)',
         \A m \in Managers, n \in Named(Own) : cached[m][n] # 0 => cached'[m][n] # 0,
         task[Main] = "ready", t = "embed" => k # "delete",
         k \in {"store", "delete"} => at <= Len(Own), k = "delete" => at = 1,
         IF t = "act" THEN what = CASE k = "store" -> "add" [] k = "delete" -> "delete"
                                    [] OTHER -> "query"
         ELSE what = "none" \/ (t = "resolve" /\ what = "list" /\ UserName(at) \notin Named(Own)),
         k = "store" /\ t \in {"resolve", "embed", "act"} /\ u \notin problems' =>
           \A i \in 1 .. at - 1 : <<u, Own[i]>> \in effected,
         k = "store" /\ t = "ok" => \A n \in Named(Own) : <<u, n>> \in effected,
         k = "delete" /\ t = "ok" => <<u, Own[1]>> \in effected
  PROVE  StoreInv'
<1>1. /\ task'[u] = <<t, k>> /\ position'[u] = at /\ request'[u] = what
      /\ link'[u] = IF what = "none" THEN "none" ELSE "sent"
      /\ \A d \in Callers : d # u => Same(d)
      /\ at \in Nat /\ <<t, k>> \in UserTasks \X {"store", "delete", "search"}
  BY UserHas, Moved, Given
<1>2. OnlySearchEnds'
  BY <1>1, ClashIsSearch, Given
<1>3. task'[Main] = "ready"
  BY <1>1, UserHas DEF Same, Callers
<1>4. NameOf(u)' = UserName(at)
  BY <1>1, NameOfUser
<1>5. UserSound(u)'
  BY <1>1, <1>3, <1>4 DEF UserSound, At, For
<1>. QED  BY <1>1, <1>2, <1>5, UserMoves

\* A step that leaves the maps as they are.
LEMMA CachesStay ==
  ASSUME StoreInv, UNCHANGED <<cached, serverVars>>
  PROVE  /\ CacheTypes' /\ \A m \in Managers : CacheTrue(m)'
         /\ \A m \in Managers, n \in Named(Own) : cached[m][n] # 0 => cached'[m][n] # 0
BY Types DEF StoreInv, CacheTypes, CacheTrue, serverVars

LEMMA ItemMoves ==
  ASSUME StoreInv, NEW u \in Users, NEW ok \in BOOLEAN, ItemDone(u, ok),
         For(u, {"store"}), At(u, {"resolve", "embed", "act"}),
         ok => <<u, NameOf(u)>> \in effected,
         UNCHANGED <<serverVars, effected, cached>>, ended' \in BOOLEAN, ended' => Clash(u)
  PROVE  StoreInv'
<1>0. /\ position[u] \in 1 .. Len(Own) /\ Len(Own) \in Nat \ {0} /\ task[Main] = "ready"
      /\ NameOf(u) = Own[position[u]]
      /\ u \notin problems => \A i \in 1 .. position[u] - 1 : <<u, Own[i]>> \in effected
  <2>1. /\ For(u, {"store", "delete"}) => position[u] <= Len(Own)
        /\ ~At(u, {"idle"}) => task[Main] = "ready"
        /\ At(u, {"resolve", "writing", "embed", "act"}) /\ For(u, {"store"}) /\ u \notin problems =>
             \A i \in 1 .. position[u] - 1 : <<u, Own[i]>> \in effected
    BY UserHas DEF UserSound
  <2>2. /\ ~At(u, {"idle"}) /\ At(u, {"resolve", "writing", "embed", "act"})
        /\ For(u, {"store", "delete"})
    BY DEF At, For
  <2>3. position[u] \in 1 .. Len(Own)
    BY <2>1, <2>2, UserHas, Given
  <2>. QED  BY <2>1, <2>2, <2>3, UserHas, Given
<1>1. /\ EndTypes' /\ \A v \in Users : v # u => (v \in problems' <=> v \in problems)
      /\ u \notin problems' => u \notin problems /\ ok
  BY UserHas DEF ItemDone, EndTypes
<1>2. u \notin problems' => \A i \in 1 .. position[u] : <<u, Own[i]>> \in effected
  <2>. SUFFICES ASSUME u \notin problems', NEW i \in 1 .. position[u]
                PROVE  <<u, Own[i]>> \in effected
    OBVIOUS
  <2>1. i = position[u] \/ i \in 1 .. position[u] - 1
    BY <1>0
  <2>. QED  BY <1>0, <1>1, <2>1
<1>3. CASE position[u] < Len(Own)
  <2>1. PICK at : at = position[u] + 1
    OBVIOUS
  <2>2. at \in 1 .. Len(Own) + 1 /\ at <= Len(Own) /\ at - 1 = position[u]
    BY <1>0, <1>3, <2>1
  <2>3. Goes2(u, <<"resolve", "store">>, at, "none")
    BY <1>3, <2>1 DEF ItemDone
  <2>. QED  BY <1>0, <1>1, <1>2, <2>2, <2>3, CachesStay, UserGoes DEF UserTasks, Requests
<1>4. CASE ~(position[u] < Len(Own))
  <2>1. PICK t : t = IF u \in problems' THEN "error" ELSE "ok"
    OBVIOUS
  <2>2. Goes2(u, <<t, "store">>, position[u], "none") /\ position[u] = Len(Own)
    BY <1>0, <1>4, <2>1 DEF ItemDone, Here
  <2>3. t = "ok" => \A n \in Named(Own) : <<u, n>> \in effected
    BY <1>2, <2>1, <2>2, Given DEF Named
  <2>4. /\ t \in UserTasks /\ t # "idle" /\ t # "writing" /\ t # "act" /\ t # "embed"
        /\ t # "resolve" /\ "none" \in Requests
        /\ position[u] \in 1 .. Len(Own) + 1 /\ position[u] <= Len(Own)
    BY <1>0, <2>1, <2>2 DEF UserTasks, Requests
  <2>. QED  BY <1>0, <1>1, <2>2, <2>3, <2>4, CachesStay, UserGoes
<1>. QED  BY <1>3, <1>4

LEMMA FailMoves ==
  ASSUME StoreInv, NEW u \in Users, NEW k \in Kinds, Fails(u, k),
         For(u, {k}), At(u, {"resolve", "embed", "act"}),
         UNCHANGED <<serverVars, effected, cached>>, ended' \in BOOLEAN, ended' => Clash(u)
  PROVE  StoreInv'
<1>1. CASE k = "store"
  BY <1>1, ItemMoves DEF Fails
<1>2. CASE k # "store"
  <2>1. Goes2(u, <<"error", k>>, position[u], "none") /\ UNCHANGED problems
    BY <1>2 DEF Fails, Here
  <2>2. /\ task[Main] = "ready" /\ position[u] \in 1 .. Len(Own) + 1 /\ EndTypes'
        /\ k = "delete" => position[u] = 1 /\ position[u] <= Len(Own)
    BY <2>1, UserHas, Given DEF UserSound, At, For, EndTypes
  <2>. QED  BY <1>2, <2>1, <2>2, CachesStay, UserGoes DEF UserTasks, Requests, Kinds
<1>. QED  BY <1>1, <1>2

LEMMA AskMoves ==
  ASSUME StoreInv, ~ended, NEW u \in Users, NEW k \in Kinds, Ask(u, k)
  PROVE  StoreInv'
<1>1. PICK at \in 1 .. Len(Own) + 1 :
        (k # "search" => at = 1) /\ Goes2(u, <<"resolve", k>>, at, "none")
  BY DEF Ask
<1>2. /\ task[Main] = "ready" /\ UNCHANGED <<serverVars, effected, cached, problems, ended>>
      /\ EndTypes' /\ (k # "search" => at <= Len(Own)) /\ \A i \in 1 .. at - 1 : k # "search" => FALSE
  BY <1>1, UserHas, Given DEF Ask, UserAt, EndTypes
<1>. QED  BY <1>1, <1>2, CachesStay, UserGoes DEF UserTasks, Requests, Kinds

\* What the branches of getCollectionID and the steps after it rely on.
LEMMA UserIs ==
  ASSUME StoreInv, NEW u \in Users, NEW t \in UserTasks, NEW k \in Kinds,
         task[u] = <<t, k>>, t # "idle"
  PROVE  /\ At(u, {t}) /\ For(u, {k}) /\ task[Main] = "ready"
         /\ k \in {"store", "delete"} => position[u] <= Len(Own)
         /\ k = "delete" => position[u] = 1
         /\ t = "resolve" /\ request[u] = "list" => NameOf(u) \notin Named(Own)
         /\ t = "writing" => NameOf(u) \notin Named(Own)
         /\ t = "embed" => k # "delete"
         /\ t = "act" => request[u] = CASE k = "store" -> "add" [] k = "delete" -> "delete"
                                        [] OTHER -> "query"
         /\ k = "store" /\ t \in {"resolve", "writing", "embed", "act"} /\ u \notin problems =>
              \A i \in 1 .. position[u] - 1 : <<u, Own[i]>> \in effected
<1>1. UserSound(u) /\ task[u][1] = t /\ task[u][2] = k
  BY UserHas
<1>. QED  BY <1>1 DEF UserSound, At, For, Kinds

\* The identifier is known: on to the embedding, or to the deletion.
LEMMA ResolvedMoves ==
  ASSUME StoreInv, NEW u \in Users, NEW k \in Kinds, NEW t \in {"resolve", "writing"},
         task[u] = <<t, k>>, UNCHANGED <<serverVars, effected, problems>>,
         Here(u, <<IF k = "delete" THEN "act" ELSE "embed", k>>,
                 IF k = "delete" THEN "delete" ELSE "none"),
         CacheTypes', \A m \in Managers : CacheTrue(m)',
         \A m \in Managers, n \in Named(Own) : cached[m][n] # 0 => cached'[m][n] # 0,
         ended' \in BOOLEAN, ended' => Clash(u)
  PROVE  StoreInv'
<1>1. PICK to, what : /\ to = IF k = "delete" THEN "act" ELSE "embed"
                      /\ what = IF k = "delete" THEN "delete" ELSE "none"
  OBVIOUS
<1>2. Goes2(u, <<to, k>>, position[u], what)
  BY <1>1 DEF Here
<1>3. /\ task[Main] = "ready" /\ position[u] \in 1 .. Len(Own) + 1 /\ EndTypes'
      /\ k \in {"store", "delete"} => position[u] <= Len(Own)
      /\ k = "delete" => position[u] = 1
      /\ k = "store" /\ u \notin problems =>
           \A i \in 1 .. position[u] - 1 : <<u, Own[i]>> \in effected
  <2>1. t \in UserTasks /\ t # "idle"
    BY DEF UserTasks
  <2>2. EndTypes' /\ position[u] \in 1 .. Len(Own) + 1
    BY UserHas DEF EndTypes
  <2>. QED  BY <2>1, <2>2, UserIs
<1>4. /\ to \in UserTasks /\ to # "idle" /\ to # "writing" /\ to # "ok" /\ what \in Requests
      /\ k \in {"store", "delete", "search"} /\ (to = "act" => k = "delete" /\ what = "delete")
      /\ to = "embed" => k # "delete"
      /\ to # "act" => what = "none"
  BY <1>1 DEF UserTasks, Requests, Kinds
<1>. QED  BY <1>2, <1>3, <1>4, UserGoes

LEMMA ResolveMoves ==
  ASSUME StoreInv, ~ended, NEW u \in Users, NEW k \in Kinds, Resolve(u, k)
  PROVE  StoreInv'
<1>1. /\ task[u] = <<"resolve", k>> /\ request[u] = "none"
      /\ UNCHANGED <<serverVars, effected, cached, problems>>
      /\ ended' \in BOOLEAN /\ (ended' => Clash(u))
  BY DEF Resolve, UserAt, MayEnd
<1>2. CASE cached[Main][NameOf(u)] # 0
  BY <1>1, <1>2, CachesStay, ResolvedMoves DEF Resolve
<1>3. CASE cached[Main][NameOf(u)] = 0
  <2>1. Goes2(u, <<"resolve", k>>, position[u], "list")
    BY <1>3 DEF Resolve, Here
  <2>2. /\ task[Main] = "ready"
        /\ k \in {"store", "delete"} => position[u] <= Len(Own)
        /\ k = "delete" => position[u] = 1
        /\ k = "store" /\ u \notin problems =>
             \A i \in 1 .. position[u] - 1 : <<u, Own[i]>> \in effected
    BY <1>1, UserIs DEF UserTasks
  <2>3. UserName(position[u]) \notin Named(Own)
    <3>1. CachesKnow(Main)
      BY <2>2, UserHas, ManagerHas DEF ManagerSound, Initialised
    <3>. QED  BY <1>3, <3>1, UserHas DEF CachesKnow
  <2>4. EndTypes' /\ position[u] \in 1 .. Len(Own) + 1
    BY <1>1, UserHas DEF EndTypes
  <2>5. k \in {"store", "delete", "search"} /\ "resolve" \in UserTasks /\ "list" \in Requests
    BY DEF Kinds, UserTasks, Requests
  <2>. QED  BY <1>1, <2>1, <2>2, <2>3, <2>4, <2>5, CachesStay, UserGoes
<1>. QED  BY <1>2, <1>3

LEMMA ListedMoves ==
  ASSUME StoreInv, ~ended, NEW u \in Users, NEW k \in Kinds, ResolveListed(u, k)
  PROVE  StoreInv'
<1>0. /\ TaskTypes /\ CallTypes /\ ServerTypes /\ CacheTypes /\ EndTypes /\ u \in Callers
      /\ u \notin Managers
  BY UserHas
<1>1. /\ task[u] = <<"resolve", k>> /\ request[u] = "list"
      /\ UNCHANGED <<serverVars, effected, cached>>
      /\ ended' \in BOOLEAN /\ (ended' => Clash(u))
  BY DEF ResolveListed, UserAt, MayEnd
<1>2. CASE Fails(u, k)
  <2>1. For(u, {k}) /\ At(u, {"resolve", "embed", "act"})
    BY <1>1 DEF For, At
  <2>. QED  BY <1>1, <1>2, <2>1, FailMoves
<1>3. CASE /\ task' = [task EXCEPT ![u] = <<"writing", k>>]
           /\ UNCHANGED <<requestVars, position, problems>>
  <2>1. /\ task'[u] = <<"writing", k>> /\ \A d \in Callers : d # u => Same(d)
        /\ position'[u] = position[u] /\ request'[u] = request[u] /\ link'[u] = link[u]
        /\ reply'[u] = reply[u] /\ attempt'[u] = attempt[u] /\ NameOf(u)' = NameOf(u)
    BY <1>0, <1>3, NameOfUser DEF TaskTypes, Same, requestVars
  <2>2. /\ CallTypes' /\ ServerTypes' /\ CacheTypes' /\ EndTypes' /\ Grows
    BY <1>0, <1>1, <1>3 DEF CallTypes, ServerTypes, CacheTypes, EndTypes, Grows,
                            requestVars, serverVars
  <2>3. TaskTypes'
    <3>1. /\ task' = [d \in Callers |-> task'[d]]
          /\ task'[u] \in UserTasks \X {"store", "delete", "search"}
      BY <1>0, <1>3, <2>1 DEF TaskTypes, UserTasks, Kinds
    <3>. QED  BY <1>0, <2>1, <3>1, Given DEF TaskTypes, Same
  <2>4. ToldTruth(u)'
    <3>1. PICK n : n = NameOf(u)
      OBVIOUS
    <3>. QED  BY <1>1, <2>1, <3>1, UserHas DEF ToldTruth, serverVars
  <2>5. \A c \in Callers : ToldTruth(c)'
    BY <2>1, <2>2, <2>4, ToldKept DEF StoreInv
  <2>6. \A m \in Managers : ManagerSound(m)' /\ CacheTrue(m)'
    BY <1>0, <1>1, <2>1, <2>2, ManagerKept, CacheKept, Given DEF StoreInv
  <2>7. task'[Main] = task[Main]
    BY <1>0, <2>1, Given DEF Same
  <2>8. UserSound(u)'
    <3>1. /\ NameOf(u) \notin Named(Own) /\ task[Main] = "ready"
          /\ k \in {"store", "delete"} => position[u] <= Len(Own)
          /\ k = "delete" => position[u] = 1
          /\ k = "store" /\ u \notin problems =>
               \A i \in 1 .. position[u] - 1 : <<u, Own[i]>> \in effected
      BY <1>1, UserIs DEF UserTasks
    <3>2. At(u, {"writing"})' /\ task'[u][1] = "writing" /\ task'[u][2] = k
          /\ position'[u] \in 1 .. Len(Own) + 1
      BY <2>1, UserHas DEF At
    <3>3. problems' = problems /\ effected' = effected
      BY <1>1, <1>3
    <3>. QED  BY <2>1, <2>7, <3>1, <3>2, <3>3 DEF UserSound, At, For
  <2>9. \A v \in Users : UserSound(v)'
    BY <1>3, <2>1, <2>2, <2>7, <2>8, UserKept, Given DEF StoreInv
  <2>10. OnlySearchEnds'
    BY <1>1, <2>1, ClashIsSearch, Given
  <2>. QED  BY <2>2, <2>3, <2>5, <2>6, <2>9, <2>10, Types2 DEF StoreInv
<1>. QED  BY <1>2, <1>3 DEF ResolveListed

LEMMA WrittenMoves ==
  ASSUME StoreInv, ~ended, NEW u \in Users, NEW k \in Kinds, Written(u, k)
  PROVE  StoreInv'
<1>1. PICK n : n = NameOf(u)
  OBVIOUS
<1>2. /\ task[u] = <<"writing", k>> /\ UNCHANGED <<serverVars, effected, problems, ended>>
      /\ cached' = [cached EXCEPT ![Main][n] = reply[u]]
      /\ Here(u, <<IF k = "delete" THEN "act" ELSE "embed", k>>,
                 IF k = "delete" THEN "delete" ELSE "none")
  BY <1>1 DEF Written, UserAt
<1>3. /\ n \in Names \ Named(Own) /\ reply[u] \in {0, collections[n]} /\ reply[u] \in Nat
      /\ CacheTypes /\ Main \in Managers /\ EndTypes
  BY <1>1, <1>2, UserIs, UserHas DEF UserTasks, ToldTruth, CallTypes
<1>4. CacheTypes'
  BY <1>2, <1>3 DEF CacheTypes
<1>5. \A m \in Managers : CacheTrue(m)'
  BY <1>2, <1>3 DEF StoreInv, CacheTrue, CacheTypes, serverVars
<1>6. \A m \in Managers, x \in Named(Own) : cached[m][x] # 0 => cached'[m][x] # 0
  BY <1>2, <1>3, NamesGiven DEF CacheTypes
<1>7. ended' \in BOOLEAN /\ (ended' => Clash(u))
  BY <1>2, <1>3 DEF EndTypes
<1>. QED  BY <1>2, <1>4, <1>5, <1>6, <1>7, ResolvedMoves

LEMMA EmbedMoves ==
  ASSUME StoreInv, ~ended, NEW u \in Users, NEW k \in Kinds, EmbedDone(u, k)
  PROVE  StoreInv'
<1>1. /\ task[u] = <<"embed", k>> /\ UNCHANGED <<serverVars, effected, cached, ended>>
      /\ ended' \in BOOLEAN /\ (ended' => Clash(u))
  BY UserHas DEF EmbedDone, UserAt, EndTypes
<1>2. CASE Fails(u, k)
  <2>1. For(u, {k}) /\ At(u, {"resolve", "embed", "act"})
    BY <1>1 DEF For, At
  <2>. QED  BY <1>1, <1>2, <2>1, FailMoves
<1>3. CASE /\ Here(u, <<"act", k>>, IF k = "store" THEN "add" ELSE "query")
           /\ UNCHANGED problems
  <2>1. PICK what : what = IF k = "store" THEN "add" ELSE "query"
    OBVIOUS
  <2>2. Goes2(u, <<"act", k>>, position[u], what) /\ problems' = problems
    BY <1>3, <2>1 DEF Here
  <2>3. k # "delete"
    BY <1>1, UserIs DEF UserTasks
  <2>4. /\ task[Main] = "ready"
        /\ k = "store" => position[u] <= Len(Own)
        /\ k = "store" /\ u \notin problems =>
             \A i \in 1 .. position[u] - 1 : <<u, Own[i]>> \in effected
    BY <1>1, UserIs DEF UserTasks
  <2>5. EndTypes' /\ position[u] \in 1 .. Len(Own) + 1
    BY <1>1, <2>2, UserHas DEF EndTypes
  <2>6. /\ k \in {"store", "search"} /\ "act" \in UserTasks /\ what \in Requests
        /\ what = CASE k = "store" -> "add" [] k = "delete" -> "delete" [] OTHER -> "query"
    BY <2>1, <2>3 DEF Kinds, UserTasks, Requests
  <2>. QED  BY <1>1, <2>2, <2>4, <2>5, <2>6, CachesStay, UserGoes
<1>. QED  BY <1>2, <1>3 DEF EmbedDone

LEMMA ActedMoves ==
  ASSUME StoreInv, ~ended, NEW u \in Users, NEW k \in Kinds, Acted(u, k)
  PROVE  StoreInv'
<1>1. /\ task[u] = <<"act", k>> /\ UNCHANGED <<serverVars, effected, cached, ended>>
      /\ ended' \in BOOLEAN /\ (ended' => Clash(u))
  BY UserHas DEF Acted, UserAt, EndTypes
<1>2. For(u, {k}) /\ At(u, {"resolve", "embed", "act"})
  BY <1>1 DEF For, At
<1>3. /\ task[Main] = "ready"
      /\ k = "delete" => position[u] = 1
      /\ request[u] = CASE k = "store" -> "add" [] k = "delete" -> "delete"
                        [] OTHER -> "query"
  BY <1>1, UserIs DEF UserTasks
<1>4. link[u] = "ok" /\ k \in {"store", "delete"} => <<u, NameOf(u)>> \in effected
  BY <1>3, UserHas DEF ToldTruth
<1>5. CASE Fails(u, k)
  BY <1>1, <1>2, <1>5, FailMoves
<1>6. CASE link[u] = "ok" /\ k = "store" /\ ItemDone(u, TRUE)
  BY <1>1, <1>2, <1>4, <1>6, ItemMoves
<1>7. CASE link[u] = "ok" /\ k # "store" /\ Here(u, <<"ok", k>>, "none") /\ UNCHANGED problems
  <2>1. Goes2(u, <<"ok", k>>, position[u], "none") /\ problems' = problems
    BY <1>7 DEF Here
  <2>2. /\ k = "delete" => position[u] <= Len(Own) /\ <<u, Own[1]>> \in effected
        /\ EndTypes' /\ position[u] \in 1 .. Len(Own) + 1
    BY <1>1, <1>3, <1>4, <1>7, <2>1, UserHas, Given DEF EndTypes
  <2>3. k \in {"delete", "search"} /\ "ok" \in UserTasks /\ "none" \in Requests
    BY <1>7 DEF Kinds, UserTasks, Requests
  <2>. QED  BY <1>1, <1>3, <2>1, <2>2, <2>3, CachesStay, UserGoes
<1>. QED  BY <1>5, <1>6, <1>7 DEF Acted

LEMMA StoreMoves == StoreInv /\ [StoreNext]_storeVars => StoreInv'
<1>. SUFFICES ASSUME StoreInv, [StoreNext]_storeVars PROVE StoreInv'
  OBVIOUS
<1>1. CASE UNCHANGED storeVars
  <2>1. ServerTypes' /\ Grows
    BY <1>1, Types DEF StoreInv, ServerTypes, Grows, storeVars, serverVars
  <2>. QED  BY <1>1, <2>1, ServerMoves DEF storeVars
<1>2. CASE \E c \in Callers : CallerStep(c)
  <2>1. PICK c \in Callers : CallerStep(c)
    BY <1>2
  <2>2. CASE ClientStep(c)
    BY <2>2, ClientMoves
  <2>3. CASE c \in Managers /\ ManagerStep(c)
    BY <2>3, ManagerSteps
  <2>4. CASE c \in Users /\ UserStep(c)
    BY <2>1, <2>4, ResolveMoves, ListedMoves, WrittenMoves, EmbedMoves, ActedMoves
    DEF UserStep, CallerStep
  <2>. QED  BY <2>1, <2>2, <2>3, <2>4 DEF CallerStep
<1>3. CASE ~ended /\ LateEffect
  BY <1>3, LateStep
<1>4. CASE \E m \in Managers : StartManager(m)
  BY <1>4, ManagerSteps
<1>5. CASE ~ended /\ \E u \in Users, k \in Kinds : Ask(u, k)
  BY <1>5, AskMoves
<1>. QED  BY <1>1, <1>2, <1>3, <1>4, <1>5 DEF StoreNext

LEMMA StoreSound == StoreSpec => []StoreInv
BY StoreStarts, StoreMoves, PTL DEF StoreSpec

\* However the creations of any number of processes and their lost or late
\* attempts mix, no process mistakes an identifier, and one that is initialised
\* knows its collections (CachesAgree: ensureCollection, getCollectionID).
THEOREM IdentifiersAgree == StoreSpec => []CachesAgree
<1>1. StoreInv => CachesAgree
  BY DEF StoreInv, CachesAgree, CacheTrue, ManagerSound, CachesKnow, OnlySearchEnds
<1>. QED  BY <1>1, StoreSound, PTL

\* A store or a delete without an error has had its effect, for every number of
\* collections and retries (SuccessIsEffect: StoreDocument, DeleteDocument).
THEOREM SuccessesAreEffects == StoreSpec => []SuccessIsEffect
<1>1. StoreInv => SuccessIsEffect
  BY DEF StoreInv, SuccessIsEffect, UserSound
<1>. QED  BY <1>1, StoreSound, PTL

-----------------------------------------------------------------------------
(* The LLM's answers *)

\* Before the deadline nothing is late, and an extractor that waits for another
\* attempt began to wait before it.
LLMInv ==
  /\ LLMTypeOK
  /\ asking.phase # "idle" => toRun # <<>> /\ asking.purpose # "none"
  /\ asking.phase = "waiting" => asking.attempt < LLMRetries
  /\ asking.phase = "waiting" \/ ~deadlineGone => lateTries = 0
  /\ lateTries <= Len(extractErrors) + (IF asking.phase = "idle" THEN 0 ELSE 1)

\* What fits the struct, part by part.
LEMMA FitsParts ==
  ASSUME NEW a,
         DOMAIN a = {"text", "classification", "entities", "topics", "citations",
                     "authors", "volume", "year", "rest"}
  PROVE  FitsStruct(a) <=>
           /\ a.text = "whole" /\ a.classification = "object" /\ a.entities = "objects"
           /\ a.topics = "objects" /\ a.citations = "objects" /\ a.authors = "strings"
           /\ a.volume = "string" /\ a.rest = "fits" /\ a.year # "string"
<1>1. /\ AsAsked["text"] = "whole" /\ AsAsked["classification"] = "object"
      /\ AsAsked["entities"] = "objects" /\ AsAsked["topics"] = "objects"
      /\ AsAsked["citations"] = "objects" /\ AsAsked["authors"] = "strings"
      /\ AsAsked["volume"] = "string" /\ AsAsked["rest"] = "fits"
  BY DEF AsAsked
<1>. QED  BY <1>1 DEF FitsStruct

\* The parts of an answer, one by one.
LEMMA AnswerParts ==
  ASSUME NEW a \in AnswerForms
  PROVE  /\ FitsStruct(a) <=>
              /\ a.text = "whole" /\ a.classification = "object" /\ a.entities = "objects"
              /\ a.topics = "objects" /\ a.citations = "objects" /\ a.authors = "strings"
              /\ a.volume = "string" /\ a.rest = "fits" /\ a.year # "string"
         /\ Amiss(a) = {} <=> FitsStruct(a)
         /\ Repairable(a) <=>
              /\ a.text \in {"whole", "stray"} /\ a.classification # "other"
              /\ a.entities = "objects" /\ a.topics # "other" /\ a.citations # "other"
              /\ a.authors = "strings" /\ a.rest = "fits"
<1>. DEFINE Fields == {"text", "classification", "entities", "topics", "citations",
                      "authors", "volume", "year", "rest"}
<1>1. /\ DOMAIN a = Fields
      /\ a.text \in AnswerTexts /\ a.classification \in {"object", "string", "other"}
      /\ a.entities \in {"objects", "other"}
      /\ a.topics \in {"objects", "string", "strings", "mixed", "other"}
      /\ a.citations \in {"objects", "number", "other"} /\ a.authors \in {"strings", "other"}
      /\ a.volume \in {"string", "number"} /\ a.year \in {"none", "string", "number"}
      /\ a.rest \in {"fits", "other"}
  BY DEF AnswerForms
<1>2. /\ AsAsked["text"] = "whole" /\ AsAsked["classification"] = "object"
      /\ AsAsked["entities"] = "objects" /\ AsAsked["topics"] = "objects"
      /\ AsAsked["citations"] = "objects" /\ AsAsked["authors"] = "strings"
      /\ AsAsked["volume"] = "string" /\ AsAsked["year"] = "number"
      /\ AsAsked["rest"] = "fits"
  BY DEF AsAsked
<1>3. FitsStruct(a) <=>
        /\ a.text = "whole" /\ a.classification = "object" /\ a.entities = "objects"
        /\ a.topics = "objects" /\ a.citations = "objects" /\ a.authors = "strings"
        /\ a.volume = "string" /\ a.rest = "fits" /\ a.year # "string"
  BY <1>1, FitsParts
<1>4. Amiss(a) = {} <=> \A part \in Fields : a[part] \in {AsAsked[part], "none"}
  BY <1>1 DEF Amiss
<1>5. Amiss(a) = {} <=> FitsStruct(a)
  BY <1>1, <1>2, <1>3, <1>4 DEF AnswerTexts
<1>6. "other" \notin {a[part] : part \in DOMAIN a} <=> \A part \in Fields : a[part] # "other"
  BY <1>1
<1>7. Repairable(a) <=>
        /\ a.text \in {"whole", "stray"} /\ a.classification # "other"
        /\ a.entities = "objects" /\ a.topics # "other" /\ a.citations # "other"
        /\ a.authors = "strings" /\ a.rest = "fits"
  BY <1>1, <1>6 DEF Repairable, AnswerTexts
<1>. QED  BY <1>3, <1>5, <1>7

\* What healing repairs, and when a year defeats it.
LEMMA HealingRepairs ==
  ASSUME NEW a \in AnswerForms
  PROVE  parseUnifiedResponse(a) <=>
           Repairable(a) /\ (a.year = "none" \/ (a.year = "number" /\ Amiss(a) = {}))
<1>1. PICK fixed : fixed = fixTruncatedJSON(a)
  OBVIOUS
<1>2. /\ fixed \in AnswerForms
      /\ fixed = [a EXCEPT !.text = IF a.text = "stray" THEN "whole" ELSE @]
  BY <1>1 DEF fixTruncatedJSON, AnswerForms, AnswerTexts
<1>3. PICK healed : healed = healJSONResponse(fixed)
  OBVIOUS
<1>4. /\ fixed.entities = a.entities /\ fixed.authors = a.authors /\ fixed.rest = a.rest
      /\ fixed.classification = a.classification /\ fixed.topics = a.topics
      /\ fixed.citations = a.citations /\ fixed.volume = a.volume /\ fixed.year = a.year
  BY <1>2 DEF AnswerForms
<1>5. healed = [fixed EXCEPT
        !.classification = IF @ = "string" THEN "object" ELSE @,
        !.topics = IF @ \in {"string", "strings", "mixed"} THEN "objects" ELSE @,
        !.citations = IF @ = "number" THEN "objects" ELSE @,
        !.volume = IF @ = "number" THEN "string" ELSE @,
        !.year = IF @ = "number" THEN "string" ELSE @]
  BY <1>2, <1>3 DEF healJSONResponse, Mended, AnswerForms
<1>6. DOMAIN fixed = {"text", "classification", "entities", "topics", "citations",
                       "authors", "volume", "year", "rest"}
  BY <1>2 DEF AnswerForms
<1>7. healed.text = fixed.text /\ healed.entities = fixed.entities
  BY <1>5, <1>6
<1>8. healed.authors = fixed.authors /\ healed.rest = fixed.rest
  BY <1>5, <1>6
<1>9. healed.classification =
         IF fixed.classification = "string" THEN "object" ELSE fixed.classification
  BY <1>5, <1>6
<1>10. healed.topics = IF fixed.topics \in {"string", "strings", "mixed"} THEN "objects"
                       ELSE fixed.topics
  BY <1>5, <1>6
<1>11. healed.citations = IF fixed.citations = "number" THEN "objects" ELSE fixed.citations
  BY <1>5, <1>6
<1>12. healed.volume = IF fixed.volume = "number" THEN "string" ELSE fixed.volume
  BY <1>5, <1>6
<1>13. healed.year = IF fixed.year = "number" THEN "string" ELSE fixed.year
  BY <1>5, <1>6
<1>14. DOMAIN healed = DOMAIN fixed
  BY <1>5
<1>15. /\ a.text \in AnswerTexts /\ a.classification \in {"object", "string", "other"}
       /\ a.topics \in {"objects", "string", "strings", "mixed", "other"}
       /\ a.citations \in {"objects", "number", "other"}
       /\ a.volume \in {"string", "number"} /\ a.year \in {"none", "string", "number"}
  BY DEF AnswerForms
<1>16. healed.classification = "object" <=> a.classification # "other"
  BY <1>4, <1>9, <1>15
<1>17. healed.topics = "objects" <=> a.topics # "other"
  BY <1>4, <1>10, <1>15
<1>18. healed.citations = "objects" <=> a.citations # "other"
  BY <1>4, <1>11, <1>15
<1>19. healed.volume = "string" /\ (healed.year # "string" <=> a.year = "none")
  BY <1>4, <1>12, <1>13, <1>15
<1>20. fixed.text = "whole" <=> a.text \in {"whole", "stray"}
  BY <1>2, <1>15 DEF AnswerForms
<1>21. parseUnifiedResponse(a) <=> FitsStruct(a) \/ (fixed.text = "whole" /\ FitsStruct(healed))
  BY <1>1, <1>3 DEF parseUnifiedResponse
<1>22. FitsStruct(healed) <=>
         /\ fixed.text = "whole" /\ a.classification # "other" /\ a.entities = "objects"
         /\ a.topics # "other" /\ a.citations # "other" /\ a.authors = "strings"
         /\ a.rest = "fits" /\ a.year = "none"
  <2>1. FitsStruct(healed) <=>
          /\ healed.text = "whole" /\ healed.classification = "object"
          /\ healed.entities = "objects" /\ healed.topics = "objects"
          /\ healed.citations = "objects" /\ healed.authors = "strings"
          /\ healed.volume = "string" /\ healed.rest = "fits" /\ healed.year # "string"
    BY <1>6, <1>14, FitsParts
  <2>. QED  BY <1>4, <1>7, <1>8, <1>16, <1>17, <1>18, <1>19, <2>1
<1>23. Repairable(a) <=>
         /\ a.text \in {"whole", "stray"} /\ a.classification # "other"
         /\ a.entities = "objects" /\ a.topics # "other" /\ a.citations # "other"
         /\ a.authors = "strings" /\ a.rest = "fits"
  BY AnswerParts
<1>24. fixed.text = "whole" /\ FitsStruct(healed) <=> Repairable(a) /\ a.year = "none"
  BY <1>20, <1>22, <1>23
<1>25. FitsStruct(a) <=> Amiss(a) = {}
  BY AnswerParts
<1>26. FitsStruct(a) => Repairable(a) /\ a.year # "string"
  BY AnswerParts
<1>. QED  BY <1>15, <1>21, <1>24, <1>25, <1>26

LEMMA PlanTypes ==
  ASSUME NEW unified \in BOOLEAN, NEW entities \in BOOLEAN, NEW citations \in BOOLEAN,
         NEW topics \in BOOLEAN
  PROVE  /\ IfEnabled(unified, "unified") \o <<>> \in Seq(Extractor)
         /\ IfEnabled(unified, "unified")
              \o (IfEnabled(entities, "entities")
                  \o IfEnabled(citations, "citations") \o IfEnabled(topics, "topics"))
            \in Seq(Extractor)
<1>1. \A e \in BOOLEAN, x \in Extractor : IfEnabled(e, x) \in Seq(Extractor)
  <2>1. \A x \in Extractor : <<x>> \in Seq(Extractor) /\ <<>> \in Seq(Extractor)
    OBVIOUS
  <2>. QED  BY <2>1 DEF IfEnabled
<1>2. /\ IfEnabled(unified, "unified") \in Seq(Extractor)
      /\ IfEnabled(entities, "entities") \in Seq(Extractor)
      /\ IfEnabled(citations, "citations") \in Seq(Extractor)
      /\ IfEnabled(topics, "topics") \in Seq(Extractor)
  BY <1>1 DEF Extractor
<1>3. \A s, t \in Seq(Extractor) : s \o t \in Seq(Extractor)
  BY ConcatProperties
<1>. QED  BY <1>2, <1>3, EmptySeq

LEMMA LLMTypes ==
  ASSUME LLMInv
  PROVE  /\ toRun \in Seq(Extractor) /\ extractErrors \in Seq(Extractor)
         /\ Len(extractErrors) \in Nat /\ lateTries \in Nat /\ LLMRetries \in Nat
         /\ asking \in [phase : {"idle", "trying", "waiting"},
                        purpose : {"none", "classify", "analyze"}, attempt : 0 .. LLMRetries]
         /\ NotAsking \in [phase : {"idle", "trying", "waiting"},
                           purpose : {"none", "classify", "analyze"}, attempt : 0 .. LLMRetries]
BY LLMAssumption DEF LLMInv, LLMTypeOK, NotAsking

\* An extractor that fails may have tried late once.
LEMMA ExtractorFailing ==
  ASSUME LLMInv, asking.phase # "idle", ExtractorFails,
         UNCHANGED <<deadlineGone, lateTries, extracted>>,
         understood' = <<>> \/ understood' \in LLMAnswers \X BOOLEAN
  PROVE  LLMInv'
<1>1. /\ toRun' \in Seq(Extractor) /\ extractErrors' \in Seq(Extractor)
      /\ Len(extractErrors') = Len(extractErrors) + 1
  BY LLMTypes DEF LLMInv, ExtractorFails
<1>2. asking' = NotAsking /\ asking'.phase = "idle"
  BY DEF ExtractorFails, NotAsking
<1>3. lateTries <= Len(extractErrors) + 1 /\ (~deadlineGone => lateTries = 0)
  BY DEF LLMInv
<1>. QED  BY <1>1, <1>2, <1>3, LLMTypes DEF LLMInv, LLMTypeOK

\* A new attempt counts if the deadline is over.
LEMMA Trying ==
  ASSUME LLMInv, NEW purpose \in {"classify", "analyze"}, NEW n \in 0 .. LLMRetries,
         asking' = Try(purpose, n), toRun # <<>>,
         CountLate \/ (UNCHANGED lateTries /\ ~deadlineGone),
         asking.phase = "trying" => ~deadlineGone,
         UNCHANGED <<toRun, deadlineGone, extracted, extractErrors>>,
         understood' = <<>> \/ understood' = understood
  PROVE  LLMInv'
<1>1. /\ asking'.phase = "trying" /\ asking'.purpose # "none"
      /\ asking' \in [phase : {"idle", "trying", "waiting"},
                      purpose : {"none", "classify", "analyze"}, attempt : 0 .. LLMRetries]
  BY LLMTypes DEF Try
<1>2. lateTries <= Len(extractErrors)
  BY LLMTypes DEF LLMInv
<1>3. /\ lateTries' \in Nat /\ lateTries' <= Len(extractErrors) + 1
      /\ ~deadlineGone => lateTries' = 0
  BY <1>2, LLMTypes DEF CountLate, LLMInv
<1>. QED  BY <1>1, <1>3 DEF LLMInv, LLMTypeOK

LEMMA LLMStarts == LLMInit => LLMInv /\ YearsDefeatHealing
<1>. SUFFICES ASSUME LLMInit PROVE LLMInv /\ YearsDefeatHealing
  OBVIOUS
<1>1. <<>> \in Seq(Extractor) /\ Len(toRun) = 0 /\ Len(extractErrors) = 0
  BY EmptySeq DEF LLMInit
<1>2. LLMTypeOK
  <2>1. asking \in [phase : {"idle", "trying", "waiting"},
                    purpose : {"none", "classify", "analyze"}, attempt : 0 .. LLMRetries]
    BY LLMAssumption DEF LLMInit, NotAsking
  <2>. QED  BY <1>1, <2>1 DEF LLMInit, LLMTypeOK
<1>3. asking.phase = "idle" /\ lateTries = 0 /\ understood = <<>>
  BY DEF LLMInit, NotAsking
<1>. QED  BY <1>1, <1>2, <1>3 DEF LLMInv, YearsDefeatHealing

LEMMA LLMMoves == LLMInv /\ [LLMNext]_llmVars => LLMInv'
<1>. SUFFICES ASSUME LLMInv, [LLMNext]_llmVars PROVE LLMInv'
  OBVIOUS
<1>1. CASE UNCHANGED llmVars
  BY <1>1 DEF llmVars, LLMInv, LLMTypeOK
<1>2. CASE PlanExtraction
  <2>1. toRun' \in Seq(Extractor)
    BY <1>2, PlanTypes DEF PlanExtraction
  <2>2. asking.phase = "idle"
    BY <1>2, LLMTypes DEF PlanExtraction, LLMInv
  <2>. QED  BY <1>2, <2>1, <2>2 DEF PlanExtraction, LLMInv, LLMTypeOK
<1>3. CASE StartExtractor
  BY <1>3, Trying, LLMTypes DEF StartExtractor
<1>4. CASE LLMAttemptFails
  <2>1. CASE ExtractorFails
    <3>1. understood' = <<>> \/ understood' \in LLMAnswers \X BOOLEAN
      BY <1>4 DEF LLMAttemptFails, LLMInv, LLMTypeOK
    <3>. QED  BY <1>4, <2>1, <3>1, ExtractorFailing DEF LLMAttemptFails
  <2>2. CASE /\ ~(asking.attempt >= LLMRetries \/ deadlineGone)
             /\ asking' = [asking EXCEPT !.phase = "waiting"]
             /\ UNCHANGED <<toRun, extractErrors>>
    <3>1. /\ asking'.phase = "waiting" /\ asking'.attempt = asking.attempt
          /\ asking'.purpose = asking.purpose
          /\ asking' \in [phase : {"idle", "trying", "waiting"},
                          purpose : {"none", "classify", "analyze"}, attempt : 0 .. LLMRetries]
      BY <2>2, LLMTypes
    <3>2. asking.attempt < LLMRetries /\ lateTries = 0
      BY <2>2, LLMTypes DEF LLMInv
    <3>3. asking.phase = "trying" /\ UNCHANGED <<understood, deadlineGone, lateTries, extracted>>
      BY <1>4 DEF LLMAttemptFails
    <3>. QED  BY <2>2, <3>1, <3>2, <3>3, LLMTypes DEF LLMInv, LLMTypeOK
  <2>. QED  BY <1>4, <2>1, <2>2 DEF LLMAttemptFails
<1>5. CASE BackoffOver
  <2>1. /\ asking.attempt + 1 \in 0 .. LLMRetries /\ toRun # <<>>
        /\ asking.purpose \in {"none", "classify", "analyze"}
    BY <1>5, LLMTypes DEF BackoffOver, LLMInv
  <2>2. asking.purpose # "none"
    BY <1>5, LLMTypes DEF BackoffOver, LLMInv
  <2>. QED  BY <1>5, <2>1, <2>2, Trying DEF BackoffOver
<1>6. CASE BackoffCancelled
  <2>1. understood' = <<>> \/ understood' \in LLMAnswers \X BOOLEAN
    BY <1>6 DEF BackoffCancelled, LLMInv, LLMTypeOK
  <2>. QED  BY <1>6, <2>1, ExtractorFailing DEF BackoffCancelled
<1>7. CASE Classified
  <2>1. toRun # <<>> /\ 0 \in 0 .. LLMRetries
    BY <1>7, LLMTypes DEF Classified, LLMInv
  <2>. QED  BY <1>7, <2>1, Trying DEF Classified
<1>8. CASE Analyzed
  <2>1. PICK a \in LLMAnswers, parsed \in BOOLEAN :
          /\ understood' = <<a, parsed>>
          /\ IF parsed
             THEN /\ extracted' = extracted \cup {Head(toRun)}
                  /\ toRun' = IF Head(toRun) = "unified" THEN <<>> ELSE Tail(toRun)
                  /\ asking' = NotAsking
                  /\ UNCHANGED extractErrors
             ELSE ExtractorFails /\ UNCHANGED extracted
    <3>1. PICK a \in LLMAnswers : understood' = <<a, parseUnifiedResponse(a)>>
      BY <1>8 DEF Analyzed, Understandings
    <3>2. PICK parsed \in BOOLEAN : parsed = parseUnifiedResponse(a)
      BY DEF parseUnifiedResponse
    <3>3. understood' = <<a, parsed>> /\ understood'[2] = parsed
      BY <3>1, <3>2
    <3>. QED  BY <1>8, <3>3 DEF Analyzed
  <2>2. /\ asking.phase = "trying" /\ ~deadlineGone /\ lateTries = 0
        /\ UNCHANGED <<deadlineGone, lateTries>>
    BY <1>8 DEF Analyzed, LLMInv
  <2>3. CASE ~parsed
    BY <2>1, <2>2, <2>3, ExtractorFailing
  <2>4. CASE parsed
    <3>1. /\ toRun # <<>> /\ Head(toRun) \in Extractor /\ Tail(toRun) \in Seq(Extractor)
          /\ <<>> \in Seq(Extractor)
      BY <2>2, LLMTypes DEF LLMInv
    <3>2. /\ toRun' \in Seq(Extractor) /\ extracted' \subseteq Extractor
          /\ asking' = NotAsking /\ extractErrors' = extractErrors
      BY <2>1, <2>4, <3>1 DEF LLMInv, LLMTypeOK
    <3>3. understood' \in LLMAnswers \X BOOLEAN /\ asking'.phase = "idle"
      BY <2>1, <3>2 DEF NotAsking
    <3>. QED  BY <2>2, <3>2, <3>3, LLMTypes DEF LLMInv, LLMTypeOK
  <2>. QED  BY <2>3, <2>4
<1>9. CASE DeadlineGoes
  BY <1>9 DEF DeadlineGoes, LLMInv, LLMTypeOK
<1>. QED  BY <1>1, <1>2, <1>3, <1>4, <1>5, <1>6, <1>7, <1>8, <1>9 DEF LLMNext, LLMStep

LEMMA AnswersMove ==
  ASSUME YearsDefeatHealing, [LLMNext]_llmVars
  PROVE  YearsDefeatHealing'
<1>1. CASE Analyzed
  <2>1. PICK a \in LLMAnswers : understood' = <<a, parseUnifiedResponse(a)>>
    BY <1>1 DEF Analyzed, Understandings
  <2>2. a \in AnswerForms
    BY LLMAssumption
  <2>. QED  BY <2>1, <2>2, HealingRepairs DEF YearsDefeatHealing
<1>2. CASE understood' = understood \/ understood' = <<>>
  BY <1>2 DEF YearsDefeatHealing
<1>. QED  BY <1>1, <1>2 DEF LLMNext, LLMStep, PlanExtraction, StartExtractor, LLMAttemptFails,
              BackoffOver, BackoffCancelled, Classified, DeadlineGoes, llmVars

\* However many retries the client makes, once the deadline is over each
\* extractor asks at most once (OneTryAfterDeadline: makeRequest of the LLM
\* client, runExtractionStage).
THEOREM LateTriesBounded == LLMSpec => []OneTryAfterDeadline
<1>1. LLMInv => OneTryAfterDeadline
  BY DEF LLMInv, OneTryAfterDeadline
<1>. QED  BY <1>1, LLMStarts, LLMMoves, PTL DEF LLMSpec

\* An answer, whatever of it is not as asked for, is lost if and only if healing
\* does not repair all that is amiss, or it has a year and something is amiss
\* (YearsDefeatHealing: parseUnifiedResponse, healJSONResponse).
THEOREM HealingLosesYears == LLMSpec => []YearsDefeatHealing
BY LLMStarts, AnswersMove, PTL DEF LLMSpec

-----------------------------------------------------------------------------
(* The entities of a result: folds over the entities of an answer, written as *)
(* functions of the set of the places folded.                                 *)

LEMMA MaxType ==
  ASSUME NEW n \in Nat, NEW S \in SUBSET (1 .. n), S # {}
  PROVE  Max(S) \in S /\ \A k \in S : k <= Max(S)
<1>. DEFINE T == {n - k : k \in S}
<1>1. T \in SUBSET Nat /\ T # {}
  <2>1. \A k \in S : n - k \in Nat
    OBVIOUS
  <2>. QED  BY <2>1
<1>2. PICK m \in T : \A k \in T : m <= k
  BY <1>1, LeastNumber
<1>3. PICK x \in S : m = n - x
  BY <1>2
<1>4. ASSUME NEW k \in S PROVE x >= k
  <2>1. n - k \in T /\ k \in 1 .. n /\ x \in 1 .. n
    OBVIOUS
  <2>2. n - x <= n - k
    BY <1>2, <1>3, <2>1
  <2>. QED  BY <2>1, <2>2
<1>. QED  BY <1>4 DEF Max

LEMMA LastOfMany ==
  ASSUME NEW k \in Nat \ {0}
  PROVE  /\ 1 .. k # {} /\ Max(1 .. k) = k /\ (1 .. k) \ {k} = 1 .. k - 1
<1>1. k \in 1 .. k
  OBVIOUS
<1>2. Max(1 .. k) \in 1 .. k /\ k <= Max(1 .. k)
  BY <1>1, MaxType
<1>. QED  BY <1>1, <1>2

\* A fold over what stands at the places of a sequence, as a function of the set
\* of the places folded.
Folds(F, n, base, step) ==
  F = [s \in SUBSET (1 .. n) |->
         IF s = {} THEN base ELSE step[<<F[s \ {Max(s)}], Max(s)>>]]

LEMMA FoldExists ==
  ASSUME NEW n \in Nat, NEW V, NEW base \in V, NEW step \in [V \X (1 .. n) -> V]
  PROVE  \E F \in [SUBSET (1 .. n) -> V] : Folds(F, n, base, step)
<1>. DEFINE D == SUBSET (1 .. n)
            W == [D -> V]
            once(h) == [s \in D |-> IF s = {} THEN base
                                    ELSE step[<<h[s \ {Max(s)}], Max(s)>>]]
            next == [h \in W |-> once(h)]
            start == [s \in D |-> base]
<1>1. ASSUME NEW s \in D, s # {}
      PROVE  /\ Max(s) \in s /\ Max(s) \in 1 .. n /\ s \ {Max(s)} \in D
             /\ IsFiniteSet(s) /\ Cardinality(s) \in Nat
             /\ Cardinality(s \ {Max(s)}) = Cardinality(s) - 1
  <2>1. Max(s) \in s
    BY <1>1, MaxType
  <2>2. IsFiniteSet(s)
    <3>1. IsFiniteSet(1 .. n)
      BY FS_Interval
    <3>. QED  BY <3>1, FS_Subset
  <2>. QED  BY <2>1, <2>2, OneLess
<1>2. \A h \in W : once(h) \in W
  <2>. SUFFICES ASSUME NEW h \in W, NEW s \in D, s # {}
                PROVE  step[<<h[s \ {Max(s)}], Max(s)>>] \in V
    OBVIOUS
  <2>. QED  BY <1>1
<1>3. next \in [W -> W] /\ start \in W
  <2>. HIDE DEF once
  <2>. QED  BY <1>2
<1>. HIDE DEF W, next, start, once
<1>4. ASSUME NEW h, NEW s \in D
      PROVE  once(h)[s] = IF s = {} THEN base ELSE step[<<h[s \ {Max(s)}], Max(s)>>]
  BY DEF once
<1>5. ASSUME NEW s \in D PROVE IsFiniteSet(s) /\ Cardinality(s) \in 0 .. n
  <2>1. IsFiniteSet(1 .. n) /\ Cardinality(1 .. n) = n
    BY FS_Interval
  <2>2. IsFiniteSet(s) /\ Cardinality(s) <= Cardinality(1 .. n)
    <3>1. s \in SUBSET (1 .. n)
      OBVIOUS
    <3>. HIDE DEF D
    <3>. QED  BY <2>1, <3>1, FS_Subset
  <2>3. Cardinality(s) \in Nat
    BY <2>2, FS_CardinalityType
  <2>. QED  BY <2>1, <2>2, <2>3
<1>6. PICK f \in [Nat -> W] : Iterates(f, start, next)
  BY <1>3, IterationExists
<1>7. \A k \in Nat : f[k] \in W /\ f[k + 1] = once(f[k])
  <2>1. \A h \in W : next[h] = once(h)
    BY DEF next
  <2>2. ASSUME NEW k \in Nat PROVE f[k] \in W /\ f[k + 1] = next[f[k]]
    BY <1>6 DEF Iterates
  <2>. QED  BY <2>1, <2>2
\* Once as many steps are made as a set has elements, its value stays.
<1>. DEFINE T == {k \in Nat : \A s \in D : Cardinality(s) <= k => f[k + 1][s] = f[k][s]}
<1>8. Nat \subseteq T
  <2>1. 0 \in T
    <3>1. ASSUME NEW s \in D, Cardinality(s) <= 0 PROVE f[1][s] = f[0][s]
      <4>1. s = {}
        <5>1. Cardinality(s) = 0 /\ IsFiniteSet(s)
          BY <1>5, <3>1
        <5>. QED  BY <5>1, FS_EmptySet
      <4>2. f[0] = start /\ f[0 + 1] = once(f[0])
        BY <1>6, <1>7 DEF Iterates
      <4>3. once(f[0])[s] = base
        BY <1>4, <4>1
      <4>4. start[s] = base
        BY DEF start
      <4>. QED  BY <4>2, <4>3, <4>4
    <3>. QED  BY <3>1
  <2>2. ASSUME NEW k \in Nat, k \in T PROVE k + 1 \in T
    <3>1. ASSUME NEW s \in D, Cardinality(s) <= k + 1
          PROVE  f[(k + 1) + 1][s] = f[k + 1][s]
      <4>1. f[(k + 1) + 1] = once(f[k + 1]) /\ f[k + 1] = once(f[k])
        BY <1>7
      <4>2. CASE s = {}
        BY <1>4, <4>1, <4>2
      <4>3. CASE s # {}
        <5>1. s \ {Max(s)} \in D /\ Cardinality(s \ {Max(s)}) <= k
          BY <1>1, <3>1, <4>3
        <5>2. f[k + 1][s \ {Max(s)}] = f[k][s \ {Max(s)}]
          BY <2>2, <5>1
        <5>3. /\ once(f[k + 1])[s] = step[<<f[k + 1][s \ {Max(s)}], Max(s)>>]
              /\ once(f[k])[s] = step[<<f[k][s \ {Max(s)}], Max(s)>>]
          BY <1>4, <4>3
        <5>. QED  BY <4>1, <5>2, <5>3
      <4>. QED  BY <4>2, <4>3
    <3>. QED  BY <3>1
  <2>. HIDE DEF T
  <2>. QED  BY <2>1, <2>2, SetInduction
<1>9. \A s \in D : f[n + 1][s] = f[n][s]
  <2>. HIDE DEF D
  <2>1. \A s \in D : Cardinality(s) <= n
    BY <1>5
  <2>. QED  BY <1>8, <2>1
<1>10. f[n] \in W /\ f[n + 1] \in W /\ f[n + 1] = once(f[n])
  BY <1>7
<1>11. f[n + 1] = f[n]
  BY <1>9, <1>10 DEF W
<1>12. Folds(f[n], n, base, step)
  BY <1>10, <1>11 DEF Folds, once
<1>. QED  BY <1>10, <1>12 DEF W

\* An entity as the validator leaves it.
Fixed == {Clamped(e) : e \in Entities}

LEMMA ClampedType ==
  ASSUME NEW e \in Entities
  PROVE  /\ Clamped(e) \in Fixed
         /\ Clamped(e).key = e.key
         /\ Clamped(e).confidence \in Int
         /\ validateSingleEntity(Clamped(e)) <=> validateSingleEntity(e)
<1>1. e \in [key : {e.key}, confidence : Int, valid : BOOLEAN]
  BY ProcessingAssumption
<1>2. /\ Clamped(e) \in [key : {e.key}, confidence : Int, valid : BOOLEAN]
      /\ Clamped(e).valid = e.valid
      /\ Clamped(e).confidence \in 0 .. 10
  BY <1>1 DEF Clamped
<1>3. /\ Clamped(Clamped(e)).valid = e.valid
      /\ Clamped(Clamped(e)).confidence = Clamped(e).confidence
  <2>. DEFINE c == Clamped(e)
  <2>1. c \in [key : {e.key}, confidence : Int, valid : BOOLEAN] /\ c.confidence \in 0 .. 10
        /\ c.valid = e.valid
    BY <1>2
  <2>. HIDE DEF c
  <2>2. Clamped(c).confidence = c.confidence /\ Clamped(c).valid = c.valid
    BY <2>1 DEF Clamped
  <2>. QED  BY <2>1, <2>2 DEF c
<1>. QED  BY <1>2, <1>3 DEF Fixed, validateSingleEntity

LEMMA FixedType ==
  ASSUME NEW u \in Seq(Fixed)
  PROVE  /\ Len(u) \in Nat /\ DOMAIN u = 1 .. Len(u)
         /\ u = [i \in 1 .. Len(u) |-> u[i]]
         /\ \A i \in 1 .. Len(u) : u[i] \in Fixed /\ u[i].confidence \in Int
<1>1. Len(u) \in Nat /\ DOMAIN u = 1 .. Len(u) /\ u = [i \in 1 .. Len(u) |-> u[i]]
  BY LenProperties, SeqDef
<1>2. \A i \in 1 .. Len(u) : u[i] \in Fixed
  BY <1>1, ElementOfSeq
<1>3. \A e \in Fixed : e.confidence \in Int
  BY ClampedType DEF Fixed
<1>. QED  BY <1>1, <1>2, <1>3

\* The entities that pass are all kept, in the form the validator gives them.
Passed(es, u, k) ==
  /\ u \in Seq(Fixed) /\ Len(u) <= k
  /\ \A j \in 1 .. k : validateSingleEntity(es[j]) =>
       \E i \in 1 .. Len(u) : u[i] = Clamped(es[j])

LEMMA ValidatedType ==
  ASSUME NEW n \in Nat, NEW es \in [1 .. n -> Entities]
  PROVE  Passed(es, Validated(es), n)
<1>. DEFINE V == Seq(Fixed)
            step == [x \in V \X (1 .. n) |-> AppendValid(x[1], es[x[2]])]
            Iter(G) == G = [s \in SUBSET (DOMAIN es) |->
                              IF s = {} THEN <<>>
                              ELSE AppendValid(G[s \ {Max(s)}], es[Max(s)])]
            G == CHOOSE g : Iter(g)
<1>1. ASSUME NEW u \in V, NEW e \in Entities PROVE AppendValid(u, e) \in V
  BY ClampedType, AppendProperties DEF AppendValid
<1>2. step \in [V \X (1 .. n) -> V]
  <2>. HIDE DEF V
  <2>. QED  BY <1>1
<1>3. \E g : Iter(g)
  <2>1. <<>> \in V
    BY EmptySeq
  <2>. HIDE DEF V
  <2>. SUFFICES ASSUME NEW F \in [SUBSET (1 .. n) -> V], Folds(F, n, <<>>, step)
                PROVE  Iter(F)
    <3>. HIDE DEF Iter, step
    <3>. QED  BY <1>2, <2>1, FoldExists
  <2>2. ASSUME NEW s \in SUBSET (1 .. n), s # {}
        PROVE  step[<<F[s \ {Max(s)}], Max(s)>>] = AppendValid(F[s \ {Max(s)}], es[Max(s)])
    <3>1. Max(s) \in 1 .. n /\ F[s \ {Max(s)}] \in V
      BY <2>2, MaxType
    <3>. QED  BY <3>1
  <2>3. F = [s \in SUBSET (1 .. n) |->
               IF s = {} THEN <<>> ELSE step[<<F[s \ {Max(s)}], Max(s)>>]]
    BY DEF Folds
  <2>. HIDE DEF step
  <2>. QED  BY <2>2, <2>3
<1>4. Iter(G)
  <2>. HIDE DEF Iter
  <2>. QED  BY <1>3
<1>5. Validated(es) = G[1 .. n]
  BY DEF Validated, FoldLeft, MapThenFoldSet
<1>. HIDE DEF G
<1>6. /\ G[{}] = <<>>
      /\ \A k \in 1 .. n : G[1 .. k] = AppendValid(G[1 .. k - 1], es[k])
  <2>1. ASSUME NEW k \in 1 .. n
        PROVE  G[1 .. k] = AppendValid(G[1 .. k - 1], es[k])
    <3>1. /\ 1 .. k \in SUBSET (1 .. n) /\ 1 .. k # {}
          /\ Max(1 .. k) = k /\ (1 .. k) \ {k} = 1 .. k - 1
      <4>1. k \in Nat \ {0} /\ 1 .. k \subseteq 1 .. n
        OBVIOUS
      <4>. QED  BY <4>1, LastOfMany
    <3>. QED  BY <1>4, <3>1
  <2>. QED  BY <1>4, <2>1
<1>. DEFINE T == {k \in Nat : k <= n => Passed(es, G[1 .. k], k)}
<1>7. 0 \in T
  <2>1. 1 .. 0 = {} /\ <<>> \in V /\ Len(<<>>) = 0
    BY EmptySeq
  <2>2. G[1 .. 0] = <<>>
    BY <1>6, <2>1
  <2>3. Passed(es, <<>>, 0)
    BY <2>1 DEF Passed
  <2>. QED  BY <2>2, <2>3
<1>8. ASSUME NEW k \in Nat, k \in T PROVE k + 1 \in T
  <2>. SUFFICES ASSUME k + 1 <= n PROVE Passed(es, G[1 .. k + 1], k + 1)
    OBVIOUS
  <2>. DEFINE u == G[1 .. k]
              e == es[k + 1]
  <2>1. k + 1 \in 1 .. n /\ (k + 1) - 1 = k /\ Passed(es, u, k)
    BY <1>8
  <2>2. G[1 .. k + 1] = AppendValid(u, e) /\ e \in Entities /\ u \in V
    BY <1>6, <2>1 DEF Passed
  <2>3. \A j \in 1 .. k + 1 : j \in 1 .. k \/ j = k + 1
    OBVIOUS
  <2>. HIDE DEF u, e
  <2>4. CASE ~validateSingleEntity(e)
    BY <2>1, <2>2, <2>3, <2>4, FixedType DEF AppendValid, Passed, e
  <2>5. CASE validateSingleEntity(e)
    <3>1. /\ G[1 .. k + 1] = Append(u, Clamped(e)) /\ Clamped(e) \in Fixed
      BY <2>2, <2>5, ClampedType DEF AppendValid
    <3>2. /\ Append(u, Clamped(e)) \in V
          /\ Len(Append(u, Clamped(e))) = Len(u) + 1 /\ Len(u) \in Nat
          /\ Append(u, Clamped(e))[Len(u) + 1] = Clamped(e)
          /\ \A i \in 1 .. Len(u) : Append(u, Clamped(e))[i] = u[i]
      BY <2>2, <3>1, AppendProperties, LenProperties
    <3>3. \A i \in 1 .. Len(u) : i \in 1 .. Len(u) + 1
      BY <3>2
    <3>4. Len(u) + 1 \in 1 .. Len(u) + 1
      BY <3>2
    <3>. QED  BY <2>1, <2>3, <3>1, <3>2, <3>3, <3>4 DEF Passed, e
  <2>. QED  BY <2>4, <2>5
<1>9. Nat \subseteq T
  <2>. HIDE DEF T
  <2>. QED  BY <1>7, <1>8, SetInduction
<1>. QED  BY <1>5, <1>9

\* No key twice.
Apart(u) == \A i, j \in 1 .. Len(u) : u[i].key = u[j].key => i = j

LEMMA KeepBetterType ==
  ASSUME NEW u \in Seq(Fixed), Apart(u), NEW e \in Fixed
  PROVE  LET v == KeepBetter(u, e) IN
         /\ v \in Seq(Fixed) /\ Apart(v)
         /\ Len(u) <= Len(v) /\ Len(v) <= Len(u) + 1
         /\ \E i \in 1 .. Len(v) : v[i].key = e.key /\ v[i].confidence >= e.confidence
         /\ \A i \in 1 .. Len(u) : /\ v[i].key = u[i].key
                                   /\ v[i].confidence >= u[i].confidence
<1>. DEFINE v == KeepBetter(u, e)
            same == {i \in DOMAIN u : u[i].key = e.key}
<1>1. /\ Len(u) \in Nat /\ DOMAIN u = 1 .. Len(u) /\ e.confidence \in Int
      /\ \A i \in 1 .. Len(u) : u[i] \in Fixed /\ u[i].confidence \in Int
  BY FixedType, ClampedType DEF Fixed
<1>2. CASE same = {}
  <2>1. v = Append(u, e)
    BY <1>2 DEF KeepBetter
  <2>2. /\ v \in Seq(Fixed) /\ Len(v) = Len(u) + 1 /\ v[Len(u) + 1] = e
        /\ \A i \in 1 .. Len(u) : v[i] = u[i]
    BY <2>1, AppendProperties, LenProperties
  <2>3. \A i \in 1 .. Len(u) : u[i].key # e.key
    BY <1>1, <1>2
  <2>. HIDE DEF v
  <2>4. Apart(v)
    <3>. SUFFICES ASSUME NEW i \in 1 .. Len(v), NEW j \in 1 .. Len(v),
                         v[i].key = v[j].key
                  PROVE  i = j
      BY DEF Apart
    <3>1. (i \in 1 .. Len(u) \/ i = Len(u) + 1) /\ (j \in 1 .. Len(u) \/ j = Len(u) + 1)
      BY <1>1, <2>2
    <3>. QED  BY <2>2, <2>3, <3>1 DEF Apart
  <2>5. Len(u) + 1 \in 1 .. Len(v)
    BY <1>1, <2>2
  <2>. QED  BY <1>1, <2>2, <2>4, <2>5 DEF v
<1>3. CASE same # {}
  <2>1. v = [i \in 1 .. Len(u) |->
               IF i \in same /\ e.confidence > u[i].confidence THEN e ELSE u[i]]
    BY <1>1, <1>3 DEF KeepBetter
  <2>2. v \in [1 .. Len(u) -> Fixed]
    BY <1>1, <2>1
  <2>3. PICK m \in 1 .. Len(u) : u[m].key = e.key
    BY <1>1, <1>3
  <2>4. ASSUME NEW i \in 1 .. Len(u)
        PROVE  /\ v[i].key = u[i].key /\ v[i].confidence >= u[i].confidence
               /\ u[i].key = e.key => v[i].confidence >= e.confidence
    <3>1. i \in same <=> u[i].key = e.key
      BY <1>1
    <3>. HIDE DEF same, v
    <3>. QED  BY <1>1, <2>1, <3>1
  <2>. HIDE DEF v
  <2>5. v \in Seq(Fixed) /\ Len(v) = Len(u)
    BY <1>1, <2>2, SeqDef, LenProperties
  <2>6. Apart(v)
    BY <2>4, <2>5 DEF Apart
  <2>. QED  BY <1>1, <2>3, <2>4, <2>5, <2>6 DEF v
<1>. QED  BY <1>2, <1>3

\* Of each key one is left, with the highest confidence found.
Merged(es, u, k) ==
  /\ u \in Seq(Fixed) /\ Len(u) <= k /\ Apart(u)
  /\ \A j \in 1 .. k : \E i \in 1 .. Len(u) :
       u[i].key = es[j].key /\ u[i].confidence >= es[j].confidence

LEMMA MergedType ==
  ASSUME NEW es \in Seq(Fixed)
  PROVE  Merged(es, deduplicateEntities(es), Len(es))
<1>. DEFINE n == Len(es)
            V == {u \in Seq(Fixed) : Apart(u)}
            step == [x \in V \X (1 .. n) |-> KeepBetter(x[1], es[x[2]])]
            Iter(G) == G = [s \in SUBSET (DOMAIN es) |->
                              IF s = {} THEN <<>>
                              ELSE KeepBetter(G[s \ {Max(s)}], es[Max(s)])]
            G == CHOOSE g : Iter(g)
<1>1. /\ n \in Nat /\ DOMAIN es = 1 .. n
      /\ \A i \in 1 .. n : es[i] \in Fixed /\ es[i].confidence \in Int
  BY FixedType
<1>2. step \in [V \X (1 .. n) -> V]
  <2>1. ASSUME NEW u \in V, NEW e \in Fixed PROVE KeepBetter(u, e) \in V
    BY KeepBetterType
  <2>. HIDE DEF V, n
  <2>. QED  BY <1>1, <2>1
<1>3. <<>> \in V /\ Len(<<>>) = 0
  BY EmptySeq DEF Apart
<1>. HIDE DEF n
<1>4. \E g : Iter(g)
  <2>. HIDE DEF V
  <2>. SUFFICES ASSUME NEW F \in [SUBSET (1 .. n) -> V], Folds(F, n, <<>>, step)
                PROVE  Iter(F)
    <3>. HIDE DEF Iter, step
    <3>. QED  BY <1>1, <1>2, <1>3, FoldExists
  <2>1. ASSUME NEW s \in SUBSET (1 .. n), s # {}
        PROVE  step[<<F[s \ {Max(s)}], Max(s)>>] = KeepBetter(F[s \ {Max(s)}], es[Max(s)])
    <3>1. Max(s) \in 1 .. n /\ F[s \ {Max(s)}] \in V
      BY <1>1, <2>1, MaxType
    <3>. QED  BY <3>1
  <2>2. F = [s \in SUBSET (1 .. n) |->
               IF s = {} THEN <<>> ELSE step[<<F[s \ {Max(s)}], Max(s)>>]]
    BY DEF Folds
  <2>. HIDE DEF step
  <2>. QED  BY <1>1, <2>1, <2>2
<1>5. Iter(G)
  <2>. HIDE DEF Iter
  <2>. QED  BY <1>4
<1>6. deduplicateEntities(es) = G[1 .. n]
  BY <1>1 DEF deduplicateEntities, FoldLeft, MapThenFoldSet
<1>. HIDE DEF G
<1>7. /\ G[1 .. 0] = <<>>
      /\ \A k \in 1 .. n : G[1 .. k] = KeepBetter(G[1 .. k - 1], es[k])
  <2>1. ASSUME NEW k \in 1 .. n
        PROVE  G[1 .. k] = KeepBetter(G[1 .. k - 1], es[k])
    <3>1. /\ 1 .. k \in SUBSET (1 .. n) /\ 1 .. k # {}
          /\ Max(1 .. k) = k /\ (1 .. k) \ {k} = 1 .. k - 1
      <4>1. k \in Nat \ {0} /\ 1 .. k \subseteq 1 .. n
        BY <1>1
      <4>. QED  BY <4>1, LastOfMany
    <3>. QED  BY <1>1, <1>5, <3>1
  <2>2. 1 .. 0 = {}
    OBVIOUS
  <2>. QED  BY <1>5, <2>1, <2>2
<1>. DEFINE T == {k \in Nat : k <= n => Merged(es, G[1 .. k], k)}
<1>8. 0 \in T
  <2>1. Merged(es, <<>>, 0)
    BY <1>3 DEF Merged
  <2>. QED  BY <1>7, <2>1
<1>9. ASSUME NEW k \in Nat, k \in T PROVE k + 1 \in T
  <2>. SUFFICES ASSUME k + 1 <= n PROVE Merged(es, G[1 .. k + 1], k + 1)
    OBVIOUS
  <2>. DEFINE u == G[1 .. k]
              e == es[k + 1]
              v == KeepBetter(u, e)
  <2>1. k + 1 \in 1 .. n /\ (k + 1) - 1 = k /\ Merged(es, u, k)
    BY <1>1, <1>9
  <2>2. G[1 .. k + 1] = v /\ e \in Fixed /\ u \in Seq(Fixed) /\ Apart(u)
    BY <1>1, <1>7, <2>1 DEF Merged
  <2>. HIDE DEF u, v, e
  <2>3. /\ v \in Seq(Fixed) /\ Apart(v)
        /\ Len(u) <= Len(v) /\ Len(v) <= Len(u) + 1
        /\ \E i \in 1 .. Len(v) : v[i].key = e.key /\ v[i].confidence >= e.confidence
        /\ \A i \in 1 .. Len(u) : /\ v[i].key = u[i].key
                                  /\ v[i].confidence >= u[i].confidence
    BY <2>2, KeepBetterType DEF v
  <2>4. /\ Len(u) \in Nat /\ Len(v) \in Nat
        /\ \A i \in 1 .. Len(u) : u[i].confidence \in Int
        /\ \A i \in 1 .. Len(v) : v[i].confidence \in Int
    BY <2>2, <2>3, FixedType
  <2>5. Len(v) <= k + 1
    BY <2>1, <2>3, <2>4 DEF Merged
  <2>6. ASSUME NEW j \in 1 .. k + 1
        PROVE  \E i \in 1 .. Len(v) : v[i].key = es[j].key
                                      /\ v[i].confidence >= es[j].confidence
    <3>1. CASE j = k + 1
      BY <2>3, <3>1 DEF e
    <3>2. CASE j # k + 1
      <4>1. j \in 1 .. k /\ es[j].confidence \in Int
        BY <1>1, <2>1, <3>2
      <4>2. PICK i \in 1 .. Len(u) : u[i].key = es[j].key
                                     /\ u[i].confidence >= es[j].confidence
        BY <2>1, <4>1 DEF Merged
      <4>3. i \in 1 .. Len(v)
        BY <2>3, <2>4
      <4>4. v[i].confidence \in Int /\ u[i].confidence \in Int
        BY <2>4, <4>3
      <4>. QED  BY <2>3, <4>1, <4>2, <4>3, <4>4
    <3>. QED  BY <3>1, <3>2
  <2>. QED  BY <2>2, <2>3, <2>5, <2>6 DEF Merged
<1>10. Nat \subseteq T
  <2>. HIDE DEF T
  <2>. QED  BY <1>8, <1>9, SetInduction
<1>. QED  BY <1>1, <1>6, <1>10 DEF n

\* The sort gives every place to one entity.
LEMMA RankType ==
  ASSUME NEW u \in Seq(Fixed)
  PROVE  /\ \A i \in 1 .. Len(u) : Rank(u, i) \in 1 .. Len(u)
         /\ \A i, j \in 1 .. Len(u) :
              ~ Precedes(u, j, i) => Rank(u, i) < Rank(u, j)
         /\ \A i, j \in 1 .. Len(u) : Rank(u, i) = Rank(u, j) => i = j
<1>. DEFINE n == Len(u)
            Up(i) == {j \in 1 .. n : Precedes(u, j, i)}
<1>1. /\ n \in Nat /\ DOMAIN u = 1 .. n
      /\ \A i \in 1 .. n : u[i].confidence \in Int
      /\ IsFiniteSet(1 .. n) /\ Cardinality(1 .. n) = n
  <2>1. /\ n \in Nat /\ DOMAIN u = 1 .. n
        /\ \A i \in 1 .. n : u[i].confidence \in Int
    BY FixedType
  <2>. HIDE DEF n
  <2>2. IsFiniteSet(1 .. n) /\ Cardinality(1 .. n) = n
    BY <2>1, FS_Interval
  <2>. QED  BY <2>1, <2>2
<1>. HIDE DEF n
<1>2. ASSUME NEW i \in 1 .. n
      PROVE  /\ Rank(u, i) = Cardinality(Up(i)) /\ IsFiniteSet(Up(i))
             /\ i \in Up(i)
             /\ Cardinality(Up(i)) \in 1 .. n
  <2>1. Rank(u, i) = Cardinality(Up(i)) /\ i \in Up(i) /\ Up(i) \in SUBSET (1 .. n)
    BY <1>1 DEF Rank, Precedes
  <2>. HIDE DEF Up
  <2>2. IsFiniteSet(Up(i)) /\ Cardinality(Up(i)) <= Cardinality(1 .. n)
    BY <1>1, <2>1, FS_Subset
  <2>3. Cardinality(Up(i)) \in Nat /\ Cardinality(Up(i)) # 0
    BY <2>1, <2>2, FS_CardinalityType, FS_EmptySet
  <2>. QED  BY <1>1, <2>1, <2>2, <2>3
<1>3. ASSUME NEW i \in 1 .. n, NEW j \in 1 .. n, ~ Precedes(u, j, i)
      PROVE  Cardinality(Up(i)) < Cardinality(Up(j))
  <2>1. Up(i) \in SUBSET Up(j) /\ j \in Up(j) /\ j \notin Up(i)
    BY <1>1, <1>3 DEF Precedes
  <2>2. /\ IsFiniteSet(Up(i)) /\ IsFiniteSet(Up(j))
        /\ Cardinality(Up(i)) \in 1 .. n /\ Cardinality(Up(j)) \in 1 .. n
    BY <1>2
  <2>. HIDE DEF Up
  <2>3. /\ Cardinality(Up(i)) <= Cardinality(Up(j))
        /\ Cardinality(Up(j)) = Cardinality(Up(i)) => Up(j) = Up(i)
    BY <2>1, <2>2, FS_Subset
  <2>4. Up(i) # Up(j)
    BY <2>1
  <2>. QED  BY <2>2, <2>3, <2>4
<1>4. ASSUME NEW i \in 1 .. n, NEW j \in 1 .. n, i # j
      PROVE  ~ Precedes(u, i, j) \/ ~ Precedes(u, j, i)
  BY <1>1, <1>4 DEF Precedes
<1>. HIDE DEF Up
<1>5. ASSUME NEW i \in 1 .. n, NEW j \in 1 .. n, Rank(u, i) = Rank(u, j)
      PROVE  i = j
  <2>1. Cardinality(Up(i)) = Cardinality(Up(j)) /\ Cardinality(Up(i)) \in Int
    BY <1>2, <1>5
  <2>. QED  BY <1>3, <1>4, <2>1
<1>. QED  BY <1>2, <1>3, <1>5 DEF n

LEMMA SortedType ==
  ASSUME NEW u \in Seq(Fixed)
  PROVE  LET s == sortEntitiesByConfidence(u) IN
         /\ s \in Seq(Fixed) /\ Len(s) = Len(u)
         /\ \A r \in 1 .. Len(u) : \E i \in 1 .. Len(u) : Rank(u, i) = r /\ s[r] = u[i]
         /\ \A i \in 1 .. Len(u) : s[Rank(u, i)] = u[i]
<1>. DEFINE n == Len(u)
            s == sortEntitiesByConfidence(u)
            rank == [i \in 1 .. n |-> Rank(u, i)]
<1>1. /\ n \in Nat /\ DOMAIN u = 1 .. n
      /\ \A i \in 1 .. n : u[i] \in Fixed
      /\ IsFiniteSet(1 .. n)
  <2>1. n \in Nat /\ DOMAIN u = 1 .. n /\ \A i \in 1 .. n : u[i] \in Fixed
    BY FixedType
  <2>. HIDE DEF n
  <2>2. IsFiniteSet(1 .. n)
    BY <2>1, FS_Interval
  <2>. QED  BY <2>1, <2>2
<1>2. /\ \A i \in 1 .. n : Rank(u, i) \in 1 .. n
      /\ \A i, j \in 1 .. n : Rank(u, i) = Rank(u, j) => i = j
  BY RankType
<1>. HIDE DEF n
<1>3. rank \in Injection(1 .. n, 1 .. n)
  BY <1>2 DEF Injection, IsInjective
<1>4. rank \in Surjection(1 .. n, 1 .. n)
  BY <1>1, <1>3, FS_Injection
<1>5. \A r \in 1 .. n : \E i \in 1 .. n : Rank(u, i) = r
  BY <1>4 DEF Surjection
<1>6. s = [r \in 1 .. n |-> u[CHOOSE j \in 1 .. n : Rank(u, j) = r]]
  BY <1>1 DEF sortEntitiesByConfidence
<1>7. ASSUME NEW r \in 1 .. n
      PROVE  \E i \in 1 .. n : Rank(u, i) = r /\ s[r] = u[i]
  <2>. DEFINE i == CHOOSE j \in 1 .. n : Rank(u, j) = r
  <2>1. i \in 1 .. n /\ Rank(u, i) = r
    BY <1>5
  <2>. QED  BY <1>6, <2>1
<1>8. \A i \in 1 .. n : s[Rank(u, i)] = u[i]
  BY <1>2, <1>7
<1>9. s \in [1 .. n -> Fixed]
  <2>1. \A r \in 1 .. n : s[r] \in Fixed
    BY <1>1, <1>7
  <2>. HIDE DEF s
  <2>. QED  BY <1>6, <2>1
<1>10. s \in Seq(Fixed) /\ Len(s) = n
  <2>. HIDE DEF s
  <2>. QED  BY <1>1, <1>9, SeqDef, LenProperties
<1>. QED  BY <1>7, <1>8, <1>10 DEF n

\* What the limit cuts off has given way to others with as much confidence.
LEMMA LimitedType ==
  ASSUME NEW u \in Seq(Fixed), Apart(u)
  PROVE  LET v == Limited(u) IN
         /\ v \in Seq(Fixed) /\ Len(v) <= Len(u) /\ Apart(v)
         /\ \A i \in 1 .. Len(u) :
              \/ \E k \in 1 .. Len(v) : v[k] = u[i]
              \/ /\ Len(v) = MaxEntities
                 /\ \A k \in 1 .. Len(v) : v[k].confidence >= u[i].confidence
<1>. DEFINE n == Len(u)
            m == MaxEntities
            s == sortEntitiesByConfidence(u)
            v == Limited(u)
<1>1. /\ n \in Nat /\ m \in Nat \ {0}
      /\ \A i \in 1 .. n : u[i].confidence \in Int
  BY FixedType, ProcessingAssumption
<1>2. CASE n <= m
  <2>1. v = u
    BY <1>2 DEF Limited
  <2>. QED  BY <1>1, <2>1
<1>3. CASE ~ (n <= m)
  <2>1. /\ s \in Seq(Fixed) /\ Len(s) = n
        /\ \A r \in 1 .. n : \E i \in 1 .. n : Rank(u, i) = r /\ s[r] = u[i]
        /\ \A i \in 1 .. n : s[Rank(u, i)] = u[i]
    BY SortedType
  <2>2. v = SubSeq(s, 1, m)
    BY <1>3 DEF Limited
  <2>. HIDE DEF v, s
  <2>3. /\ v \in Seq(Fixed) /\ Len(v) = m
        /\ \A r \in 1 .. m : v[r] = s[r] /\ r \in 1 .. n
    BY <1>1, <1>3, <2>1, <2>2, SubSeqProperties
  <2>4. /\ \A i \in 1 .. n : Rank(u, i) \in 1 .. n
        /\ \A i, j \in 1 .. n : ~ Precedes(u, j, i) => Rank(u, i) < Rank(u, j)
    BY RankType
  <2>. HIDE DEF n, m
  <2>8. ASSUME NEW r \in 1 .. m PROVE \E i \in 1 .. n : Rank(u, i) = r /\ v[r] = u[i]
    <3>1. v[r] = s[r] /\ r \in 1 .. n
      BY <2>3
    <3>2. PICK i \in 1 .. n : Rank(u, i) = r /\ s[r] = u[i]
      BY <2>1, <3>1
    <3>. QED  BY <3>1, <3>2
  <2>5. Apart(v)
    <3>. SUFFICES ASSUME NEW a \in 1 .. m, NEW b \in 1 .. m, v[a].key = v[b].key
                  PROVE  a = b
      BY <2>3 DEF Apart
    <3>1. PICK i \in 1 .. n : Rank(u, i) = a /\ v[a] = u[i]
      BY <2>8
    <3>2. PICK j \in 1 .. n : Rank(u, j) = b /\ v[b] = u[j]
      BY <2>8
    <3>. QED  BY <3>1, <3>2 DEF Apart, n
  <2>6. ASSUME NEW i \in 1 .. n
        PROVE  \/ \E k \in 1 .. m : v[k] = u[i]
               \/ \A k \in 1 .. m : v[k].confidence >= u[i].confidence
    <3>1. CASE Rank(u, i) <= m
      <4>1. Rank(u, i) \in 1 .. m /\ v[Rank(u, i)] = u[i]
        BY <1>1, <2>1, <2>3, <2>4, <3>1
      <4>. QED  BY <4>1
    <3>2. CASE ~ (Rank(u, i) <= m)
      <4>. SUFFICES ASSUME NEW k \in 1 .. m PROVE v[k].confidence >= u[i].confidence
        OBVIOUS
      <4>1. PICK j \in 1 .. n : Rank(u, j) = k /\ v[k] = u[j]
        BY <2>8
      <4>2. Rank(u, i) \in Int /\ ~ (Rank(u, i) < Rank(u, j))
        BY <1>1, <2>4, <3>2, <4>1
      <4>3. Precedes(u, j, i)
        BY <2>4, <4>2
      <4>. QED  BY <1>1, <4>1, <4>3 DEF Precedes
    <3>. QED  BY <3>1, <3>2
  <2>7. Len(v) <= n
    BY <1>1, <1>3, <2>3
  <2>. QED  BY <2>3, <2>5, <2>6, <2>7 DEF n, m, v
<1>. QED  BY <1>2, <1>3

LEMMA Limits == {MaxPerAnswer, MaxEntities, MaxProcessing} \subseteq Nat \ {0}
BY ProcessingAssumption

LEMMA LimitsArePositive ==
  /\ MaxPerAnswer \in Nat /\ MaxPerAnswer > 0
  /\ MaxEntities \in Nat /\ MaxEntities > 0
  /\ MaxProcessing \in Nat /\ MaxProcessing > 0
<1>1. MaxPerAnswer \in Nat \ {0} /\ MaxEntities \in Nat \ {0} /\ MaxProcessing \in Nat \ {0}
  BY Limits
<1>. QED  BY <1>1

Answer(es) == \E n \in 0 .. MaxPerAnswer : es \in [1 .. n -> Entities]

Result(es) == Limited(deduplicateEntities(Validated(es)))

\* Of each key the result of an answer holds one, the best, or MaxEntities others.
LEMMA ResultType ==
  ASSUME NEW es, Answer(es)
  PROVE  /\ DOMAIN Result(es) = 1 .. Len(Result(es)) /\ Len(Result(es)) <= MaxPerAnswer
         /\ Apart(Result(es))
         /\ \A i \in DOMAIN es :
              LET e == Clamped(es[i]) IN
              validateSingleEntity(e) =>
                \/ \E k \in DOMAIN Result(es) : /\ Result(es)[k].key = e.key
                                                /\ Result(es)[k].confidence >= e.confidence
                \/ /\ Len(Result(es)) = MaxEntities
                   /\ \A k \in DOMAIN Result(es) : Result(es)[k].confidence >= e.confidence
<1>. DEFINE p == Validated(es)
            u == deduplicateEntities(p)
            v == Limited(u)
<1>1. PICK n \in 0 .. MaxPerAnswer : es \in [1 .. n -> Entities]
  BY DEF Answer
<1>2. n \in Nat /\ n <= MaxPerAnswer /\ MaxPerAnswer \in Nat /\ MaxEntities \in Nat
  BY <1>1, LimitsArePositive
<1>3. Passed(es, p, n)
  BY <1>1, <1>2, ValidatedType
<1>4. Merged(p, u, Len(p))
  BY <1>3, MergedType DEF Passed
<1>. HIDE DEF p, u
<1>5. /\ v \in Seq(Fixed) /\ Len(v) <= Len(u) /\ Apart(v)
      /\ \A i \in 1 .. Len(u) :
           \/ \E k \in 1 .. Len(v) : v[k] = u[i]
           \/ /\ Len(v) = MaxEntities
              /\ \A k \in 1 .. Len(v) : v[k].confidence >= u[i].confidence
  BY <1>4, LimitedType DEF Merged
<1>. HIDE DEF v
<1>6. /\ Len(p) \in Nat /\ Len(u) \in Nat /\ Len(v) \in Nat
      /\ \A i \in 1 .. Len(p) : p[i].confidence \in Int
      /\ \A i \in 1 .. Len(u) : u[i].confidence \in Int
      /\ \A i \in 1 .. Len(v) : v[i].confidence \in Int
      /\ DOMAIN v = 1 .. Len(v)
  BY <1>3, <1>4, <1>5, FixedType DEF Passed, Merged
<1>7. Len(v) <= MaxPerAnswer
  <2>1. Len(v) <= Len(u) /\ Len(u) <= Len(p) /\ Len(p) <= n
    BY <1>3, <1>4, <1>5 DEF Passed, Merged
  <2>. QED  BY <1>2, <1>6, <2>1
<1>8. ASSUME NEW i \in 1 .. n, validateSingleEntity(es[i])
      PROVE  \/ \E k \in 1 .. Len(v) : /\ v[k].key = Clamped(es[i]).key
                                       /\ v[k].confidence >= Clamped(es[i]).confidence
             \/ /\ Len(v) = MaxEntities
                /\ \A k \in 1 .. Len(v) : v[k].confidence >= Clamped(es[i]).confidence
  <2>. DEFINE e == Clamped(es[i])
  <2>1. PICK j \in 1 .. Len(p) : p[j] = e
    BY <1>3, <1>8 DEF Passed
  <2>2. PICK m \in 1 .. Len(u) : u[m].key = p[j].key /\ u[m].confidence >= p[j].confidence
    BY <1>4 DEF Merged
  <2>3. u[m].key = e.key /\ u[m].confidence >= e.confidence
        /\ e.confidence \in Int /\ u[m].confidence \in Int
    BY <1>6, <2>1, <2>2
  <2>. HIDE DEF e
  <2>4. CASE \E k \in 1 .. Len(v) : v[k] = u[m]
    BY <2>3, <2>4 DEF e
  <2>5. CASE Len(v) = MaxEntities /\ \A k \in 1 .. Len(v) : v[k].confidence >= u[m].confidence
    <3>1. ASSUME NEW k \in 1 .. Len(v) PROVE v[k].confidence >= e.confidence
      <4>1. v[k].confidence >= u[m].confidence /\ v[k].confidence \in Int
        BY <1>6, <2>5
      <4>. QED  BY <2>3, <4>1
    <3>. QED  BY <2>5, <3>1 DEF e
  <2>. QED  BY <1>5, <2>4, <2>5
<1>9. ASSUME NEW i \in 1 .. n
      PROVE  validateSingleEntity(Clamped(es[i])) <=> validateSingleEntity(es[i])
  BY <1>1, ClampedType
<1>10. Result(es) = v /\ DOMAIN es = 1 .. n
  BY <1>1 DEF Result, p, u, v
<1>. QED  BY <1>5, <1>6, <1>7, <1>8, <1>9, <1>10

\* The inductive invariant: a result is that of the answer's entities.
ResultInv ==
  /\ ProcessingTypeOK
  /\ Answer(candidates)
  /\ processing = "ok" => kept = Result(candidates)

LEMMA OneOrMore ==
  ASSUME NEW m \in Nat \ {0}
  PROVE  1 \in 0 .. m /\ \A n \in 1 .. m : n \in 0 .. m
OBVIOUS

LEMMA NothingYet == Answer(<<>>)
<1>1. <<>> \in [1 .. 0 -> Entities]
  BY EmptySeq, LenProperties
<1>2. 0 \in 0 .. MaxPerAnswer
  BY LimitsArePositive
<1>. QED  BY <1>1, <1>2 DEF Answer

LEMMA AnswerShort == ASSUME NEW es, Answer(es) PROVE Len(es) <= MaxPerAnswer
<1>1. PICK n \in 0 .. MaxPerAnswer : es \in [1 .. n -> Entities]
  BY DEF Answer
<1>2. n \in Nat /\ n <= MaxPerAnswer
  BY <1>1, LimitsArePositive
<1>3. es \in Seq(Entities) /\ Len(es) = n
  BY <1>1, <1>2, SeqDef, LenProperties
<1>. QED  BY <1>2, <1>3

\* A response holds no more entities than the bound.
LEMMA TextsShort ==
  ASSUME NEW r \in Responses
  PROVE  \E n \in 0 .. MaxPerAnswer : DOMAIN r.texts = 1 .. n
<1>1. MaxPerAnswer \in Nat /\ MaxBraced \in 1 .. MaxPerAnswer
  BY ProcessingAssumption, LimitsArePositive
<1>2. CASE r = NoObject
  <2>1. r.texts = <<>> /\ 0 \in 0 .. MaxPerAnswer
    <3>1. NoObject.texts = <<>>
      BY DEF NoObject
    <3>. QED  BY <1>1, <1>2, <3>1
  <2>2. <<>> \in [1 .. 0 -> Entities]
    BY EmptySeq, LenProperties
  <2>3. DOMAIN <<>> = 1 .. 0
    BY <2>2
  <2>. QED  BY <2>1, <2>3
<1>3. ASSUME NEW T, NEW S, r \in Uncut(T, S) \/ r \in Cut(T, S) PROVE r.texts \in S
  BY <1>3 DEF Uncut, Cut
<1>4. CASE r \in Uncut(UpTo(3), UNION {Plain(n) : n \in 1 .. MaxPerAnswer})
  <2>1. PICK n \in 1 .. MaxPerAnswer : r.texts \in Plain(n)
    BY <1>3, <1>4
  <2>. QED  BY <1>1, <2>1 DEF Plain
<1>5. ASSUME r.texts \in TextsUpTo(MaxBraced)
      PROVE  \E n \in 0 .. MaxPerAnswer : DOMAIN r.texts = 1 .. n
  <2>1. PICK n \in 1 .. MaxBraced : r.texts \in [1 .. n -> Texts]
    BY <1>5 DEF TextsUpTo
  <2>2. n \in 0 .. MaxPerAnswer /\ DOMAIN r.texts = 1 .. n
    BY <1>1, <2>1
  <2>. QED  BY <2>2
<1>6. CASE r \in Cut(UpTo(2), Plain(MaxBraced))
  <2>1. r.texts \in Plain(MaxBraced)
    BY <1>3, <1>6
  <2>. QED  BY <1>1, <2>1 DEF Plain
<1>7. CASE \/ r \in Uncut(Surroundings, TextsUpTo(MaxBraced))
           \/ r \in Cut(SUBSET {"array"}, TextsUpTo(MaxBraced))
  BY <1>3, <1>5, <1>7
<1>. QED  BY <1>2, <1>4, <1>6, <1>7 DEF Responses

LEMMA ResultInit == ProcessingInit => ResultInv
<1>1. NoObject \in Responses
  BY DEF Responses
<1>2. Len(<<>>) <= MaxPerAnswer
  BY NothingYet, AnswerShort
<1>3. 0 \in 0 .. MaxProcessing
  BY LimitsArePositive
<1>. QED  BY <1>1, <1>2, <1>3, NothingYet DEF ProcessingInit, ResultInv, ProcessingTypeOK

LEMMA FailureType ==
  ASSUME attempts1 \in 0 .. MaxProcessing, NEW problem \in {"JSON", "validation", "context"},
         AttemptFails(problem)
  PROVE  /\ processing' \in {"cleaning", "error"}
         /\ attempts1' \in 0 .. MaxProcessing
         /\ because' \in {"", "JSON", "validation", "context"}
<1>1. MaxProcessing \in 0 .. MaxProcessing /\ attempts1 \in Nat
  BY LimitsArePositive
<1>2. CASE shouldRetry(problem)
  BY <1>1, <1>2, LimitsArePositive DEF AttemptFails, shouldRetry
<1>3. CASE ~shouldRetry(problem)
  BY <1>1, <1>3 DEF AttemptFails
<1>. QED  BY <1>2, <1>3

LEMMA ResultStep == ResultInv /\ [ProcessingNext]_processingVars => ResultInv'
<1>. SUFFICES ASSUME ResultInv, [ProcessingNext]_processingVars PROVE ResultInv'
  OBVIOUS
<1>. USE DEF ResultInv, ProcessingTypeOK
<1>1. CASE ReceiveResponse
  <2>1. 1 \in 0 .. MaxProcessing
    BY Limits, OneOrMore
  <2>. QED  BY <1>1, <2>1 DEF ReceiveResponse
<1>2. CASE Clean
  BY <1>2, FailureType DEF Clean
<1>3. CASE Parse
  <2>1. CASE ~Parses(cleaned) /\ AttemptFails("JSON") /\ UNCHANGED <<response, candidates>>
    BY <1>3, <2>1, FailureType DEF Parse
  <2>2. CASE /\ processing' = "validating" /\ UNCHANGED <<response, candidates>>
             /\ UNCHANGED <<attempts1, because>>
    BY <1>3, <2>2 DEF Parse
  <2>3. CASE /\ processing' = "validating" /\ response' = NoObject
             /\ candidates' \in [DOMAIN response.texts -> Entities]
             /\ UNCHANGED <<attempts1, because>>
    <3>1. Answer(candidates')
      BY <2>3, TextsShort DEF Answer
    <3>2. Len(candidates') <= MaxPerAnswer
      BY <3>1, AnswerShort
    <3>3. response' \in Responses
      BY <2>3 DEF Responses
    <3>4. UNCHANGED <<kept, strictMode, callerDone>>
      BY <1>3 DEF Parse
    <3>. QED  BY <2>3, <3>1, <3>2, <3>3, <3>4
  <2>. QED  BY <1>3, <2>1, <2>2, <2>3 DEF Parse
<1>4. CASE Validate
  <2>1. CASE strictMode /\ AnyInvalid /\ AttemptFails("validation") /\ UNCHANGED kept
    BY <1>4, <2>1, FailureType DEF Validate
  <2>2. CASE kept' = Result(candidates) /\ processing' = "ok"
             /\ UNCHANGED <<attempts1, because>>
    BY <1>4, <2>2, ResultType DEF Validate
  <2>. QED  BY <1>4, <2>1, <2>2 DEF Validate, Result
<1>5. CASE CallerGivesUp
  BY <1>5 DEF CallerGivesUp
<1>6. CASE UNCHANGED processingVars
  BY <1>6 DEF processingVars
<1>. QED  BY <1>1, <1>2, <1>3, <1>4, <1>5, <1>6 DEF ProcessingNext

LEMMA ResultBest == ResultInv => KeptAreBest
<1>. SUFFICES ASSUME ResultInv, processing = "ok"
              PROVE  /\ \A i, j \in DOMAIN kept : kept[i].key = kept[j].key => i = j
                     /\ \A i \in DOMAIN candidates :
                          LET e == Clamped(candidates[i]) IN
                          validateSingleEntity(e) =>
                            \/ \E k \in DOMAIN kept : /\ kept[k].key = e.key
                                                      /\ kept[k].confidence >= e.confidence
                            \/ /\ Len(kept) = MaxEntities
                               /\ \A k \in DOMAIN kept : kept[k].confidence >= e.confidence
  BY DEF ResultInv, KeptAreBest
<1>1. kept = Result(candidates) /\ Answer(candidates)
  BY DEF ResultInv
<1>2. \A i, j \in DOMAIN kept : kept[i].key = kept[j].key => i = j
  BY <1>1, ResultType DEF Apart
<1>. QED  BY <1>1, <1>2, ResultType

\* For every answer, however many entities it holds and however many agree: of the
\* entities of a result no two have the same key, and one that passes but is left out
\* has given way to its like with at least its confidence, or to MaxEntities others
\* (ValidateAndFilterEntities, deduplicateEntities, sortEntitiesByConfidence).
THEOREM ResultsAreBest == ProcessingSpec => []KeptAreBest
<1>. QED  BY ResultInit, ResultStep, ResultBest, PTL DEF ProcessingSpec

-----------------------------------------------------------------------------
(* The memory of an extraction *)

\* Only a call that waits for its chunks has any, and only a Reset subtracts.
MemoryInv ==
  /\ extracting \in [ExtractCalls ->
       {"new", "reserved", "single", "chunked", "working", "result", "failed", "ok", "error"}]
  /\ queued = [c \in ExtractCalls |-> queued[c]] /\ busy \in [ExtractCalls -> Nat]
  /\ memoryUsage \in Nat /\ resets \in Nat /\ resetSaw \in Nat \cup {-1}
  /\ resetSaw # -1 => resets > 0
  /\ \A c \in ExtractCalls :
       /\ busy[c] <= MaxConcurrentChunks
       /\ extracting[c] # "working" => queued[c] = 0 /\ busy[c] = 0
  /\ memoryUsage <= Cardinality(Inside)
  /\ resets = 0 => memoryUsage = Cardinality(Inside)

LEMMA InsideFinite ==
  /\ IsFiniteSet(Inside) /\ Cardinality(Inside) \in Nat
  /\ MaxConcurrentChunks \in Nat
BY ChunkAssumption, FS_Subset, FS_CardinalityType DEF Inside

LEMMA ChunkStarts == ChunkInit => MemoryInv
<1>. SUFFICES ASSUME ChunkInit PROVE MemoryInv
  OBVIOUS
<1>1. Inside = {}
  BY DEF Inside, ChunkInit
<1>. QED  BY <1>1, FS_EmptySet, InsideFinite DEF ChunkInit, MemoryInv

\* A call moves between two places that both count, or both do not.
LEMMA InsideStays ==
  ASSUME MemoryInv, NEW c \in ExtractCalls, NEW to,
         extracting[c] \notin {"new", "ok", "error"}, to \notin {"new", "ok", "error"},
         extracting' = [extracting EXCEPT ![c] = to]
  PROVE  Inside' = Inside
BY DEF Inside, MemoryInv

\* What a call that comes or goes does to the account.
LEMMA Comes ==
  ASSUME MemoryInv, NEW c \in ExtractCalls, extracting[c] = "new",
         extracting' = [extracting EXCEPT ![c] = "reserved"], updateMemoryUsage(1)
  PROVE  /\ memoryUsage' \in Nat /\ memoryUsage' <= Cardinality(Inside')
         /\ resets' = 0 => memoryUsage' = Cardinality(Inside')
<1>1. Inside' = Inside \cup {c} /\ c \notin Inside
  BY DEF Inside, MemoryInv
<1>2. Cardinality(Inside') = Cardinality(Inside) + 1
  BY <1>1, InsideFinite, FS_AddElement
<1>3. memoryUsage' = memoryUsage + 1 /\ resets' = resets
  BY DEF updateMemoryUsage, Greatest, MemoryInv
<1>. QED  BY <1>2, <1>3, InsideFinite DEF MemoryInv

LEMMA GoesOut ==
  ASSUME MemoryInv, NEW c \in ExtractCalls, extracting[c] \notin {"new", "ok", "error"},
         NEW to \in {"ok", "error"},
         extracting' = [extracting EXCEPT ![c] = to], updateMemoryUsage(-1)
  PROVE  /\ memoryUsage' \in Nat /\ memoryUsage' <= Cardinality(Inside')
         /\ resets' = 0 => memoryUsage' = Cardinality(Inside')
<1>1. Inside' = Inside \ {c} /\ c \in Inside
  BY DEF Inside, MemoryInv
<1>2. Cardinality(Inside') = Cardinality(Inside) - 1 /\ Cardinality(Inside') \in Nat
  BY <1>1, InsideFinite, FS_RemoveElement, FS_CardinalityType, FS_Subset
<1>3. memoryUsage' = Greatest(0, memoryUsage + (-1)) /\ resets' = resets
  BY DEF updateMemoryUsage
<1>4. memoryUsage \in Nat /\ Cardinality(Inside) \in Nat
  BY InsideFinite DEF MemoryInv
<1>5. memoryUsage' = IF memoryUsage = 0 THEN 0 ELSE memoryUsage - 1
  BY <1>3, <1>4 DEF Greatest
<1>6. /\ memoryUsage <= Cardinality(Inside)
      /\ resets = 0 => memoryUsage = Cardinality(Inside)
  BY DEF MemoryInv
<1>. QED  BY <1>2, <1>3, <1>4, <1>5, <1>6

\* A call whose goroutines do not move.
LEMMA CallMoves ==
  ASSUME MemoryInv, NEW c \in ExtractCalls,
         NEW to \in {"reserved", "single", "chunked", "result", "failed", "ok", "error"},
         extracting[c] # "working" \/ (queued[c] = 0 /\ busy[c] = 0),
         extracting' = [extracting EXCEPT ![c] = to],
         UNCHANGED <<queued, busy, resets, resetSaw>>,
         memoryUsage' \in Nat, memoryUsage' <= Cardinality(Inside'),
         resets' = 0 => memoryUsage' = Cardinality(Inside')
  PROVE  MemoryInv'
<1>1. /\ extracting' \in [ExtractCalls ->
           {"new", "reserved", "single", "chunked", "working", "result", "failed", "ok", "error"}]
      /\ \A d \in ExtractCalls :
           extracting'[d] # "working" => queued[d] = 0 /\ busy[d] = 0
  BY DEF MemoryInv
<1>. QED  BY <1>1 DEF MemoryInv

LEMMA ChunkMoves == MemoryInv /\ [ChunkNext]_chunkVars => MemoryInv'
<1>. SUFFICES ASSUME MemoryInv, [ChunkNext]_chunkVars PROVE MemoryInv'
  OBVIOUS
<1>1. ASSUME NEW c \in ExtractCalls, Reserve(c)  PROVE MemoryInv'
  BY <1>1, Comes, CallMoves DEF Reserve, Extracts1, updateMemoryUsage, gangVars
<1>2. ASSUME NEW c \in ExtractCalls, MemoryExceeded(c) \/ Release(c)  PROVE MemoryInv'
  <2>1. PICK to \in {"ok", "error"} :
          /\ extracting[c] \in {"reserved", "result", "failed"}
          /\ extracting' = [extracting EXCEPT ![c] = to]
          /\ updateMemoryUsage(-1) /\ UNCHANGED gangVars
    BY <1>2 DEF MemoryExceeded, Release, Extracts1
  <2>. QED  BY <2>1, GoesOut, CallMoves DEF updateMemoryUsage, gangVars
<1>3. ASSUME NEW c \in ExtractCalls,
             \/ Single(c) \/ ChunkDocument(c) \/ mergeChunkResults(c)
             \/ processSingleDocument(c)
      PROVE  MemoryInv'
  <2>1. PICK to \in {"single", "chunked", "result", "failed"} :
          /\ extracting[c] \notin {"new", "ok", "error"}
          /\ extracting[c] # "working" \/ (queued[c] = 0 /\ busy[c] = 0)
          /\ extracting' = [extracting EXCEPT ![c] = to]
          /\ UNCHANGED <<gangVars, memoryVars>>
    BY <1>3 DEF Single, ChunkDocument, mergeChunkResults, processSingleDocument, Extracts1
  <2>2. Inside' = Inside
    BY <2>1, InsideStays
  <2>3. /\ memoryUsage' \in Nat /\ memoryUsage' <= Cardinality(Inside')
        /\ resets' = 0 => memoryUsage' = Cardinality(Inside')
    BY <2>1, <2>2 DEF MemoryInv, memoryVars
  <2>. QED  BY <2>1, <2>3, CallMoves DEF gangVars, memoryVars
<1>4. ASSUME NEW c \in ExtractCalls, Launch(c)  PROVE MemoryInv'
  <2>1. /\ extracting[c] = "chunked" /\ extracting' = [extracting EXCEPT ![c] = "working"]
        /\ queued' = [queued EXCEPT ![c] = Len(pieces[c])]
        /\ UNCHANGED <<busy, memoryUsage, resets, resetSaw>>
    BY <1>4 DEF Launch, Extracts1, memoryVars
  <2>2. Inside' = Inside
    BY <2>1, InsideStays
  <2>3. \A d \in ExtractCalls : d # c => queued'[d] = queued[d] /\ extracting'[d] = extracting[d]
    BY <2>1 DEF MemoryInv
  <2>4. extracting'[c] = "working" /\ queued' = [d \in ExtractCalls |-> queued'[d]]
    BY <2>1 DEF MemoryInv
  <2>. QED  BY <2>1, <2>2, <2>3, <2>4 DEF MemoryInv
<1>5. ASSUME NEW c \in ExtractCalls, Acquire(c) \/ ChunkDone(c)  PROVE MemoryInv'
  <2>1. extracting[c] = "working"
    BY <1>5, InsideFinite DEF Acquire, ChunkDone, MemoryInv
  <2>2. /\ UNCHANGED <<extracting, memoryUsage, resets, resetSaw>>
        /\ queued' = [queued EXCEPT ![c] = queued'[c]]
        /\ busy' = [busy EXCEPT ![c] = busy'[c]]
        /\ busy'[c] \in Nat /\ busy'[c] <= MaxConcurrentChunks
    <3>1. CASE Acquire(c)
      BY <3>1, InsideFinite DEF Acquire, MemoryInv, memoryVars
    <3>2. CASE ChunkDone(c)
      BY <3>2, InsideFinite DEF ChunkDone, MemoryInv, memoryVars
    <3>. QED  BY <1>5, <3>1, <3>2
  <2>3. Inside' = Inside
    BY <2>2 DEF Inside
  <2>4. \A d \in ExtractCalls : d # c => queued'[d] = queued[d] /\ busy'[d] = busy[d]
    BY <2>2 DEF MemoryInv
  <2>5. queued' = [d \in ExtractCalls |-> queued'[d]] /\ busy' \in [ExtractCalls -> Nat]
    BY <2>2 DEF MemoryInv
  <2>. QED  BY <2>1, <2>2, <2>3, <2>4, <2>5 DEF MemoryInv
<1>6. CASE ResetReads
  <2>1. Inside' = Inside
    BY <1>6 DEF ResetReads, Inside
  <2>. QED  BY <1>6, <2>1 DEF ResetReads, MemoryInv, gangVars
<1>7. CASE ResetSubtracts
  <2>1. Inside' = Inside
    BY <1>7 DEF ResetSubtracts, Inside
  <2>2. resets > 0 /\ resetSaw \in Nat /\ memoryUsage' = Greatest(0, memoryUsage - resetSaw)
    BY <1>7 DEF ResetSubtracts, MemoryInv
  <2>3. memoryUsage' \in Nat /\ memoryUsage' <= memoryUsage
    BY <2>2 DEF Greatest, MemoryInv
  <2>4. memoryUsage' <= Cardinality(Inside)
    BY <2>3, InsideFinite DEF MemoryInv
  <2>. QED  BY <1>7, <2>1, <2>2, <2>3, <2>4 DEF ResetSubtracts, MemoryInv, gangVars
<1>8. CASE UNCHANGED chunkVars
  BY <1>8 DEF chunkVars, MemoryInv, Inside
<1>. QED  BY <1>1, <1>2, <1>3, <1>4, <1>5, <1>6, <1>7, <1>8 DEF ChunkNext, ExtractStep

\* However many calls there are, the memory reserved is that of the calls that go
\* on, less what a Reset took, and a call that answers has no goroutine left
\* (MemoryIsGivenBack: updateMemoryUsage, processChunkedDocument).
THEOREM MemoryComesBack == ChunkSpec => []MemoryIsGivenBack
<1>1. MemoryInv => MemoryIsGivenBack
  BY DEF MemoryInv, MemoryIsGivenBack
<1>. QED  BY <1>1, ChunkStarts, ChunkMoves, PTL DEF ChunkSpec

-----------------------------------------------------------------------------
(* The chunks of a document *)

Offsets == 0 .. LongDocument

\* What NothingLost asks of the chunks of a document.
Covers(p, max) ==
  /\ p \in Seq(Offsets \X Offsets)
  /\ p[1][1] = 0 /\ p[Len(p)][2] = LongDocument
  /\ \A i \in DOMAIN p : p[i][1] < p[i][2] /\ p[i][2] - p[i][1] <= max
  /\ \A i \in 2 .. Len(p) : p[i - 1][1] < p[i][1] /\ p[i][1] <= p[i - 1][2]

\* What the least of a set is.
LEMMA MinType ==
  ASSUME NEW S \in SUBSET Nat, S # {}
  PROVE  Min(S) \in S /\ \A k \in S : Min(S) <= k
BY LeastNumber DEF Min

\* How a chunker walks: a chunk ends after its start, no further than allowed,
\* and the next one starts in it or where it ends, and at the end of the document
\* only if the chunk ends there.
Strides(end, next, max) ==
  /\ end \in [Offsets -> Offsets] /\ next \in [Offsets -> Offsets]
  /\ next[LongDocument] = LongDocument
  /\ \A s \in 0 .. LongDocument - 1 :
       /\ s < end[s] /\ end[s] - s <= max
       /\ s < next[s] /\ next[s] <= end[s]
       /\ next[s] = LongDocument => end[s] = LongDocument

\* Whoever walks like that reaches the end of the document in as many steps as
\* it is long, and leaves nothing out.
LEMMA StridesCover ==
  ASSUME LongDocument \in Nat \ {0}, NEW max \in Nat, NEW end, NEW next,
         Strides(end, next, max), NEW starts, starts[0] = 0,
         \A n \in Nat : starts[n] \in Offsets => starts[n + 1] = next[starts[n]]
  PROVE  LET count == Min({n \in 1 .. LongDocument : starts[n] = LongDocument}) IN
         /\ \A n \in Nat : starts[n] \in Offsets
         /\ Covers([n \in 1 .. count |-> <<starts[n - 1], end[starts[n - 1]]>>], max)
<1>1. starts[0] = 0 /\ \A n \in Nat : starts[n + 1] = next[starts[n]] /\ starts[n] \in Offsets
  <2>. DEFINE S == {n \in Nat : starts[n] \in Offsets}
  <2>1. 0 \in S
    BY DEF Offsets
  <2>2. ASSUME NEW n \in Nat, n \in S PROVE n + 1 \in S
    BY <2>2 DEF Strides
  <2>. HIDE DEF S
  <2>3. Nat \subseteq S
    BY <2>1, <2>2, SetInduction
  <2>. QED  BY <2>3 DEF S
<1>. DEFINE T == {n \in Nat : starts[n] >= n \/ starts[n] = LongDocument}
<1>2. Nat \subseteq T
  <2>1. 0 \in T
    BY <1>1
  <2>2. ASSUME NEW n \in Nat, n \in T PROVE n + 1 \in T
    <3>1. starts[n + 1] = next[starts[n]] /\ starts[n] \in Offsets
          /\ starts[n + 1] \in Offsets
      BY <1>1
    <3>2. CASE starts[n] = LongDocument
      BY <3>1, <3>2 DEF Strides
    <3>3. CASE starts[n] # LongDocument
      <4>1. starts[n] \in 0 .. LongDocument - 1 /\ starts[n] >= n
        BY <2>2, <3>1, <3>3 DEF Offsets
      <4>2. starts[n] < next[starts[n]]
        BY <4>1 DEF Strides
      <4>. QED  BY <3>1, <4>1, <4>2 DEF Offsets
    <3>. QED  BY <3>2, <3>3
  <2>. HIDE DEF T
  <2>. QED  BY <2>1, <2>2, SetInduction
<1>. DEFINE N == {n \in 1 .. LongDocument : starts[n] = LongDocument}
            count == Min(N)
            p == [n \in 1 .. count |-> <<starts[n - 1], end[starts[n - 1]]>>]
<1>3. starts[LongDocument] = LongDocument
  BY <1>1, <1>2 DEF Offsets
<1>4. /\ count \in 1 .. LongDocument /\ starts[count] = LongDocument
      /\ \A n \in 1 .. LongDocument : starts[n] = LongDocument => count <= n
  <2>1. N \in SUBSET Nat /\ LongDocument \in N
    BY <1>3
  <2>. HIDE DEF N
  <2>2. count \in N /\ \A n \in N : count <= n
    BY <2>1, MinType
  <2>. USE DEF N
  <2>. QED  BY <2>2
<1>. HIDE DEF N, T, count
\* Before the last chunk the end has not been reached.
<1>5. ASSUME NEW n \in 0 .. count - 1
      PROVE  /\ starts[n] \in 0 .. LongDocument - 1
             /\ end[starts[n]] \in Offsets
             /\ starts[n] < end[starts[n]] /\ end[starts[n]] - starts[n] <= max
             /\ starts[n] < starts[n + 1] /\ starts[n + 1] <= end[starts[n]]
             /\ starts[n + 1] = LongDocument => end[starts[n]] = LongDocument
  <2>1. n \in Nat /\ starts[n] \in Offsets
    BY <1>1, <1>4
  <2>2. starts[n] # LongDocument
    BY <1>1, <1>4
  <2>3. starts[n] \in 0 .. LongDocument - 1
    BY <2>1, <2>2 DEF Offsets
  <2>4. starts[n + 1] = next[starts[n]]
    BY <1>1, <2>1
  <2>. QED  BY <2>1, <2>3, <2>4 DEF Strides
<1>6. ASSUME NEW i \in 1 .. count
      PROVE  /\ i - 1 \in 0 .. count - 1 /\ (i - 1) + 1 = i
             /\ p[i] = <<starts[i - 1], end[starts[i - 1]]>>
  BY <1>4
<1>7. p \in Seq(Offsets \X Offsets) /\ Len(p) = count /\ DOMAIN p = 1 .. count
  <2>1. \A i \in 1 .. count : <<starts[i - 1], end[starts[i - 1]]>> \in Offsets \X Offsets
    BY <1>1, <1>5, <1>6
  <2>2. p \in [1 .. count -> Offsets \X Offsets] /\ count \in Nat
    BY <1>4, <2>1
  <2>. HIDE DEF p
  <2>. QED  BY <2>2, SeqDef, LenProperties
<1>. HIDE DEF p
<1>8. p[1][1] = 0
  BY <1>1, <1>4, <1>6
<1>9. p[count][2] = LongDocument
  <2>1. count \in 1 .. count
    BY <1>4
  <2>. QED  BY <1>4, <1>5, <1>6, <2>1
<1>10. \A i \in 1 .. count : p[i][1] < p[i][2] /\ p[i][2] - p[i][1] <= max
  BY <1>5, <1>6
<1>11. \A i \in 2 .. count : p[i - 1][1] < p[i][1] /\ p[i][1] <= p[i - 1][2]
  <2>. SUFFICES ASSUME NEW i \in 2 .. count
                PROVE  p[i - 1][1] < p[i][1] /\ p[i][1] <= p[i - 1][2]
    OBVIOUS
  <2>1. i \in 1 .. count /\ i - 1 \in 1 .. count /\ i - 2 \in 0 .. count - 1
        /\ (i - 1) - 1 = i - 2 /\ (i - 2) + 1 = i - 1
    BY <1>4
  <2>. QED  BY <1>5, <1>6, <2>1
<1>12. Covers(p, max)
  BY <1>7, <1>8, <1>9, <1>10, <1>11 DEF Covers
<1>. QED  BY <1>1, <1>12 DEF p, count, N

LEMMA ConfigType ==
  ASSUME NEW g \in ChunkConfigs
  PROVE  /\ LongDocument \in Nat \ {0}
         /\ g.max \in Nat /\ g.min \in Nat /\ g.overlap \in Nat
         /\ 0 < g.min /\ g.min <= g.max /\ g.max < LongDocument
BY ChunkAssumption

\* The chunk that begins at a place ends behind it, and at its least size at
\* least, as far as the document goes.
LEMMA EndType ==
  ASSUME NEW g \in ChunkConfigs, NEW b \in SUBSET (1 .. LongDocument),
         NEW s \in 0 .. LongDocument - 1
  PROVE  LET e == findOptimalChunkEnd(s, b, g) IN
         /\ e \in Offsets /\ s < e /\ e - s <= g.max
         /\ e < LongDocument => s + g.min <= e
<1>. DEFINE maxEnd == Least(s + g.max, LongDocument)
            minEnd == Least(s + g.min, LongDocument)
            inReach == {k \in b : minEnd <= k /\ k <= maxEnd}
            e == findOptimalChunkEnd(s, b, g)
<1>1. /\ maxEnd \in Offsets /\ minEnd \in Offsets
      /\ s < minEnd /\ minEnd <= maxEnd /\ maxEnd - s <= g.max
      /\ minEnd < LongDocument => minEnd = s + g.min
  BY ConfigType DEF Least, Offsets
<1>2. e \in Offsets /\ minEnd <= e /\ e <= maxEnd
  <2>1. CASE inReach = {}
    <3>1. e = maxEnd
      BY <2>1 DEF findOptimalChunkEnd
    <3>. HIDE DEF e, maxEnd, minEnd
    <3>. QED  BY <1>1, <3>1 DEF Offsets
  <2>2. CASE inReach # {}
    <3>1. ASSUME NEW k \in inReach PROVE k \in Nat
      <4>1. k \in 1 .. LongDocument /\ LongDocument \in Nat
        BY ConfigType
      <4>. QED  BY <4>1
    <3>2. e = Min(inReach)
      BY <2>2 DEF findOptimalChunkEnd
    <3>. HIDE DEF e
    <3>3. e \in inReach
      BY <2>2, <3>1, <3>2, MinType
    <3>. QED  BY <1>1, <3>3 DEF Offsets
  <2>. QED  BY <2>1, <2>2
<1>. HIDE DEF maxEnd, minEnd, e
<1>3. s + g.min \in Nat
  BY ConfigType
<1>4. e \in Offsets /\ s < e /\ e - s <= g.max /\ (e < LongDocument => s + g.min <= e)
  BY <1>1, <1>2, <1>3, ConfigType DEF Offsets
<1>. QED  BY <1>4 DEF e

\* At the end of the document there is nothing to go on for.
LEMMA EndOfTheLast ==
  ASSUME NEW g \in ChunkConfigs, NEW b \in SUBSET (1 .. LongDocument)
  PROVE  findOptimalChunkEnd(LongDocument, b, g) = LongDocument
                                                   /\ LongDocument \in Offsets
<1>. DEFINE inReach == {k \in b : LongDocument <= k /\ k <= LongDocument}
<1>1. /\ Least(LongDocument + g.max, LongDocument) = LongDocument
      /\ Least(LongDocument + g.min, LongDocument) = LongDocument
      /\ LongDocument \in Offsets
  BY ConfigType DEF Least, Offsets
<1>2. inReach # {} => Min(inReach) = LongDocument
  <2>1. ASSUME NEW k \in inReach PROVE k \in Nat /\ k = LongDocument
    <3>1. k \in 1 .. LongDocument /\ LongDocument <= k /\ LongDocument \in Nat
      BY ConfigType
    <3>. QED  BY <3>1
  <2>. HIDE DEF inReach
  <2>. QED  BY <2>1, MinType
<1>. QED  BY <1>1, <1>2 DEF findOptimalChunkEnd

\* Whatever boundaries were found.
LEMMA IntelligentCovers ==
  ASSUME NEW g \in ChunkConfigs, NEW b \in SUBSET (1 .. LongDocument)
  PROVE  Covers(intelligentChunking(b, g), g.max)
<1>. DEFINE stop(s) == findOptimalChunkEnd(s, b, g)
            onward(s) == IF s = LongDocument THEN LongDocument
                         ELSE nextIntelligent(s, stop(s), g)
            end == [s \in Offsets |-> stop(s)]
            next == [s \in Offsets |-> onward(s)]
            Starts(f) == f = [n \in Nat |->
                                IF n = 0 THEN 0
                                ELSE IF f[n - 1] = LongDocument THEN LongDocument
                                ELSE nextIntelligent(f[n - 1], stop(f[n - 1]), g)]
            starts == CHOOSE f : Starts(f)
<1>1. ASSUME NEW s \in 0 .. LongDocument - 1
      PROVE  /\ stop(s) \in Offsets /\ s < stop(s) /\ stop(s) - s <= g.max
             /\ s < onward(s) /\ onward(s) <= stop(s) /\ onward(s) \in Offsets
             /\ onward(s) = LongDocument => stop(s) = LongDocument
  <2>1. /\ stop(s) \in Offsets /\ s < stop(s) /\ stop(s) - s <= g.max
        /\ stop(s) < LongDocument => s + g.min <= stop(s)
    BY EndType
  <2>. HIDE DEF stop
  <2>2. onward(s) = nextIntelligent(s, stop(s), g)
    BY ConfigType
  <2>3. \/ onward(s) = stop(s)
        \/ stop(s) < LongDocument /\ onward(s) = s + g.min
        \/ /\ stop(s) < LongDocument /\ onward(s) = stop(s) - g.overlap
           /\ g.overlap > 0 /\ s + g.min <= onward(s)
    <3>. HIDE DEF onward
    <3>. QED  BY <2>1, <2>2, ConfigType DEF nextIntelligent, Greatest, Offsets
  <2>. HIDE DEF onward
  <2>. QED  BY <2>1, <2>3, ConfigType DEF Offsets
<1>2. Strides(end, next, g.max)
  <2>1. stop(LongDocument) \in Offsets
    BY EndOfTheLast
  <2>. HIDE DEF stop
  <2>2. LongDocument \in Offsets /\ onward(LongDocument) = LongDocument
        /\ \A s \in Offsets : s # LongDocument => s \in 0 .. LongDocument - 1
        /\ 0 .. LongDocument - 1 \subseteq Offsets
    BY ConfigType DEF Offsets
  <2>. HIDE DEF onward
  <2>3. \A s \in Offsets : stop(s) \in Offsets /\ onward(s) \in Offsets
    BY <1>1, <2>1, <2>2
  <2>4. end \in [Offsets -> Offsets] /\ next \in [Offsets -> Offsets]
    BY <2>3
  <2>5. /\ \A s \in 0 .. LongDocument - 1 : end[s] = stop(s) /\ next[s] = onward(s)
        /\ next[LongDocument] = LongDocument
    <3>1. \A s \in Offsets : end[s] = stop(s) /\ next[s] = onward(s)
      OBVIOUS
    <3>2. LongDocument \in Offsets /\ 0 .. LongDocument - 1 \subseteq Offsets
      BY ConfigType DEF Offsets
    <3>3. onward(LongDocument) = LongDocument
      BY <2>2
    <3>. HIDE DEF end, next, stop
    <3>4. next[LongDocument] = LongDocument
      BY <3>1, <3>2, <3>3
    <3>5. ASSUME NEW s \in 0 .. LongDocument - 1
          PROVE  end[s] = stop(s) /\ next[s] = onward(s)
      BY <3>1, <3>2
    <3>. QED  BY <3>4, <3>5
  <2>. HIDE DEF end, next, stop
  <2>. QED  BY <1>1, <2>4, <2>5 DEF Strides
<1>3. ASSUME NEW f \in [Nat -> Offsets]
      PROVE  Iterates(f, 0, next) <=> Starts(f)
  <2>. HIDE DEF stop
  <2>1. \A n \in Nat : n # 0 => next[f[n - 1]] = onward(f[n - 1])
    OBVIOUS
  <2>2. [n \in Nat |-> IF n = 0 THEN 0 ELSE next[f[n - 1]]]
          = [n \in Nat |-> IF n = 0 THEN 0 ELSE onward(f[n - 1])]
    BY <2>1
  <2>. QED  BY <2>2 DEF Iterates
<1>4. 0 \in Offsets /\ next \in [Offsets -> Offsets]
  BY <1>2, ConfigType DEF Offsets, Strides
<1>5. \E f : Starts(f)
  <2>. HIDE DEF next, Starts
  <2>1. PICK f \in [Nat -> Offsets] : Iterates(f, 0, next)
    BY <1>4, IterationExists
  <2>. QED  BY <1>3, <2>1
<1>6. Starts(starts)
  <2>. HIDE DEF Starts
  <2>. QED  BY <1>5
<1>7. starts[0] = 0 /\ \A n \in Nat : starts[n] \in Offsets => starts[n + 1] = next[starts[n]]
  <2>. HIDE DEF stop, starts
  <2>1. starts[0] = 0 /\ \A n \in Nat : n # 0 => starts[n] = onward(starts[n - 1])
    BY <1>6
  <2>2. ASSUME NEW n \in Nat, starts[n] \in Offsets PROVE starts[n + 1] = next[starts[n]]
    <3>1. starts[n + 1] = onward(starts[n])
      BY <2>1
    <3>. QED  BY <2>2, <3>1
  <2>. QED  BY <2>1, <2>2
<1>. DEFINE count == Min({n \in 1 .. LongDocument : starts[n] = LongDocument})
            cut == [n \in 1 .. count |-> <<starts[n - 1], end[starts[n - 1]]>>]
<1>8. Covers(cut, g.max) /\ \A n \in Nat : starts[n] \in Offsets
  <2>. HIDE DEF starts, end, next
  <2>. QED  BY <1>2, <1>7, ConfigType, StridesCover
<1>9. ASSUME NEW n \in 1 .. count PROVE end[starts[n - 1]] = stop(starts[n - 1])
  <2>1. n - 1 \in Nat
    OBVIOUS
  <2>. HIDE DEF stop, starts
  <2>. QED  BY <1>8, <2>1
<1>10. cut = [n \in 1 .. count |-> <<starts[n - 1], stop(starts[n - 1])>>]
  <2>. HIDE DEF stop, starts, end, count
  <2>. QED  BY <1>9
<1>11. intelligentChunking(b, g) = cut
  BY <1>10 DEF intelligentChunking
<1>. QED  BY <1>8, <1>11

\* Whatever the overlap.
LEMMA OverlappingCovers ==
  ASSUME NEW g \in ChunkConfigs
  PROVE  Covers(overlappingChunking(g), g.max)
<1>. DEFINE stop(s) == Least(s + g.max, LongDocument)
            onward(s) == IF stop(s) = LongDocument THEN LongDocument
                         ELSE IF stop(s) - g.overlap <= s THEN stop(s)
                         ELSE stop(s) - g.overlap
            end == [s \in Offsets |-> stop(s)]
            next == [s \in Offsets |-> onward(s)]
            Starts(f) == f = [n \in Nat |-> IF n = 0 THEN 0 ELSE onward(f[n - 1])]
            starts == CHOOSE f : Starts(f)
<1>1. /\ \A s \in Offsets : stop(s) \in Offsets /\ onward(s) \in Offsets
      /\ LongDocument \in Offsets /\ onward(LongDocument) = LongDocument
  BY ConfigType DEF Offsets, Least
<1>2. ASSUME NEW s \in 0 .. LongDocument - 1
      PROVE  /\ s \in Offsets
             /\ s < stop(s) /\ stop(s) - s <= g.max
             /\ s < onward(s) /\ onward(s) <= stop(s)
             /\ onward(s) = LongDocument => stop(s) = LongDocument
  BY ConfigType DEF Offsets, Least
<1>. HIDE DEF stop
<1>3. Strides(end, next, g.max)
  <2>. HIDE DEF onward
  <2>1. /\ end \in [Offsets -> Offsets] /\ next \in [Offsets -> Offsets]
        /\ \A s \in Offsets : end[s] = stop(s) /\ next[s] = onward(s)
    BY <1>1
  <2>. HIDE DEF end, next
  <2>. QED  BY <1>1, <1>2, <2>1 DEF Strides
<1>. HIDE DEF onward
<1>4. Starts(starts)
  <2>1. 0 \in Offsets /\ next \in [Offsets -> Offsets]
    BY <1>3, ConfigType DEF Offsets, Strides
  <2>2. ASSUME NEW f \in [Nat -> Offsets], Iterates(f, 0, next) PROVE Starts(f)
    <3>1. \A n \in Nat : n # 0 => next[f[n - 1]] = onward(f[n - 1])
      OBVIOUS
    <3>. QED  BY <2>2, <3>1 DEF Iterates
  <2>. HIDE DEF next, Starts
  <2>. QED  BY <2>1, <2>2, IterationExists
<1>5. starts[0] = 0 /\ \A n \in Nat : starts[n] \in Offsets => starts[n + 1] = next[starts[n]]
  <2>. HIDE DEF starts
  <2>1. starts[0] = 0 /\ \A n \in Nat : n # 0 => starts[n] = onward(starts[n - 1])
    BY <1>4
  <2>2. ASSUME NEW n \in Nat, starts[n] \in Offsets PROVE starts[n + 1] = next[starts[n]]
    <3>1. starts[n + 1] = onward(starts[n])
      BY <2>1
    <3>. QED  BY <2>2, <3>1
  <2>. QED  BY <2>1, <2>2
<1>. DEFINE count == Min({n \in 1 .. LongDocument : starts[n] = LongDocument})
            cut == [n \in 1 .. count |-> <<starts[n - 1], end[starts[n - 1]]>>]
<1>6. Covers(cut, g.max) /\ \A n \in Nat : starts[n] \in Offsets
  <2>. HIDE DEF starts, end, next
  <2>. QED  BY <1>3, <1>5, ConfigType, StridesCover
<1>7. ASSUME NEW n \in 1 .. count PROVE end[starts[n - 1]] = stop(starts[n - 1])
  <2>1. n - 1 \in Nat
    OBVIOUS
  <2>. HIDE DEF starts
  <2>. QED  BY <1>6, <2>1
<1>8. cut = [n \in 1 .. count |-> <<starts[n - 1], stop(starts[n - 1])>>]
  <2>. HIDE DEF starts, end, count
  <2>. QED  BY <1>7
<1>9. overlappingChunking(g) = cut
  <2>. USE DEF onward, stop
  <2>. QED  BY <1>8 DEF overlappingChunking
<1>. QED  BY <1>6, <1>9

LEMMA DivMod ==
  ASSUME NEW n \in Int, NEW m \in Nat \ {0}
  PROVE  n \div m \in Int /\ m * (n \div m) <= n /\ n < m * (n \div m) + m
BY Z3

\* Chunks of the same size, the last one what is left.
LEMMA FixedCovers ==
  ASSUME NEW g \in ChunkConfigs
  PROVE  Covers(fixedChunking(g), g.max)
<1>. DEFINE m == g.max
            count == (LongDocument + m - 1) \div m
            p == [n \in 1 .. count |-> <<(n - 1) * m, Least(n * m, LongDocument)>>]
<1>1. m \in Nat \ {0} /\ LongDocument \in Nat \ {0}
  BY ConfigType
<1>. HIDE DEF m
<1>2. /\ count \in Int
      /\ m * count <= LongDocument + m - 1 /\ LongDocument + m - 1 < m * count + m
  BY <1>1, DivMod
<1>. HIDE DEF count
<1>3. count >= 1
  <2>. SUFFICES ASSUME count <= 0 PROVE FALSE
    BY <1>2
  <2>1. m * (0 - count) >= 0
    BY <1>1, <1>2
  <2>. QED  BY <1>1, <1>2, <2>1
<1>4. ASSUME NEW n \in 1 .. count
      PROVE  /\ (n - 1) * m \in Int /\ n * m = (n - 1) * m + m
             /\ 0 <= (n - 1) * m /\ (n - 1) * m < LongDocument
             /\ n = count => n * m >= LongDocument
             /\ n # count => n * m < LongDocument
  <2>1. n \in Int /\ n - 1 >= 0 /\ count - n >= 0
    BY <1>2
  <2>2. m * (count - n) >= 0 /\ (n # count => m * (count - n) >= m)
    BY <1>1, <1>2, <2>1
  <2>3. (n - 1) * m \in Int /\ n * m = (n - 1) * m + m /\ 0 <= (n - 1) * m
    BY <1>1, <2>1
  <2>4. m * (count - n) = m * count - n * m
    BY <1>1, <1>2, <2>1
  <2>. QED  BY <1>1, <1>2, <2>2, <2>3, <2>4
<1>5. ASSUME NEW n \in 1 .. count
      PROVE  /\ p[n] = <<(n - 1) * m, Least(n * m, LongDocument)>>
             /\ (n - 1) * m \in Offsets /\ Least(n * m, LongDocument) \in Offsets
             /\ (n - 1) * m < Least(n * m, LongDocument)
             /\ Least(n * m, LongDocument) - (n - 1) * m <= m
             /\ n = count => Least(n * m, LongDocument) = LongDocument
             /\ n # count => Least(n * m, LongDocument) = n * m
  <2>. DEFINE a == (n - 1) * m
              z == n * m
  <2>1. /\ a \in Int /\ z = a + m /\ 0 <= a /\ a < LongDocument
        /\ n = count => z >= LongDocument
        /\ n # count => z < LongDocument
    BY <1>4
  <2>2. p[n] = <<a, Least(z, LongDocument)>>
    OBVIOUS
  <2>. HIDE DEF a, z
  <2>3. /\ a \in Offsets /\ Least(z, LongDocument) \in Offsets
        /\ a < Least(z, LongDocument)
        /\ Least(z, LongDocument) - a <= m
        /\ n = count => Least(z, LongDocument) = LongDocument
        /\ n # count => Least(z, LongDocument) = z
    BY <1>1, <2>1 DEF Least, Offsets
  <2>. QED  BY <2>2, <2>3 DEF a, z
<1>6. p \in Seq(Offsets \X Offsets) /\ Len(p) = count /\ DOMAIN p = 1 .. count
  <2>1. p \in [1 .. count -> Offsets \X Offsets] /\ count \in Nat
    BY <1>2, <1>3, <1>5
  <2>. HIDE DEF p
  <2>. QED  BY <2>1, SeqDef, LenProperties
<1>. HIDE DEF p
<1>7. p[1][1] = 0 /\ p[count][2] = LongDocument
  <2>1. 1 \in 1 .. count /\ count \in 1 .. count /\ (1 - 1) * m = 0
    BY <1>1, <1>2, <1>3
  <2>. QED  BY <1>5, <2>1
<1>8. \A i \in 1 .. count : p[i][1] < p[i][2] /\ p[i][2] - p[i][1] <= m
  BY <1>5
<1>9. ASSUME NEW i \in 2 .. count
      PROVE  p[i - 1][1] < p[i][1] /\ p[i][1] <= p[i - 1][2]
  <2>. DEFINE j == i - 1
  <2>1. i \in 1 .. count /\ j \in 1 .. count /\ j # count
    BY <1>2
  <2>2. p[i][1] = j * m /\ j * m \in Offsets
    BY <1>5, <2>1
  <2>. HIDE DEF j
  <2>3. p[j][2] = j * m /\ p[j][1] < p[j][2]
    BY <1>5, <2>1
  <2>. QED  BY <1>1, <2>2, <2>3 DEF j, Offsets
<1>10. Covers(p, m)
  BY <1>6, <1>7, <1>8, <1>9 DEF Covers
<1>. QED  BY <1>10 DEF p, count, m, fixedChunking

\* Every way to cut a document.
LEMMA ChunkingsCover ==
  ASSUME NEW made \in Chunkings
  PROVE  made[1] \in ChunkConfigs /\ Covers(made[2], made[1].max)
<1>1. PICK g \in ChunkConfigs : \E q \in ChunkingsOf(g) : made = <<g, q>>
  BY DEF Chunkings
<1>2. PICK q \in ChunkingsOf(g) : made = <<g, q>>
  BY <1>1
<1>3. Covers(q, g.max)
  BY IntelligentCovers, OverlappingCovers, FixedCovers DEF ChunkingsOf
<1>. QED  BY <1>2, <1>3

-----------------------------------------------------------------------------
(* What a call has cut its document into stays as it is until the goroutines *)
(* are launched.                                                             *)

CutInv ==
  /\ MemoryInv
  /\ settings \in [ExtractCalls -> ChunkConfigs]
  /\ pieces \in [ExtractCalls -> Seq(Offsets \X Offsets)]
  /\ queued \in [ExtractCalls -> Nat]
  /\ good \in [ExtractCalls -> Nat] /\ bad \in [ExtractCalls -> Nat]
  /\ resets <= MaxResets /\ resetSaw <= Cardinality(ExtractCalls)
  /\ \A c \in ExtractCalls :
       extracting[c] = "chunked" => Covers(pieces[c], settings[c].max)

\* No more calls are inside than there are.
LEMMA InsideBounded ==
  /\ Cardinality(Inside) <= Cardinality(ExtractCalls)
  /\ Cardinality(ExtractCalls) \in Nat /\ MaxResets \in Nat
BY ChunkAssumption, FS_Subset, FS_CardinalityType DEF Inside

LEMMA CutStarts == ChunkInit => CutInv
<1>. SUFFICES ASSUME ChunkInit PROVE CutInv
  OBVIOUS
<1>1. AnyConfig \in ChunkConfigs
  BY ChunkAssumption DEF AnyConfig
<1>2. <<>> \in Seq(Offsets \X Offsets)
  BY EmptySeq
<1>. QED  BY <1>1, <1>2, ChunkStarts, InsideBounded DEF ChunkInit, CutInv

\* Where no call gets to its chunks, nothing has to be cut.
LEMMA NoneCut ==
  ASSUME CutInv, MemoryInv', NEW c \in ExtractCalls, NEW to, to # "chunked",
         extracting' = [extracting EXCEPT ![c] = to],
         UNCHANGED <<settings, pieces, gangVars, resets, resetSaw>>
  PROVE  CutInv'
<1>1. \A d \in ExtractCalls : extracting'[d] = "chunked" => extracting[d] = "chunked"
  BY DEF CutInv, MemoryInv
<1>. QED  BY <1>1 DEF CutInv, gangVars

LEMMA CutMoves == CutInv /\ [ChunkNext]_chunkVars => CutInv'
<1>. SUFFICES ASSUME CutInv, [ChunkNext]_chunkVars PROVE CutInv'
  OBVIOUS
<1>1. MemoryInv'
  BY ChunkMoves DEF CutInv
<1>2. ASSUME NEW c \in ExtractCalls,
             \/ Reserve(c) \/ MemoryExceeded(c) \/ Single(c)
             \/ mergeChunkResults(c) \/ processSingleDocument(c) \/ Release(c)
      PROVE  CutInv'
  <2>1. PICK to \in {"reserved", "single", "result", "failed", "ok", "error"} :
          /\ extracting' = [extracting EXCEPT ![c] = to]
          /\ UNCHANGED <<settings, pieces, gangVars, resets, resetSaw>>
    BY <1>2 DEF Reserve, MemoryExceeded, Single, mergeChunkResults,
                processSingleDocument, Release, Extracts1, updateMemoryUsage, memoryVars
  <2>. QED  BY <1>1, <2>1, NoneCut
<1>3. ASSUME NEW c \in ExtractCalls, ChunkDocument(c)  PROVE CutInv'
  <2>1. PICK made \in Chunkings :
          /\ settings' = [settings EXCEPT ![c] = made[1]]
          /\ pieces' = [pieces EXCEPT ![c] = made[2]]
    BY <1>3 DEF ChunkDocument
  <2>2. made[1] \in ChunkConfigs /\ Covers(made[2], made[1].max)
    BY ChunkingsCover
  <2>3. made[2] \in Seq(Offsets \X Offsets)
    BY <2>2 DEF Covers
  <2>4. /\ settings' \in [ExtractCalls -> ChunkConfigs]
        /\ pieces' \in [ExtractCalls -> Seq(Offsets \X Offsets)]
        /\ settings'[c] = made[1] /\ pieces'[c] = made[2]
        /\ \A d \in ExtractCalls : d # c => /\ settings'[d] = settings[d]
                                            /\ pieces'[d] = pieces[d]
    BY <2>1, <2>2, <2>3 DEF CutInv
  <2>5. /\ \A d \in ExtractCalls : d # c => extracting'[d] = extracting[d]
        /\ UNCHANGED <<gangVars, memoryVars>>
    BY <1>3 DEF ChunkDocument, Extracts1, CutInv, MemoryInv
  <2>6. \A d \in ExtractCalls :
          extracting'[d] = "chunked" => Covers(pieces'[d], settings'[d].max)
    BY <2>2, <2>4, <2>5 DEF CutInv
  <2>. QED  BY <1>1, <2>4, <2>5, <2>6 DEF CutInv, gangVars, memoryVars
<1>4. ASSUME NEW c \in ExtractCalls, Launch(c)  PROVE CutInv'
  <2>1. /\ extracting' = [extracting EXCEPT ![c] = "working"]
        /\ queued' = [queued EXCEPT ![c] = Len(pieces[c])]
        /\ pieces' = [pieces EXCEPT ![c] = <<>>]
        /\ settings' = [settings EXCEPT ![c] = AnyConfig]
        /\ UNCHANGED <<busy, good, bad, memoryVars>>
    BY <1>4 DEF Launch, Extracts1
  <2>2. AnyConfig \in ChunkConfigs /\ <<>> \in Seq(Offsets \X Offsets)
    BY ChunkAssumption, EmptySeq DEF AnyConfig
  <2>3. Len(pieces[c]) \in Nat
    BY LenProperties DEF CutInv
  <2>4. /\ settings' \in [ExtractCalls -> ChunkConfigs]
        /\ pieces' \in [ExtractCalls -> Seq(Offsets \X Offsets)]
        /\ queued' \in [ExtractCalls -> Nat]
    BY <2>1, <2>2, <2>3 DEF CutInv
  <2>5. \A d \in ExtractCalls :
          extracting'[d] = "chunked" =>
            /\ extracting[d] = "chunked"
            /\ settings'[d] = settings[d] /\ pieces'[d] = pieces[d]
    BY <2>1 DEF CutInv, MemoryInv
  <2>6. \A d \in ExtractCalls :
          extracting'[d] = "chunked" => Covers(pieces'[d], settings'[d].max)
    BY <2>5 DEF CutInv
  <2>. QED  BY <1>1, <2>1, <2>4, <2>6 DEF CutInv, memoryVars
<1>5. ASSUME NEW c \in ExtractCalls, Acquire(c) \/ ChunkDone(c)  PROVE CutInv'
  <2>1. /\ UNCHANGED <<extracting, settings, pieces, memoryVars>>
        /\ queued' \in [ExtractCalls -> Nat]
        /\ good' \in [ExtractCalls -> Nat] /\ bad' \in [ExtractCalls -> Nat]
    <3>1. CASE Acquire(c)
      <4>1. queued[c] - 1 \in Nat
        BY <3>1 DEF Acquire, CutInv
      <4>. QED  BY <3>1, <4>1 DEF Acquire, CutInv
    <3>2. CASE ChunkDone(c)
      <4>1. good[c] + 1 \in Nat /\ bad[c] + 1 \in Nat
        BY DEF CutInv
      <4>. QED  BY <3>2, <4>1 DEF ChunkDone, CutInv
    <3>. QED  BY <1>5, <3>1, <3>2
  <2>. QED  BY <1>1, <2>1 DEF CutInv, memoryVars
<1>6. CASE ResetReads
  <2>1. memoryUsage \in Nat /\ memoryUsage <= Cardinality(Inside) /\ resets \in Nat
        /\ Cardinality(Inside) \in Nat
    BY InsideFinite DEF CutInv, MemoryInv
  <2>2. resetSaw' <= Cardinality(ExtractCalls) /\ resets' <= MaxResets
    BY <1>6, <2>1, InsideBounded DEF ResetReads
  <2>. QED  BY <1>1, <1>6, <2>2 DEF ResetReads, CutInv, gangVars
<1>7. CASE ResetSubtracts
  BY <1>1, <1>7, InsideBounded DEF ResetSubtracts, CutInv, gangVars
<1>8. CASE UNCHANGED chunkVars
  BY <1>1, <1>8 DEF chunkVars, CutInv
<1>. QED  BY <1>2, <1>3, <1>4, <1>5, <1>6, <1>7, <1>8 DEF ChunkNext, ExtractStep

\* However long the document, wherever its boundaries and whatever the
\* configuration, no strategy leaves a part of the document out, makes a chunk
\* too large or goes round for ever (NothingLost: intelligentChunking,
\* overlappingChunking, fixedChunking).
THEOREM DocumentsAreCovered == ChunkSpec => []NothingLost
<1>1. CutInv => NothingLost
  <2>. SUFFICES ASSUME CutInv PROVE NothingLost
    OBVIOUS
  <2>1. memoryUsage \in 0 .. Cardinality(ExtractCalls)
    BY InsideBounded, InsideFinite DEF CutInv, MemoryInv
  <2>2. resets \in 0 .. MaxResets /\ resetSaw \in -1 .. Cardinality(ExtractCalls)
    BY InsideBounded DEF CutInv, MemoryInv
  <2>3. ChunkTypeOK
    BY <2>1, <2>2 DEF CutInv, MemoryInv, ChunkTypeOK, Offsets
  <2>. QED  BY <2>3 DEF CutInv, NothingLost, Covers
<1>. QED  BY <1>1, CutStarts, CutMoves, PTL DEF ChunkSpec

=============================================================================
