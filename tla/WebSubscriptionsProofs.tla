----------------------- MODULE WebSubscriptionsProofs -----------------------
(***************************************************************************)
(* The table of WebSubscriptions names exactly the forwarders that nobody  *)
(* has aborted, for any connections, runs and number of subscriptions.     *)
(***************************************************************************)
EXTENDS WebSubscriptions, TLAPS

Forwarders == [key : Key \cup {<<>>}, pc : ForwarderPCs, aborted : BOOLEAN,
               events : 0 .. MaxEvents]

Handlers == [pc : ConnPCs, gen : 0 .. MaxGeneration]

(***************************************************************************)
(* The inductive invariant: besides the two properties, an entry's         *)
(* forwarder has not been aborted, and a forwarder that is not spawned yet *)
(* belongs to the one handler that is about to register or to spawn it.    *)
(***************************************************************************)
Typed ==
  /\ active \in [Key -> 0 .. MaxGeneration]
  /\ generation \in 0 .. MaxGeneration
  /\ forwarder \in [Generations -> Forwarders]
  /\ conn \in [Conn -> Handlers]
  /\ answered \subseteq Generations
  /\ \A g \in Generations : (forwarder[g].pc = "none") = (g > generation)
  /\ \A g \in Generations : g <= generation => forwarder[g].key \in Key

HeldByHandler ==
  \A c \in Conn :
    conn[c].pc \in {"attached", "registered", "spawned"} =>
      LET g == conn[c].gen
      IN  /\ g \in Generations /\ g <= generation /\ forwarder[g].key[1] = c
          /\ conn[c].pc = "attached" => /\ forwarder[g].pc = "held" /\ ~forwarder[g].aborted
                                        /\ active[forwarder[g].key] # g
          /\ conn[c].pc = "registered" => /\ forwarder[g].pc = "held"
                                          /\ active[forwarder[g].key] = g

HeldHasHandler ==
  \A g \in Generations :
    forwarder[g].pc = "held" => LET c == forwarder[g].key[1]
                                IN  conn[c].gen = g /\ conn[c].pc \in {"attached", "registered"}

EntryUnaborted == \A k \in Key : active[k] # 0 => ~forwarder[active[k]].aborted

WInv == /\ Typed /\ NoStaleEntry /\ NoOrphan
        /\ HeldByHandler /\ HeldHasHandler /\ EntryUnaborted

-----------------------------------------------------------------------------
LEMMA WInvInit == Init => WInv
<1> SUFFICES ASSUME Init PROVE WInv
  OBVIOUS
<1>1. Typed
  BY WebSubscriptionsAssumption
     DEF Init, Typed, Generations, Forwarders, Handlers, NoForwarder, ForwarderPCs, ConnPCs
<1>2. NoStaleEntry /\ NoOrphan /\ HeldByHandler /\ HeldHasHandler /\ EntryUnaborted
  BY DEF Init, NoForwarder, NoStaleEntry, NoOrphan, Live, HeldByHandler, HeldHasHandler,
         EntryUnaborted
<1> QED
  BY <1>1, <1>2 DEF WInv

(* A forwarder that was made has its key, and an entry its forwarder. *)
LEMMA KeysKnown ==
  ASSUME WInv
  PROVE  /\ \A g \in Generations : g # 0 /\ (forwarder[g].pc # "none" => forwarder[g].key \in Key)
         /\ \A k \in Key : active[k] # 0 => /\ active[k] \in Generations
                                             /\ forwarder[active[k]].key = k
         /\ \A c \in Conn : conn[c].pc \in {"attached", "registered", "spawned"} =>
              /\ conn[c].gen \in Generations
              /\ forwarder[conn[c].gen].pc # "none"
              /\ forwarder[conn[c].gen].key \in Key
              /\ forwarder[conn[c].gen].key[1] = c
<1>1. \A g \in Generations : g # 0 /\ (forwarder[g].pc # "none" => forwarder[g].key \in Key)
  BY DEF WInv, Typed, Generations
<1>2. \A k \in Key : active[k] # 0 => active[k] \in Generations /\ forwarder[active[k]].key = k
  BY DEF WInv, NoStaleEntry, Typed, Generations
<1>3. \A c \in Conn : conn[c].pc \in {"attached", "registered", "spawned"} =>
        /\ conn[c].gen \in Generations
        /\ forwarder[conn[c].gen].pc # "none"
        /\ forwarder[conn[c].gen].key[1] = c
  BY DEF WInv, HeldByHandler, Typed, Generations
<1> QED
  BY <1>1, <1>2, <1>3

(* A forwarder that is on the pool goes on, or stops because it is aborted. *)
LEMMA RunsSafe ==
  ASSUME WInv, NEW g \in Generations,
         Stop(g) \/ Poll(g) \/ Park(g) \/ Send(g) \/ Expire(g)
  PROVE  WInv'
<1> USE DEF WInv
<1>1. UNCHANGED <<active, generation, conn, answered>>
  BY DEF Stop, Poll, Park, Send, Expire
<1>2. forwarder[g] \in Forwarders /\ forwarder[g].pc \in {"waiting", "running"}
  BY DEF Typed, Stop, Poll, Park, Send, Expire
<1>3. PICK f \in Forwarders :
        /\ forwarder' = [forwarder EXCEPT ![g] = f]
        /\ f.key = forwarder[g].key /\ f.aborted = forwarder[g].aborted
        /\ f.pc \in {"waiting", "running", "cleanup"} \/ (f.pc = "gone" /\ f.aborted)
  <2>1. ASSUME NEW pc \in ForwarderPCs, Enter(g, pc)
        PROVE  LET f == [forwarder[g] EXCEPT !.pc = pc]
               IN  /\ f \in Forwarders /\ forwarder' = [forwarder EXCEPT ![g] = f]
                   /\ f.key = forwarder[g].key /\ f.aborted = forwarder[g].aborted
                   /\ f.pc = pc
    BY <1>2, <2>1 DEF Enter, Forwarders
  <2>2. CASE Stop(g)
    BY <1>2, <2>1, <2>2 DEF Stop, ForwarderPCs
  <2>3. CASE Poll(g) \/ Park(g) \/ Expire(g)
    BY <1>2, <2>1, <2>3 DEF Poll, Park, Expire, ForwarderPCs
  <2>4. CASE Send(g) /\ Enter(g, "cleanup")
    BY <1>2, <2>1, <2>4 DEF ForwarderPCs
  <2>5. CASE Send(g) /\ ~Enter(g, "cleanup")
    <3> DEFINE f == [forwarder[g] EXCEPT !.events = @ + 1]
    <3>1. /\ f \in Forwarders /\ f.key = forwarder[g].key
          /\ f.aborted = forwarder[g].aborted /\ f.pc = forwarder[g].pc
      BY <1>2, <2>5, WebSubscriptionsAssumption DEF Forwarders, Send
    <3>2. forwarder' = [forwarder EXCEPT ![g] = f]
      BY <2>5 DEF Send
    <3> QED
      BY <1>2, <3>1, <3>2
  <2> QED
    BY <2>2, <2>3, <2>4, <2>5
<1>4. \A h \in Generations : forwarder'[h] = IF h = g THEN f ELSE forwarder[h]
  BY <1>3 DEF Typed
<1>5. Typed'
  BY <1>1, <1>2, <1>3, <1>4 DEF Typed
<1>6. NoStaleEntry' /\ EntryUnaborted'
  BY <1>1, <1>2, <1>3, <1>4 DEF NoStaleEntry, EntryUnaborted, Typed, Generations
<1>7. NoOrphan'
  BY <1>1, <1>2, <1>3, <1>4 DEF NoOrphan, Live
<1>8. HeldByHandler' /\ HeldHasHandler'
  BY <1>1, <1>2, <1>3, <1>4 DEF HeldByHandler, HeldHasHandler
<1> QED
  BY <1>5, <1>6, <1>7, <1>8

(* remove_if_current, and the end of the forwarder. *)
LEMMA CleanupSafe ==
  ASSUME WInv, NEW g \in Generations, Cleanup(g)
  PROVE  WInv'
<1> USE DEF WInv
<1>1. UNCHANGED <<generation, conn, answered>> /\ forwarder[g].pc = "cleanup"
  BY DEF Cleanup
<1>2. forwarder[g] \in Forwarders /\ forwarder[g].key \in Key /\ g # 0
  BY <1>1 DEF Typed, Generations
<1> DEFINE f == [forwarder[g] EXCEPT !.pc = "gone"]
<1>3. f \in Forwarders /\ f.pc = "gone" /\ f.key = forwarder[g].key
      /\ f.aborted = forwarder[g].aborted
  BY <1>2 DEF Forwarders, ForwarderPCs
<1>4. forwarder' = [forwarder EXCEPT ![g] = f]
  BY DEF Cleanup, Enter
<1> HIDE DEF f
<1>5. \A h \in Generations : forwarder'[h] = IF h = g THEN f ELSE forwarder[h]
  BY <1>4 DEF Typed
<1>6. \A k \in Key : active'[k] = IF k = forwarder[g].key /\ active[k] = g THEN 0 ELSE active[k]
  BY <1>2 DEF Cleanup, Typed
<1>7. active' \in [Key -> 0 .. MaxGeneration]
  BY <1>2, WebSubscriptionsAssumption DEF Cleanup, Typed
<1>8. Typed'
  BY <1>1, <1>2, <1>3, <1>4, <1>5, <1>7 DEF Typed
<1>9. NoStaleEntry' /\ EntryUnaborted'
  BY <1>1, <1>2, <1>5, <1>6 DEF NoStaleEntry, EntryUnaborted, Typed, Generations
<1>10. NoOrphan'
  BY <1>1, <1>2, <1>3, <1>5, <1>6, KeysKnown DEF NoOrphan, Live
<1>11. HeldByHandler'
  BY <1>1, <1>2, <1>3, <1>5, <1>6, KeysKnown DEF HeldByHandler
<1>12. HeldHasHandler'
  BY <1>1, <1>3, <1>5 DEF HeldHasHandler
<1> QED
  BY <1>8, <1>9, <1>10, <1>11, <1>12

(* A subscription is attached, with a generation nobody has had. *)
LEMMA AttachedSafe ==
  ASSUME WInv, NEW c \in Conn, NEW r \in Run, Attached(c, r)
  PROVE  WInv'
<1> USE DEF WInv
<1> DEFINE g == generation + 1
           f == Held(<<c, r>>)
           o == [pc |-> "attached", gen |-> g]
<1>1. /\ g \in Generations /\ generation' = g /\ g # 0 /\ generation \in Nat
      /\ UNCHANGED <<active, answered>> /\ conn[c].pc = "ready"
  BY WebSubscriptionsAssumption DEF Attached, Typed, Generations
<1>2. <<c, r>> \in Key /\ 0 \in 0 .. MaxEvents
  BY WebSubscriptionsAssumption DEF Key
<1>3. f \in Forwarders /\ f.pc = "held" /\ ~f.aborted /\ f.key = <<c, r>> /\ f.key \in Key
  BY <1>2 DEF Held, Forwarders, ForwarderPCs
<1>4. o \in Handlers /\ o.pc = "attached" /\ o.gen = g
  BY <1>1 DEF Handlers, ConnPCs, Generations
<1>5. forwarder' = [forwarder EXCEPT ![g] = f] /\ conn' = [conn EXCEPT ![c] = o]
  BY <1>1 DEF Attached
<1>6. forwarder[g].pc = "none" /\ \A k \in Key : active[k] # g
  BY <1>1 DEF Typed, NoStaleEntry
<1>7. \A h \in Generations : h <= generation' <=> h <= generation \/ h = g
  BY <1>1 DEF Generations
<1>8. f.key[1] = c
  BY <1>3
<1> HIDE DEF f, o
<1>9. /\ \A h \in Generations : forwarder'[h] = IF h = g THEN f ELSE forwarder[h]
      /\ \A d \in Conn : conn'[d] = IF d = c THEN o ELSE conn[d]
  BY <1>5 DEF Typed
<1>10. Typed'
  <2>1. /\ forwarder' \in [Generations -> Forwarders] /\ conn' \in [Conn -> Handlers]
        /\ generation' \in 0 .. MaxGeneration
    BY <1>1, <1>3, <1>4, <1>5 DEF Typed, Generations
  <2>2. \A h \in Generations : (forwarder'[h].pc = "none") = (h > generation')
    BY <1>1, <1>3, <1>9 DEF Typed, Generations
  <2>3. \A h \in Generations : h <= generation' => forwarder'[h].key \in Key
    BY <1>3, <1>7, <1>9 DEF Typed
  <2> QED
    BY <1>1, <2>1, <2>2, <2>3 DEF Typed
<1> HIDE DEF g
<1>11. NoStaleEntry' /\ EntryUnaborted'
  <2>1. \A k \in Key : k[1] \in Conn /\ (active[k] # 0 => forwarder'[active[k]] = forwarder[active[k]])
    BY <1>6, <1>9, KeysKnown DEF Key
  <2> QED
    BY <1>1, <1>4, <1>6, <1>9, <2>1 DEF NoStaleEntry, EntryUnaborted
<1>12. NoOrphan'
  BY <1>1, <1>3, <1>9 DEF NoOrphan, Live
<1>13. HeldByHandler'
  <2>1. ASSUME NEW d \in Conn, conn'[d].pc \in {"attached", "registered", "spawned"}, d # c
        PROVE  conn[d].gen # g /\ conn'[d] = conn[d] /\ forwarder'[conn[d].gen] = forwarder[conn[d].gen]
    BY <1>1, <1>6, <1>9, <2>1 DEF HeldByHandler, Typed, Generations
  <2> QED
    BY <1>1, <1>3, <1>4, <1>6, <1>7, <1>8, <1>9, <2>1 DEF HeldByHandler
<1>14. HeldHasHandler'
  <2>1. ASSUME NEW h \in Generations, forwarder[h].pc = "held"
        PROVE  forwarder[h].key[1] # c /\ forwarder[h].key[1] \in Conn
    <3>1. forwarder[h].key \in Key
      BY <1>1, <2>1 DEF Typed, Generations
    <3> QED
      BY <1>1, <2>1, <3>1 DEF HeldHasHandler, Key
  <2> QED
    BY <1>1, <1>4, <1>8, <1>9, <2>1 DEF HeldHasHandler
<1> QED
  BY <1>10, <1>11, <1>12, <1>13, <1>14

(* The forwarder is registered, and the one it replaces aborted. *)
LEMMA InsertSafe ==
  ASSUME WInv, NEW c \in Conn, Insert(c)
  PROVE  WInv'
<1> USE DEF WInv
<1> DEFINE g == conn[c].gen
           k == forwarder[g].key
           o == [conn[c] EXCEPT !.pc = "registered"]
<1>1. /\ g \in Generations /\ g # 0 /\ k \in Key /\ k[1] = c /\ conn[c].pc = "attached"
      /\ forwarder[g].pc = "held" /\ ~forwarder[g].aborted /\ active[k] # g
      /\ UNCHANGED <<generation, answered>>
      /\ conn[c].gen = g /\ forwarder[g].key = k
  BY DEF Insert, HeldByHandler, Typed, Generations
<1>2. o \in Handlers /\ o.pc = "registered" /\ o.gen = g
  BY DEF Typed, Handlers, ConnPCs
<1>3. /\ active' = [active EXCEPT ![k] = g] /\ forwarder' = Aborting({active[k]})
      /\ conn' = [conn EXCEPT ![c] = o]
  BY DEF Insert
<1> HIDE DEF o, k, g
<1>4. /\ \A j \in Key : active'[j] = IF j = k THEN g ELSE active[j]
      /\ \A d \in Conn : conn'[d] = IF d = c THEN o ELSE conn[d]
  BY <1>1, <1>3 DEF Typed
<1>5. \A h \in Generations :
        /\ forwarder'[h] \in Forwarders
        /\ forwarder'[h].pc = forwarder[h].pc /\ forwarder'[h].key = forwarder[h].key
        /\ forwarder'[h].aborted <=> (forwarder[h].aborted \/ h = active[k])
  BY <1>3 DEF Aborting, Typed, Forwarders
<1>6. /\ forwarder' \in [Generations -> Forwarders] /\ conn' \in [Conn -> Handlers]
      /\ active' \in [Key -> 0 .. MaxGeneration]
  BY <1>1, <1>2, <1>3, <1>5 DEF Aborting, Typed, Generations
<1>7. Typed'
  BY <1>1, <1>5, <1>6 DEF Typed
<1>8. \A j \in Key : j[1] \in Conn
  BY DEF Key
<1>9. NoStaleEntry' /\ EntryUnaborted'
  <2>1. ASSUME NEW j \in Key, active'[j] # 0
        PROVE  /\ active'[j] \in Generations /\ active'[j] # active[k]
               /\ forwarder[active'[j]].key = j
               /\ forwarder[active'[j]].pc \notin {"none", "gone"}
               /\ ~forwarder[active'[j]].aborted
               /\ conn'[j[1]].pc # "closed"
    <3>1. CASE j = k
      BY <1>1, <1>2, <1>4, <2>1, <3>1
    <3>2. CASE j # k
      BY <1>1, <1>2, <1>4, <1>8, <2>1, <3>2, KeysKnown DEF NoStaleEntry, EntryUnaborted
    <3> QED
      BY <3>1, <3>2
  <2> QED
    BY <1>5, <2>1 DEF NoStaleEntry, EntryUnaborted
<1>10. NoOrphan'
  BY <1>1, <1>4, <1>5, KeysKnown DEF NoOrphan, Live
<1>11. HeldByHandler'
  <2>1. ASSUME NEW d \in Conn, conn[d].pc \in {"attached", "registered", "spawned"}, d # c
        PROVE  /\ conn[d].gen \in Generations
               /\ forwarder[conn[d].gen].key \in Key \ {k} /\ conn[d].gen # active[k]
    BY <1>1, <2>1, KeysKnown
  <2> QED
    BY <1>1, <1>2, <1>4, <1>5, <2>1 DEF HeldByHandler, Typed
<1>12. HeldHasHandler'
  BY <1>1, <1>2, <1>4, <1>5, <1>8, KeysKnown DEF HeldHasHandler
<1> QED
  BY <1>7, <1>9, <1>10, <1>11, <1>12

(* The registered forwarder is spawned. *)
LEMMA SpawnSafe ==
  ASSUME WInv, NEW c \in Conn, Spawn(c)
  PROVE  WInv'
<1> USE DEF WInv
<1> DEFINE g == conn[c].gen
           f == [forwarder[g] EXCEPT !.pc = "waiting"]
           o == [conn[c] EXCEPT !.pc = "spawned"]
<1>1. /\ g \in Generations /\ forwarder[g].key \in Key /\ forwarder[g].key[1] = c
      /\ forwarder[g].pc = "held" /\ active[forwarder[g].key] = g
      /\ conn[c].pc = "registered" /\ conn[c].gen = g
      /\ UNCHANGED <<active, generation, answered>>
  BY KeysKnown DEF Spawn, HeldByHandler
<1>2. /\ f \in Forwarders /\ f.pc = "waiting" /\ f.key = forwarder[g].key
      /\ f.aborted = forwarder[g].aborted
      /\ o \in Handlers /\ o.pc = "spawned" /\ o.gen = g
  BY <1>1 DEF Typed, Forwarders, ForwarderPCs, Handlers, ConnPCs
<1>3. forwarder' = [forwarder EXCEPT ![g] = f] /\ conn' = [conn EXCEPT ![c] = o]
  BY DEF Spawn, Enter
<1> HIDE DEF o, f, g
<1>4. /\ \A h \in Generations : forwarder'[h] = IF h = g THEN f ELSE forwarder[h]
      /\ \A d \in Conn : conn'[d] = IF d = c THEN o ELSE conn[d]
      /\ forwarder' \in [Generations -> Forwarders] /\ conn' \in [Conn -> Handlers]
  BY <1>2, <1>3 DEF Typed
<1>5. Typed'
  BY <1>1, <1>2, <1>4 DEF Typed
<1>6. \A j \in Key : j[1] \in Conn
  BY DEF Key
<1>7. NoStaleEntry' /\ EntryUnaborted'
  BY <1>1, <1>2, <1>4, <1>6, KeysKnown DEF NoStaleEntry, EntryUnaborted
<1>8. NoOrphan'
  BY <1>1, <1>2, <1>4 DEF NoOrphan, Live
<1>9. HeldByHandler'
  <2>1. ASSUME NEW d \in Conn, conn[d].pc \in {"attached", "registered", "spawned"}, d # c
        PROVE  conn[d].gen \in Generations \ {g}
    BY <1>1, <2>1, KeysKnown
  <2> QED
    BY <1>1, <1>2, <1>4, <2>1, KeysKnown DEF HeldByHandler
<1>10. HeldHasHandler'
  BY <1>1, <1>2, <1>4, <1>6, KeysKnown DEF HeldHasHandler
<1> QED
  BY <1>5, <1>7, <1>8, <1>9, <1>10

(* The response is sent, or the connection is lost. *)
LEMMA ConnSafe ==
  ASSUME WInv, NEW c \in Conn, Respond(c) \/ Lose(c)
  PROVE  WInv'
<1> USE DEF WInv
<1>1. /\ UNCHANGED <<active, generation, forwarder>> /\ conn[c].pc \in {"spawned", "ready"}
      /\ answered' \subseteq Generations
  BY KeysKnown DEF Respond, Lose, Typed
<1>2. PICK o \in Handlers : conn' = [conn EXCEPT ![c] = o] /\ o.pc \in {"ready", "lost"}
  <2>1. CASE Respond(c)
    <3>1. [pc |-> "ready", gen |-> 0] \in Handlers
      BY WebSubscriptionsAssumption DEF Handlers, ConnPCs
    <3> QED
      BY <2>1, <3>1 DEF Respond
  <2>2. CASE Lose(c)
    <3>1. conn[c] \in Handlers
      BY DEF Typed
    <3>2. [conn[c] EXCEPT !.pc = "lost"] \in Handlers
      BY <3>1 DEF Handlers, ConnPCs
    <3> QED
      BY <2>2, <3>1, <3>2 DEF Lose, Handlers
  <2> QED
    BY <2>1, <2>2
<1>3. /\ \A d \in Conn : conn'[d] = IF d = c THEN o ELSE conn[d]
      /\ conn' \in [Conn -> Handlers]
  BY <1>2 DEF Typed
<1>4. Typed'
  BY <1>1, <1>3 DEF Typed
<1>5. \A j \in Key : j[1] \in Conn
  BY DEF Key
<1>6. NoStaleEntry' /\ EntryUnaborted' /\ NoOrphan'
  BY <1>1, <1>2, <1>3, <1>5 DEF NoStaleEntry, EntryUnaborted, NoOrphan, Live
<1>7. HeldByHandler'
  BY <1>1, <1>2, <1>3 DEF HeldByHandler
<1>8. HeldHasHandler'
  BY <1>1, <1>2, <1>3, <1>5, KeysKnown DEF HeldHasHandler
<1> QED
  BY <1>4, <1>6, <1>7, <1>8

(* Entries of connection c are removed and their forwarders aborted, for    *)
(* one run or for all, while none of its requests is being handled.         *)
LEMMA RemovalSafe ==
  ASSUME WInv, NEW c \in Conn, NEW ks \in SUBSET Key, \A k \in ks : k[1] = c,
         active' = [k \in Key |-> IF k \in ks THEN 0 ELSE active[k]],
         forwarder' = Aborting({active[k] : k \in ks}),
         conn[c].pc \in {"ready", "lost"},
         \/ conn' = conn
         \/ /\ \A k \in Key : k[1] = c => k \in ks
            /\ conn' = [conn EXCEPT ![c].pc = "closed"],
         UNCHANGED <<generation, answered>>
  PROVE  WInv'
<1> USE DEF WInv
<1>1. \A h \in Generations :
        /\ forwarder'[h] \in Forwarders
        /\ forwarder'[h].pc = forwarder[h].pc /\ forwarder'[h].key = forwarder[h].key
        /\ forwarder'[h].aborted <=> (forwarder[h].aborted \/ \E k \in ks : h = active[k])
  BY DEF Aborting, Typed, Forwarders
<1>2. \A k \in Key : active'[k] = IF k \in ks THEN 0 ELSE active[k]
  OBVIOUS
<1>3. /\ conn' \in [Conn -> Handlers]
      /\ \A d \in Conn : d # c => conn'[d] = conn[d]
      /\ conn'[c].pc \in {"ready", "lost", "closed"}
      /\ conn'[c].pc = "closed" => \A k \in Key : k[1] = c => k \in ks
  <2>1. CASE conn' = conn
    BY <2>1 DEF Typed
  <2>2. CASE conn' # conn
    BY <2>2 DEF Typed, Handlers, ConnPCs
  <2> QED
    BY <2>1, <2>2
<1>4. Typed'
  <2>1. active' \in [Key -> 0 .. MaxGeneration] /\ forwarder' \in [Generations -> Forwarders]
    BY <1>1, WebSubscriptionsAssumption DEF Typed, Aborting
  <2> QED
    BY <1>1, <1>3, <2>1 DEF Typed
<1>5. \A j \in Key : j[1] \in Conn
  BY DEF Key
<1>6. NoStaleEntry' /\ EntryUnaborted'
  <2>1. ASSUME NEW j \in Key, active'[j] # 0
        PROVE  /\ active'[j] = active[j] /\ j \notin ks /\ active[j] \in Generations
               /\ \A k \in ks : active[k] # active[j]
    BY <1>2, <2>1, KeysKnown
  <2>2. ASSUME NEW j \in Key, active'[j] # 0
        PROVE  conn'[j[1]].pc # "closed"
    BY <1>3, <1>5, <2>1, <2>2 DEF NoStaleEntry
  <2> QED
    BY <1>1, <2>1, <2>2 DEF NoStaleEntry, EntryUnaborted
<1>7. NoOrphan'
  <2>1. ASSUME NEW h \in Generations, Live(h)', ~forwarder'[h].aborted
        PROVE  active'[forwarder'[h].key] = h
    <3>1. Live(h) /\ ~forwarder[h].aborted /\ \A k \in ks : h # active[k]
      BY <1>1, <2>1 DEF Live
    <3>2. forwarder[h].key \in Key /\ active[forwarder[h].key] = h
      BY <3>1, KeysKnown DEF NoOrphan, Live
    <3> QED
      BY <1>1, <1>2, <3>1, <3>2
  <2> QED
    BY <2>1 DEF NoOrphan
<1>8. HeldByHandler'
  <2>1. ASSUME NEW d \in Conn, conn[d].pc \in {"attached", "registered", "spawned"}
        PROVE  /\ d # c /\ conn[d].gen \in Generations
               /\ forwarder[conn[d].gen].key \in Key \ ks
               /\ \A k \in ks : conn[d].gen # active[k]
    BY <2>1, KeysKnown
  <2> QED
    BY <1>1, <1>2, <1>3, <2>1 DEF HeldByHandler
<1>9. HeldHasHandler'
  BY <1>1, <1>3, <1>5, KeysKnown DEF HeldHasHandler
<1> QED
  BY <1>4, <1>6, <1>7, <1>8, <1>9

-----------------------------------------------------------------------------
LEMMA WInvStep == WInv /\ [Next]_vars => WInv'
<1> SUFFICES ASSUME WInv, [Next]_vars PROVE WInv'
  OBVIOUS
<1>1. ASSUME NEW c \in Conn, NEW r \in Run, Unsubscribe(c, r)
      PROVE  WInv'
  <2> DEFINE ks == {<<c, r>>}
  <2>1. ks \in SUBSET Key /\ \A k \in ks : k[1] = c
    BY DEF Key
  <2>2. /\ active' = [k \in Key |-> IF k \in ks THEN 0 ELSE active[k]]
        /\ forwarder' = Aborting({active[k] : k \in ks})
        /\ conn[c].pc = "ready" /\ UNCHANGED <<conn, generation, answered>>
    <3>1. {active[k] : k \in ks} = {active[<<c, r>>]}
      OBVIOUS
    <3> QED
      BY <1>1, <3>1 DEF Unsubscribe, WInv, Typed
  <2> QED
    BY <2>1, <2>2, RemovalSafe
<1>2. ASSUME NEW c \in Conn, Disconnect(c)
      PROVE  WInv'
  <2> DEFINE ks == {<<c, r>> : r \in Run}
  <2>1. ks \in SUBSET Key /\ (\A k \in Key : k \in ks <=> k[1] = c) /\ \A k \in ks : k[1] = c
    BY DEF Key
  <2>2. /\ active' = [k \in Key |-> IF k \in ks THEN 0 ELSE active[k]]
        /\ forwarder' = Aborting({active[k] : k \in ks})
        /\ conn[c].pc = "lost" /\ conn' = [conn EXCEPT ![c].pc = "closed"]
        /\ UNCHANGED <<generation, answered>>
    <3>1. [k \in Key |-> IF k \in ks THEN 0 ELSE active[k]]
            = [k \in Key |-> IF k[1] = c THEN 0 ELSE active[k]]
      BY <2>1
    <3> QED
      BY <1>2, <3>1 DEF Disconnect
  <2> QED
    BY <2>1, <2>2, RemovalSafe
<1>3. ASSUME NEW c \in Conn, Client(c) \/ Handler(c)
      PROVE  WInv'
  BY <1>1, <1>2, <1>3, AttachedSafe, InsertSafe, SpawnSafe, ConnSafe DEF Client, Handler
<1>4. ASSUME NEW g \in Generations, Forwarder(g)
      PROVE  WInv'
  BY <1>4, RunsSafe, CleanupSafe DEF Forwarder
<1>5. CASE UNCHANGED vars
  BY <1>5 DEF vars, WInv, Typed, NoStaleEntry, NoOrphan, Live, HeldByHandler, HeldHasHandler,
              EntryUnaborted
<1> QED
  BY <1>3, <1>4, <1>5 DEF Next

LEMMA WInvHolds == Spec => []WInv
BY WInvInit, WInvStep, PTL DEF Spec

(* The table, its forwarders and the handlers are well typed, and a         *)
(* generation is handed out with its forwarder (RunSubscriptions).          *)
THEOREM SubscriptionsTyped == Spec => []TypeOK
<1>1. WInv => TypeOK
  <2> SUFFICES ASSUME WInv PROVE TypeOK
    OBVIOUS
  <2>1. \A g \in Generations : forwarder[g].pc = "none" <=> g > generation
    BY DEF WInv, Typed
  <2>2. QED
    BY <2>1 DEF WInv, Typed, TypeOK, Forwarders, Handlers
<1> QED
  BY <1>1, WInvHolds, PTL

(* Whatever order subscriptions, ends and cleanups come in, a forwarder     *)
(* that nobody has aborted is the one its entry names                       *)
(* (RunSubscriptions::insert and remove_if_current).                        *)
THEOREM ForwardersAlwaysNamed == Spec => []NoOrphan
<1>1. WInv => NoOrphan
  BY DEF WInv
<1> QED
  BY <1>1, WInvHolds, PTL

(* An entry belongs to a forwarder of its key that has not ended, and to a  *)
(* connection that has not been disconnected (the order of registration and *)
(* spawn in MethodSubscribeRun).                                            *)
THEOREM EntriesNeverStale == Spec => []NoStaleEntry
<1>1. WInv => NoStaleEntry
  BY DEF WInv
<1> QED
  BY <1>1, WInvHolds, PTL
=============================================================================
