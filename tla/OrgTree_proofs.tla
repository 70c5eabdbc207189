--------------------------- MODULE OrgTree_proofs ---------------------------
(***************************************************************************)
(* Proofs about OrgTree, for every set of users, every seeded tree and     *)
(* every number of overlapping updates.                                    *)
(***************************************************************************)
EXTENDS OrgTree, TLAPS

LEMMA Kinds ==
  ASSUME TypeOK, NEW s \in Slots
  PROVE  /\ req[s].pc = "walk" => req[s] \in Walks /\ req[s] # Idle
         /\ req[s].pc = "save" => req[s] \in Saves /\ req[s] # Idle
         /\ req[s] # Idle => req[s] \in Walks \cup Saves
         /\ req[s] = Idle => req[s].pc = "idle"
BY DEF TypeOK, Idle, Walks, Saves

(* A move to a manager whose chain avoids the moved user closes no loop: a  *)
(* loop would hold the user and its new manager, and cut down to the chain  *)
(* it would have been a loop before.                                        *)
LEMMA SafeMoveClosesNoLoop ==
  ASSUME TypeOK, ~ Loop(users), NEW u \in Ids, NEW new \in Row, Exists(u),
         SafeMove(u, new.manager)
  PROVE  ~ Loop([users EXCEPT ![u] = new])
<1> DEFINE table == [users EXCEPT ![u] = new]
<1> SUFFICES ASSUME NEW group \in SUBSET Ids, group # {},
                    \A x \in group : table[x] # NoRow /\ table[x].manager \in group
             PROVE  FALSE
  BY DEF Loop
<1>0. /\ table[u] = new
      /\ \A x \in Ids \ {u} : table[x] = users[x]
  BY DEF TypeOK
<1>1. u \in group
  BY <1>0 DEF Loop
<1>2. new.manager \in group
  BY <1>0, <1>1
<1>3. CASE new.manager = users[u].manager
  <2>1. \A x \in group : users[x] # NoRow /\ users[x].manager \in group
    BY <1>0, <1>2, <1>3 DEF Exists
  <2> QED BY <2>1 DEF Loop
<1>4. CASE \E chain \in SUBSET Ids :
             /\ u \notin chain
             /\ Chain(chain, {NoManager, Unknown})
             /\ new.manager \in chain \cup {NoManager, Unknown}
  <2>1. PICK chain \in SUBSET Ids :
          /\ u \notin chain
          /\ Chain(chain, {NoManager, Unknown})
          /\ new.manager \in chain \cup {NoManager, Unknown}
    BY <1>4
  <2>2. new.manager \in chain \cap group
    BY <1>2, <2>1, IdsAssumption
  <2>3. \A x \in chain \cap group : users[x] # NoRow /\ users[x].manager \in chain \cap group
    BY <1>0, <2>1, IdsAssumption DEF Chain, Exists
  <2> QED BY <2>2, <2>3 DEF Loop
<1> QED BY <1>3, <1>4 DEF SafeMove

(* A new user is nobody's manager, so it closes no loop. *)
LEMMA NewUserClosesNoLoop ==
  ASSUME TypeOK, ManagersExist, ~ Loop(users), NEW u \in Ids, NEW row \in Row,
         Create(u, row)
  PROVE  ~ Loop(users')
<1> SUFFICES ASSUME NEW group \in SUBSET Ids, group # {},
                    \A x \in group : users'[x] # NoRow /\ users'[x].manager \in group
             PROVE  FALSE
  BY DEF Loop
<1>0. /\ users'[u] = row /\ users[u] = NoRow
      /\ \A x \in Ids \ {u} : users'[x] = users[x]
  BY DEF Create, TypeOK
<1>1. u \in group
  BY <1>0 DEF Loop
<1>2. row.manager \in group /\ row.manager # u
  BY <1>0, <1>1 DEF Create, Exists
<1>3. \A x \in group \ {u} : users[x] # NoRow /\ users[x].manager \in group \ {u}
  BY <1>0 DEF ManagersExist, Exists
<1>4. group \ {u} # {}
  BY <1>2
<1> QED BY <1>3, <1>4 DEF Loop

-----------------------------------------------------------------------------
(* A slot, and what its request relies on. *)
Sound(s) ==
  /\ req[s] \in {Idle} \cup Walks \cup Saves
  /\ req[s] # Idle => /\ Exists(req[s].target)
                      /\ req[s].new.manager \in Ids => Exists(req[s].new.manager)
  /\ req[s].pc = "walk" =>
       /\ req[s].visited \subseteq Ids
       /\ req[s].current \in Ids => Exists(req[s].current)
       /\ clean[s] => /\ req[s].target \notin req[s].visited
                      /\ Chain(req[s].visited, {req[s].current})
                      /\ req[s].new.manager \in req[s].visited \cup {req[s].current}
                      /\ Above(req[s].current, req[s].new.manager)
  /\ req[s].pc = "save" /\ clean[s] => SafeMove(req[s].target, req[s].new.manager)

LEMMA SoundParts ==
  IInv <=> /\ users \in [Ids -> Row \cup {NoRow}]
           /\ clean \in [Slots -> BOOLEAN]
           /\ ManagersExist
           /\ req \in [Slots -> {Idle} \cup Walks \cup Saves]
           /\ \A s \in Slots : Sound(s)
BY DEF IInv, TypeOK, RequestsKnown, WalksSound, SavesSound, Sound

(* Users stay, and the managers of users that exist stay for a clean slot. *)
Keeps(s) == /\ \A u \in Ids : Exists(u) => Exists(u)'
            /\ clean'[s] => /\ clean[s]
                            /\ \A u \in Ids : Exists(u) => users'[u].manager = users[u].manager

(* More users with the same managers above the old ones leave who is above. *)
LEMMA AboveForever ==
  ASSUME \A u \in Ids : Exists(u) => Exists(u)' /\ users'[u].manager = users[u].manager,
         NEW u, NEW m, Above(u, m)
  PROVE  Above(u, m)'
<1> SUFFICES ASSUME NEW group \in SUBSET Managers, m \in group,
                    \A x \in group : Exists(x)' => users'[x].manager \in group
             PROVE  u \in group
  BY DEF Above
<1>1. \A x \in group : Exists(x) => users[x].manager \in group
  BY DEF Exists
<1> QED BY <1>1 DEF Above

LEMMA SoundForever ==
  ASSUME IInv, NEW s \in Slots, req'[s] = req[s], Keeps(s)
  PROVE  Sound(s)'
<1>1. Sound(s) /\ TypeOK
  BY SoundParts DEF IInv
<1>2. CASE req[s].pc = "walk"
  <2>1. req[s] \in Walks /\ req[s] # Idle
    BY <1>1, <1>2, Kinds
  <2>2. ASSUME clean'[s]
        PROVE  /\ Chain(req[s].visited, {req[s].current})'
               /\ Above(req[s].current, req[s].new.manager)'
    <3>1. clean[s] /\ \A u \in Ids :
            Exists(u) => Exists(u)' /\ users'[u].manager = users[u].manager
      BY <2>2 DEF Keeps
    <3>2. Above(req[s].current, req[s].new.manager)'
      BY <1>1, <1>2, <3>1, AboveForever DEF Sound, Above
    <3>3. Chain(req[s].visited, {req[s].current})'
      BY <1>1, <1>2, <3>1 DEF Sound, Chain, Exists
    <3> QED BY <3>2, <3>3
  <2> QED BY <1>1, <1>2, <2>1, <2>2 DEF Sound, Keeps, Exists, Walks
<1>3. CASE req[s].pc = "save"
  <2>1. req[s] \in Saves
    BY <1>1, <1>3, Kinds
  <2>2. clean'[s] => SafeMove(req[s].target, req[s].new.manager)'
    BY <1>1, <1>3, <2>1, Kinds DEF Sound, Keeps, Chain, Exists, SafeMove, Saves
  <2>3. /\ Exists(req[s].target)'
        /\ req[s].new.manager \in Ids => Exists(req[s].new.manager)'
    BY <1>1, <1>3, <2>1, Kinds DEF Sound, Keeps, Exists, Saves
  <2> QED BY <1>1, <1>3, <2>1, <2>2, <2>3 DEF Sound
<1>4. CASE req[s].pc \notin {"walk", "save"}
  BY <1>1, <1>4, Kinds DEF Sound, Walks, Saves
<1> QED BY <1>2, <1>3, <1>4

(* A step of one slot that leaves the table alone. *)
LEMMA LocalStep ==
  ASSUME IInv, NEW s \in Slots, NEW q, Become(s, q), UNCHANGED users,
         clean' \in [Slots -> BOOLEAN], \A t \in Slots \ {s} : clean'[t] = clean[t],
         Sound(s)'
  PROVE  IInv'
<1>1. \A t \in Slots \ {s} : req'[t] = req[t]
  BY DEF Become, IInv, TypeOK
<1>2. \A t \in Slots \ {s} : Keeps(t)
  BY DEF Keeps, Exists
<1>3. \A t \in Slots : Sound(t)'
  BY <1>1, <1>2, SoundForever
<1>4. req' \in [Slots -> {Idle} \cup Walks \cup Saves]
  BY <1>3 DEF Become, Sound, IInv, TypeOK
<1>5. users' \in [Ids -> Row \cup {NoRow}] /\ ManagersExist'
  BY DEF IInv, TypeOK, ManagersExist, Exists
<1> QED BY <1>3, <1>4, <1>5, SoundParts DEF IInv, TypeOK, ManagersExist, RequestsKnown,
           WalksSound, SavesSound, Sound

LEMMA IdleSound ==
  ASSUME NEW s \in Slots, req'[s] = Idle
  PROVE  Sound(s)'
BY DEF Sound, Idle

LEMMA CreateKeeps ==
  ASSUME IInv, NEW u \in Ids, NEW row \in Row, Create(u, row)
  PROVE  IInv'
<1>1. /\ users' \in [Ids -> Row \cup {NoRow}] /\ users'[u] = row
      /\ users[u] = NoRow
      /\ \A x \in Ids \ {u} : users'[x] = users[x]
  BY DEF Create, IInv, TypeOK
<1>2. \A s \in Slots : Keeps(s) /\ req'[s] = req[s]
  BY <1>1 DEF Keeps, Exists, Create
<1>3. \A s \in Slots : Sound(s)'
  BY <1>2, SoundForever
<1>4. ManagersExist'
  BY <1>1, RowAssumption DEF Create, ManagersExist, Exists, IInv
<1> QED BY <1>1, <1>3, <1>4 DEF IInv, TypeOK, Create, RequestsKnown, WalksSound,
           SavesSound, Sound

LEMMA ReadKeeps ==
  ASSUME IInv, NEW s \in Slots, NEW u \in Ids, NEW profile \in Profiles,
         \/ ReadForProfile(s, u, profile)
         \/ ReadForDetach(s, u, profile)
         \/ \E m \in Ids \cup {Unknown} : ReadForMove(s, u, m, profile)
  PROVE  IInv'
<1>0. users[u] \in Row
  BY DEF ReadForProfile, ReadForDetach, ReadForMove, Exists, IInv, TypeOK
<1>1. CASE ReadForProfile(s, u, profile)
  <2> DEFINE q == [pc |-> "save", target |-> u,
                   new |-> [users[u] EXCEPT !.profile = profile]]
  <2>1. Become(s, q) /\ req'[s] = q /\ UNCHANGED users
    BY <1>1 DEF ReadForProfile, Become, IInv, TypeOK
  <2>2. q \in Saves /\ q.new.manager = users[u].manager
    BY <1>0 DEF Saves, Row
  <2>3. Sound(s)'
    BY <1>1, <2>1, <2>2 DEF Sound, SafeMove, ReadForProfile, ManagersExist, IInv, Exists
  <2> QED BY <1>1, <2>1, <2>3, LocalStep DEF ReadForProfile, IInv, TypeOK
<1>2. CASE ReadForDetach(s, u, profile)
  <2> DEFINE q == [pc |-> "save", target |-> u,
                   new |-> [manager |-> NoManager, profile |-> profile]]
  <2>1. Become(s, q) /\ req'[s] = q /\ UNCHANGED users
    BY <1>2 DEF ReadForDetach, Become, IInv, TypeOK
  <2>2. q \in Saves /\ q.new.manager = NoManager /\ NoManager \notin Ids
    BY IdsAssumption DEF Saves, Row, Managers
  <2>3. SafeMove(u, NoManager)'
    <3>1. {} \in SUBSET Ids /\ u \notin {} /\ NoManager \in {} \cup {NoManager, Unknown}
      OBVIOUS
    <3>2. Chain({}, {NoManager, Unknown})'
      BY DEF Chain
    <3> QED BY <3>1, <3>2 DEF SafeMove
  <2>4. Sound(s)'
    BY <1>2, <2>1, <2>2, <2>3 DEF Sound, ReadForDetach, Exists, SafeMove, Chain
  <2> QED BY <1>2, <2>1, <2>4, LocalStep DEF ReadForDetach, IInv, TypeOK
<1>3. ASSUME NEW m \in Ids \cup {Unknown}, ReadForMove(s, u, m, profile)
      PROVE  IInv'
  <2> DEFINE q == [pc |-> "walk", target |-> u, current |-> m, visited |-> {},
                   new |-> [manager |-> m, profile |-> profile]]
  <2>1. Become(s, q) /\ req'[s] = q /\ UNCHANGED users
    BY <1>3 DEF ReadForMove, Become, IInv, TypeOK
  <2>2. q \in Walks
    BY DEF Walks, Row, Managers
  <2>3. Above(q.current, q.new.manager)'
    BY <2>1 DEF Above
  <2>4. Sound(s)'
    BY <1>3, <2>1, <2>2, <2>3, IdsAssumption DEF Sound, ReadForMove, Exists, Chain
  <2> QED BY <1>3, <2>1, <2>4, LocalStep DEF ReadForMove, IInv, TypeOK
<1> QED BY <1>1, <1>2, <1>3

(* A walk that is over goes on to the save with a chain that leads nowhere *)
(* else, unless it was disturbed.                                          *)
LEMMA GoOnKeeps ==
  ASSUME IInv, NEW s \in Slots, req[s].pc = "walk", GoOn(s), UNCHANGED users,
         clean' \in [Slots -> BOOLEAN], \A t \in Slots \ {s} : clean'[t] = clean[t],
         clean'[s] => SafeMove(req[s].target, req[s].new.manager)
  PROVE  IInv'
<1> DEFINE q == [pc |-> "save", target |-> req[s].target, new |-> req[s].new]
<1>1. Become(s, q) /\ req'[s] = q
  BY DEF GoOn, Become, IInv, TypeOK
<1>2. req[s] \in Walks /\ req[s] # Idle /\ Sound(s)
  BY Kinds, SoundParts DEF IInv
<1>3. q \in Saves
  BY <1>2 DEF Walks, Saves
<1>4. Sound(s)'
  BY <1>1, <1>2, <1>3 DEF Sound, SafeMove, Chain, Exists
<1> QED BY <1>1, <1>4, LocalStep

(* One turn of the walk. *)
LEMMA WalkKeeps ==
  ASSUME IInv, NEW s \in Slots, Walk(s)
  PROVE  IInv'
<1>0. /\ req[s].pc = "walk" /\ req[s] \in Walks /\ Sound(s)
      /\ req[s].target \in Ids /\ users[req[s].target] # NoRow
  BY Kinds, SoundParts DEF IInv, Walk, WalkMeetsTarget, WalkMeetsVisited, WalkMeetsTop,
     WalkClimbs, WalkFails, Queries, Sound, Exists
<1>1. CASE WalkMeetsTarget(s)
  <2>1. Become(s, Idle) /\ req'[s] = Idle
    BY <1>1 DEF WalkMeetsTarget, Reply, Become, IInv, TypeOK
  <2> QED BY <1>1, <2>1, IdleSound, LocalStep DEF WalkMeetsTarget, IInv, TypeOK
<1>2. CASE WalkMeetsVisited(s)
  <2> DEFINE group == req[s].visited \cap Ids
  <2>1. clean[s] => /\ req[s].target \notin group
                    /\ Chain(group, {NoManager, Unknown})
                    /\ req[s].new.manager \in group
    BY <1>0, <1>2 DEF WalkMeetsVisited, Sound, Chain, Exists
  <2>2. clean[s] => SafeMove(req[s].target, req[s].new.manager)
    BY <2>1 DEF SafeMove
  <2> QED BY <1>0, <1>2, <2>2, GoOnKeeps DEF WalkMeetsVisited, IInv, TypeOK
<1>3. CASE WalkMeetsTop(s)
  <2> DEFINE here == IF Exists(req[s].current) THEN {req[s].current} ELSE {}
             group == (req[s].visited \cup here) \cap Ids
  <2>1. req[s].target # req[s].current /\ req[s].current \in Ids \cup {Unknown}
    BY <1>0, <1>3 DEF WalkMeetsTop, Queries, Walks
  <2>2. ASSUME clean[s]
        PROVE  SafeMove(req[s].target, req[s].new.manager)
    <3>1. req[s].target \notin group
      BY <1>0, <2>1, <2>2 DEF Sound
    <3>2. Chain(group, {NoManager, Unknown})
      BY <1>0, <1>3, <2>1, <2>2 DEF WalkMeetsTop, Sound, Chain, Exists
    <3>3. req[s].new.manager \in group \cup {NoManager, Unknown}
      BY <1>0, <2>1, <2>2 DEF Sound, Chain, Exists
    <3> QED BY <3>1, <3>2, <3>3 DEF SafeMove
  <2> QED BY <1>0, <1>3, <2>2, GoOnKeeps DEF WalkMeetsTop, IInv, TypeOK
<1>4. CASE WalkClimbs(s)
  <2> DEFINE up == users[req[s].current].manager
             q == [req[s] EXCEPT !.current = up, !.visited = @ \cup {req[s].current}]
  <2>1. /\ req[s].current \in Ids /\ users[req[s].current] \in Row
        /\ req[s].target # req[s].current /\ up # NoManager
    BY <1>4 DEF WalkClimbs, Queries, Exists, IInv, TypeOK
  <2>2. up \in Ids \cup {Unknown} /\ (up \in Ids => Exists(up))
    <3>1. up \in Managers
      BY <2>1 DEF Row
    <3>2. Exists(req[s].current)
      BY <1>4 DEF WalkClimbs
    <3>3. up \in Ids => Exists(up)
      BY <2>1, <3>2 DEF IInv, ManagersExist
    <3> QED BY <2>1, <3>1, <3>3 DEF Managers
  <2>3. q \in Walks /\ q.new = req[s].new /\ q.target = req[s].target
        /\ q.current = up /\ q.visited = req[s].visited \cup {req[s].current}
        /\ q.pc = "walk"
    BY <1>0, <2>1, <2>2 DEF Walks
  <2>4. Become(s, q) /\ req'[s] = q /\ UNCHANGED <<users, clean>>
    BY <1>4 DEF WalkClimbs, Become, IInv, TypeOK
  <2>5. req[s] # Idle
    BY <1>0 DEF Idle, Walks
  <2>6. clean[s] => /\ q.target \notin q.visited
                    /\ Chain(q.visited, {q.current})
                    /\ q.new.manager \in q.visited \cup {q.current}
    BY <1>0, <2>1, <2>3 DEF Sound, Chain, Exists
  <2>7. ASSUME clean[s] PROVE Above(up, req[s].new.manager)
    <3>1. Above(req[s].current, req[s].new.manager) /\ Exists(req[s].current)
      BY <1>0, <1>4, <2>7 DEF Sound, WalkClimbs
    <3> QED BY <3>1 DEF Above
  <2>8. Sound(s)'
    <3>1. clean[s] => Above(req[s].current, req[s].new.manager)'
      BY <2>3, <2>4, <2>7 DEF Above, Exists
    <3>2. req'[s].visited \subseteq Ids
      BY <1>0, <2>1, <2>3, <2>4 DEF Sound
    <3> QED BY <1>0, <2>2, <2>3, <2>4, <2>5, <2>6, <3>1, <3>2 DEF Sound, Chain, Exists
  <2> QED BY <2>4, <2>8, LocalStep DEF IInv, TypeOK
<1>5. CASE WalkFails(s)
  <2>1. clean'[s] = FALSE /\ clean' \in [Slots -> BOOLEAN]
        /\ \A t \in Slots \ {s} : clean'[t] = clean[t]
    BY <1>5 DEF WalkFails, IInv, TypeOK
  <2> QED BY <1>0, <1>5, <2>1, GoOnKeeps DEF WalkFails
<1> QED BY <1>1, <1>2, <1>3, <1>4, <1>5 DEF Walk

(* What a save in flight stores keeps the table well formed, and the other *)
(* slots either see every manager unchanged or are not clean any more.     *)
LEMMA StoreEffect ==
  ASSUME IInv, NEW s \in Slots, req[s].pc = "save", Store(s)
  PROVE  /\ users' \in [Ids -> Row \cup {NoRow}]
         /\ clean' \in [Slots -> BOOLEAN]
         /\ ManagersExist'
         /\ \A t \in Slots \ {s} : Keeps(t)
<1>1. req[s] \in Saves /\ Sound(s) /\ req[s] # Idle
  BY Kinds, SoundParts DEF IInv
<1>2. req[s].target \in Ids /\ req[s].new \in Row /\ Exists(req[s].target)
      /\ (req[s].new.manager \in Ids => Exists(req[s].new.manager))
  BY <1>1 DEF Saves, Sound
<1>3. /\ users' \in [Ids -> Row \cup {NoRow}]
      /\ users'[req[s].target] = req[s].new
      /\ \A x \in Ids \ {req[s].target} : users'[x] = users[x]
  BY <1>2 DEF Store, IInv, TypeOK
<1>4. \A x \in Ids : Exists(x)' <=> Exists(x)
  BY <1>2, <1>3, RowAssumption DEF Exists
<1>5. ManagersExist'
  BY <1>2, <1>3, <1>4 DEF ManagersExist, IInv, Exists
<1>6. /\ clean' \in [Slots -> BOOLEAN]
      /\ \A t \in Slots \ {s} :
           clean'[t] => clean[t] /\ users[req[s].target].manager = req[s].new.manager
  BY DEF Store, IInv, TypeOK
<1>7. \A t \in Slots \ {s} : Keeps(t)
  BY <1>3, <1>4, <1>6 DEF Keeps, Exists
<1> QED BY <1>3, <1>5, <1>6, <1>7

LEMMA SaveKeeps ==
  ASSUME IInv, NEW s \in Slots, Save(s) \/ SaveFails(s)
  PROVE  IInv'
<1>1. Become(s, Idle) /\ req'[s] = Idle /\ req[s].pc = "save"
  BY DEF Save, SaveFails, Reply, Become, IInv, TypeOK
<1>2. CASE UNCHANGED <<users, clean>>
  BY <1>1, <1>2, IdleSound, LocalStep DEF IInv, TypeOK
<1>3. CASE Store(s)
  <2>1. \A t \in Slots \ {s} : req'[t] = req[t] /\ Keeps(t)
    BY <1>1, <1>3, StoreEffect DEF Become, IInv, TypeOK
  <2>2. \A t \in Slots : Sound(t)'
    BY <1>1, <2>1, IdleSound, SoundForever
  <2>3. req' \in [Slots -> {Idle} \cup Walks \cup Saves]
    BY <1>1, <2>2 DEF Become, Sound, IInv, TypeOK
  <2> QED BY <1>1, <1>3, <2>2, <2>3, StoreEffect
             DEF IInv, TypeOK, RequestsKnown, WalksSound, SavesSound, Sound
<1> QED BY <1>2, <1>3 DEF Save, SaveFails

LEMMA CrashKeeps == ASSUME IInv, Crash PROVE IInv'
<1>1. \A s \in Slots : Sound(s)'
  BY IdleSound DEF Crash
<1> QED BY <1>1 DEF Crash, IInv, TypeOK, ManagersExist, Exists, RequestsKnown,
           WalksSound, SavesSound, Sound

-----------------------------------------------------------------------------
LEMMA InitInvariant == Init => IInv
BY SeedAssumption DEF Init, IInv, TypeOK, ManagersExist, Exists, RequestsKnown, WalksSound,
   SavesSound, Idle

LEMMA NextInvariant == IInv /\ [Next]_vars => IInv'
<1>1. CASE UNCHANGED vars
  BY <1>1 DEF vars, IInv, TypeOK, ManagersExist, Exists, RequestsKnown, WalksSound,
     SavesSound, Chain, SafeMove, Above
<1> QED BY <1>1, CreateKeeps, ReadKeeps, WalkKeeps, SaveKeeps, CrashKeeps DEF Next

(* What a walk has visited stays a chain as long as nobody interferes       *)
(* (handler.go:193-215).                                                    *)
THEOREM Invariance == Spec => []IInv
BY InitInvariant, NextInvariant, PTL DEF Spec

(* Every variable stays in its type. *)
THEOREM TypeCorrect == Spec => []TypeOK
<1>1. IInv => TypeOK
  BY DEF IInv
<1> QED BY <1>1, Invariance, PTL

LEMMA LoopStep ==
  ASSUME IInv, [Next]_vars, ~ Loop(users), Loop(users')
  PROVE  \E s \in Slots : req[s].pc = "save" /\ ~ clean[s]
<1>1. ~ \E u \in Ids, row \in Row : Create(u, row)
  BY NewUserClosesNoLoop DEF IInv
<1>2. users' # users
  OBVIOUS
<1>3. PICK s \in Slots : req[s].pc = "save" /\ Store(s)
  BY <1>1, <1>2 DEF Next, vars, ReadForProfile, ReadForDetach, ReadForMove, Walk,
     WalkMeetsTarget, WalkMeetsVisited, WalkMeetsTop, WalkClimbs, WalkFails, Save,
     SaveFails, Crash
<1>4. SUFFICES ASSUME clean[s] PROVE FALSE
  BY <1>3
<1>5. /\ req[s].target \in Ids /\ req[s].new \in Row /\ Exists(req[s].target)
      /\ SafeMove(req[s].target, req[s].new.manager)
  BY <1>3, <1>4, Kinds, SoundParts DEF Sound, Saves, IInv
<1> QED BY <1>3, <1>5, SafeMoveClosesNoLoop DEF Store, IInv

(* The walk of wouldCreateCycle is complete: an update that ran undisturbed *)
(* closes no loop, in any tree.                                             *)
THEOREM UndisturbedMovesCloseNoLoop == Spec => LoopsNeedInterference
<1>1. IInv /\ [Next]_vars =>
        [~ Loop(users) /\ Loop(users') =>
           \E s \in Slots : req[s].pc = "save" /\ ~ clean[s]]_vars
  BY LoopStep
<1> QED BY <1>1, Invariance, PTL DEF Spec, LoopsNeedInterference

-----------------------------------------------------------------------------
(* It refuses no harmless move either: whoever an undisturbed walk meets     *)
(* stands above the new manager.                                             *)
THEOREM RefusedMovesCloseLoops == Spec => RefusalsAreJustified
<1>1. ASSUME IInv, NEW s \in Slots, WalkMeetsTarget(s), clean[s]
      PROVE  Above(req[s].target, req[s].new.manager)
  BY <1>1, SoundParts DEF WalkMeetsTarget, Sound
<1>2. IInv /\ [Next]_vars =>
        [\A s \in Slots : WalkMeetsTarget(s) /\ clean[s] =>
           Above(req[s].target, req[s].new.manager)]_vars
  BY <1>1
<1> QED BY <1>2, Invariance, PTL DEF Spec, RefusalsAreJustified

(* A turn of the walk of one slot, or a step that leaves its walk alone. *)
LEMMA WalkAdvanceStep ==
  ASSUME IInv, [Next]_vars, NEW s \in Slots,
         req[s].pc = "walk", req'[s].pc = "walk", req'[s] # req[s]
  PROVE  \E u \in Ids \ req[s].visited : req'[s].visited = req[s].visited \cup {u}
<1>0. /\ req[s] # Idle /\ req[s] \in Walks
      /\ \A q : Become(s, q) => req'[s] = q
      /\ \A t \in Slots \ {s} : \A q : Become(t, q) => req'[s] = req[s]
  BY Kinds DEF IInv, TypeOK, Become
<1>1. req'[s] # Idle /\ ~ GoOn(s) /\ ~ Reply(s)
  BY <1>0 DEF Idle, GoOn, Reply
<1>2. CASE WalkClimbs(s)
  <2>1. req[s].current \in Ids \ req[s].visited
    BY <1>2 DEF WalkClimbs, Queries, Exists
  <2>2. req'[s].visited = req[s].visited \cup {req[s].current}
    BY <1>0, <1>2 DEF WalkClimbs, Walks
  <2> QED BY <2>1, <2>2
<1>3. CASE Walk(s) /\ ~ WalkClimbs(s)
  BY <1>1, <1>3 DEF Walk, WalkMeetsTarget, WalkMeetsVisited, WalkMeetsTop, WalkFails
<1>4. CASE \E t \in Slots \ {s} : Walk(t) \/ Save(t) \/ SaveFails(t)
  BY <1>0, <1>4 DEF Walk, WalkMeetsTarget, WalkMeetsVisited, WalkMeetsTop, WalkClimbs,
     WalkFails, Save, SaveFails, GoOn, Reply
<1>5. CASE Save(s) \/ SaveFails(s)
  BY <1>1, <1>5 DEF Save, SaveFails
<1>6. CASE \E t \in Slots, u \in Ids, profile \in Profiles :
             \/ ReadForProfile(t, u, profile)
             \/ ReadForDetach(t, u, profile)
             \/ \E m \in Ids \cup {Unknown} : ReadForMove(t, u, m, profile)
  <2>1. PICK t \in Slots : req[t] = Idle /\ \E q : Become(t, q)
    BY <1>6 DEF ReadForProfile, ReadForDetach, ReadForMove
  <2> QED BY <1>0, <2>1
<1> QED BY <1>1, <1>2, <1>3, <1>4, <1>5, <1>6 DEF Next, Create, Crash, vars

(* However the tree changes under it and whatever loop it runs into, a walk *)
(* that goes on has met one more user: it turns at most once per user.      *)
THEOREM WalksAdvance == Spec => WalkAdvances
<1>1. IInv /\ [Next]_vars =>
        [\A s \in Slots : req[s].pc = "walk" /\ req'[s].pc = "walk" /\ req'[s] # req[s] =>
           \E u \in Ids \ req[s].visited :
             req'[s].visited = req[s].visited \cup {u}]_vars
  BY WalkAdvanceStep
<1> QED BY <1>1, Invariance, PTL DEF Spec, WalkAdvances

-----------------------------------------------------------------------------
(* Without overlap and failing queries every request in flight is undisturbed. *)
AllClean == \A s \in Slots : req[s] # Idle => clean[s]

LEMMA SerialStep ==
  ASSUME IInv, OneAtATime, AllClean, [Next]_vars, \A s \in Slots : ~ WalkFails(s)
  PROVE  AllClean'
<1>0. \A t \in Slots : \A q : Become(t, q) =>
        \A s \in Slots : req'[s] = IF s = t THEN q ELSE req[s]
  BY DEF Become, IInv, TypeOK
<1>1. CASE UNCHANGED <<req, clean>>
  BY <1>1 DEF AllClean
<1>2. ASSUME NEW t \in Slots, NEW q, Become(t, q), clean' = [clean EXCEPT ![t] = TRUE]
      PROVE  AllClean'
  BY <1>0, <1>2 DEF AllClean, IInv, TypeOK
<1>3. ASSUME NEW t \in Slots, NEW q, Become(t, q), req[t] # Idle, UNCHANGED clean
      PROVE  AllClean'
  BY <1>0, <1>3 DEF AllClean
<1>4. ASSUME NEW t \in Slots, req[t].pc = "save", Reply(t)
      PROVE  AllClean'
  <2>1. \A s \in Slots \ {t} : req[s] = Idle /\ req'[s] = Idle
    BY <1>0, <1>4, Kinds DEF OneAtATime, Reply, IInv
  <2> QED BY <1>0, <1>4, <2>1 DEF AllClean, Reply
<1>5. CASE \E t \in Slots, u \in Ids, profile \in Profiles :
             \/ ReadForProfile(t, u, profile)
             \/ ReadForDetach(t, u, profile)
             \/ \E m \in Ids \cup {Unknown} : ReadForMove(t, u, m, profile)
  BY <1>2, <1>5 DEF ReadForProfile, ReadForDetach, ReadForMove
<1>6. CASE \E t \in Slots : Walk(t)
  <2>1. PICK t \in Slots : Walk(t)
    BY <1>6
  <2>2. req[t].pc = "walk" /\ UNCHANGED clean /\ \E q : Become(t, q)
    BY <2>1 DEF Walk, WalkMeetsTarget, WalkMeetsVisited, WalkMeetsTop, WalkClimbs, Queries,
       GoOn, Reply
  <2> QED BY <1>3, <2>2, Kinds DEF IInv
<1>7. CASE Crash
  BY <1>7 DEF Crash, AllClean
<1> QED BY <1>1, <1>4, <1>5, <1>6, <1>7 DEF Next, Create, Save, SaveFails, vars

(* The walk keeps the tree a tree, whatever is created, moved or written in *)
(* part and wherever the process stops, as long as updates do not overlap   *)
(* and no query of a walk fails.                                            *)
THEOREM TreesStayTrees == SerialSpec => []NoReportingLoop
<1> DEFINE Ok == OneAtATime /\ AllClean /\ NoReportingLoop
           Step == Next /\ OneAtATime' /\ \A s \in Slots : ~ WalkFails(s)
<1>1. Init => IInv /\ Ok
  BY InitInvariant, SeedAssumption DEF Init, OneAtATime, AllClean, NoReportingLoop
<1>2. IInv /\ Ok /\ [Step]_vars => IInv' /\ Ok'
  <2> SUFFICES ASSUME IInv, Ok, [Step]_vars PROVE IInv' /\ Ok'
    OBVIOUS
  <2>1. IInv'
    BY NextInvariant
  <2>2. CASE UNCHANGED vars
    BY <2>1, <2>2 DEF vars, OneAtATime, AllClean, NoReportingLoop, Loop
  <2>3. CASE Step
    <3>1. AllClean'
      BY <2>3, SerialStep
    <3>2. ~ \E s \in Slots : req[s].pc = "save" /\ ~ clean[s]
      BY Kinds DEF AllClean, IInv
    <3>3. NoReportingLoop'
      BY <2>3, <3>2, LoopStep DEF NoReportingLoop, Loop
    <3> QED BY <2>1, <2>3, <3>1, <3>3
  <2> QED BY <2>2, <2>3
<1> QED BY <1>1, <1>2, PTL DEF SerialSpec
=============================================================================
