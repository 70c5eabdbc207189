------------------------------ MODULE OrgTree ------------------------------
(***************************************************************************)
(* The reporting tree: users.manager_id as it is written by the            *)
(* administrators' handlers Create and Update (internal/user/handler.go).  *)
(* Update reads the user, walks up from the new manager with one query per *)
(* step to see whether the move would close a loop, and then writes the    *)
(* whole row back.  Two updates may overlap; nothing locks the tree.       *)
(***************************************************************************)
EXTENDS Naturals, FiniteSets

CONSTANTS Ids,        \* user ids
          Unknown,    \* an id that belongs to no user; no foreign key forbids it
          NoManager,  \* manager_id IS NULL
          Profiles,   \* role, title, department and is_active as one value
          NoRow,
          Seed,       \* the users table the server starts from
          Slots       \* updates that can be in flight together

Managers == Ids \cup {Unknown, NoManager}
Row == [manager : Managers, profile : Profiles]

(* In a tree every group of users has a member managed from outside. *)
Loop(table) == \E group \in SUBSET Ids :
  /\ group # {}
  /\ \A u \in group : table[u] # NoRow /\ table[u].manager \in group

ASSUME IdsAssumption == Unknown \notin Ids /\ NoManager \notin Ids \cup {Unknown}
ASSUME RowAssumption == NoRow \notin Row
ASSUME SeedAssumption ==
  /\ Seed \in [Ids -> Row \cup {NoRow}]
  /\ ~ Loop(Seed)
  /\ \A u \in Ids : Seed[u] # NoRow /\ Seed[u].manager \in Ids =>
       Seed[Seed[u].manager] # NoRow

VARIABLES users,  \* the users table
          req,    \* req[s]: where the update in slot s is
          clean   \* history: no other update moved anybody, and no query of the
                  \* walk failed, since the update in slot s read its user
vars == <<users, req, clean>>

Idle  == [pc |-> "idle"]
Walks == [pc : {"walk"}, target : Ids, new : Row,
          current : Ids \cup {Unknown}, visited : SUBSET (Ids \cup {Unknown})]
Saves == [pc : {"save"}, target : Ids, new : Row]

Exists(u) == u \in Ids /\ users[u] # NoRow

Become(s, q) == req' = [req EXCEPT ![s] = q]
Reply(s)     == Become(s, Idle)
GoOn(s)      == Become(s, [pc |-> "save", target |-> req[s].target, new |-> req[s].new])

Init == /\ users = Seed
        /\ req = [s \in Slots |-> Idle]
        /\ clean = [s \in Slots |-> TRUE]

(* POST /users: uuid.New gives an id nobody refers to; manager_id is taken *)
(* as it comes.                                                            *)
Create(u, row) ==
  /\ users[u] = NoRow
  /\ row.manager \in Ids => Exists(row.manager)
  /\ users' = [users EXCEPT ![u] = row]
  /\ UNCHANGED <<req, clean>>

(* PATCH /users/:id without manager_id: the other columns of the copy change. *)
ReadForProfile(s, u, profile) ==
  /\ req[s] = Idle
  /\ Exists(u)
  /\ Become(s, [pc |-> "save", target |-> u,
                new |-> [users[u] EXCEPT !.profile = profile]])
  /\ clean' = [clean EXCEPT ![s] = TRUE]
  /\ UNCHANGED users

(* With manager_id "": the user leaves its manager; no walk. *)
ReadForDetach(s, u, profile) ==
  /\ req[s] = Idle
  /\ Exists(u)
  /\ Become(s, [pc |-> "save", target |-> u,
                new |-> [manager |-> NoManager, profile |-> profile]])
  /\ clean' = [clean EXCEPT ![s] = TRUE]
  /\ UNCHANGED users

(* With a manager_id other than the user's own: the walk starts there. *)
ReadForMove(s, u, m, profile) ==
  /\ req[s] = Idle
  /\ Exists(u)
  /\ Exists(m) \/ m = Unknown
  /\ m # u
  /\ Become(s, [pc |-> "walk", target |-> u, current |-> m, visited |-> {},
                new |-> [manager |-> m, profile |-> profile]])
  /\ clean' = [clean EXCEPT ![s] = TRUE]
  /\ UNCHANGED users

\* Faulty variant: the walk does not compare with the user that moves.
WalkIgnoresTarget(s) ==
  /\ req[s].pc = "walk"
  /\ req[s].current = req[s].target
  /\ GoOn(s)
  /\ UNCHANGED <<users, clean>>

\* Faulty variant: a user seen before counts as a loop closed by this move.
WalkMeetsTargetOrVisited(s) ==
  /\ req[s].pc = "walk"
  /\ req[s].current \in req[s].visited \cup {req[s].target}
  /\ Reply(s)
  /\ UNCHANGED <<users, clean>>

(* wouldCreateCycle, one turn of its loop at a time. *)
WalkMeetsTarget(s) ==
  /\ req[s].pc = "walk"
  /\ req[s].current = req[s].target
  /\ Reply(s)
  /\ UNCHANGED <<users, clean>>

WalkMeetsVisited(s) ==
  /\ req[s].pc = "walk"
  /\ req[s].current # req[s].target
  /\ req[s].current \in req[s].visited
  /\ GoOn(s)
  /\ UNCHANGED <<users, clean>>

Queries(s) == /\ req[s].pc = "walk"
              /\ req[s].current # req[s].target
              /\ req[s].current \notin req[s].visited

(* No such user, or nobody above. *)
WalkMeetsTop(s) ==
  /\ Queries(s)
  /\ Exists(req[s].current) => users[req[s].current].manager = NoManager
  /\ GoOn(s)
  /\ UNCHANGED <<users, clean>>

\* Faulty variant: visited users are not remembered.
WalkClimbsForgetting(s) ==
  /\ Queries(s)
  /\ Exists(req[s].current)
  /\ users[req[s].current].manager # NoManager
  /\ Become(s, [req[s] EXCEPT !.current = users[req[s].current].manager])
  /\ UNCHANGED <<users, clean>>

\* Faulty variant: the NULL at the top is not looked for.
WalkClimbsOverTheTop(s) ==
  /\ Queries(s)
  /\ Exists(req[s].current)
  /\ Become(s, [req[s] EXCEPT !.current = users[req[s].current].manager,
                              !.visited = @ \cup {req[s].current}])
  /\ UNCHANGED <<users, clean>>

WalkClimbs(s) ==
  /\ Queries(s)
  /\ Exists(req[s].current)
  /\ users[req[s].current].manager # NoManager
  /\ Become(s, [req[s] EXCEPT !.current = users[req[s].current].manager,
                              !.visited = @ \cup {req[s].current}])
  /\ UNCHANGED <<users, clean>>

(* A database error counts as "no loop": the update goes on. *)
WalkFails(s) ==
  /\ Queries(s)
  /\ GoOn(s)
  /\ clean' = [clean EXCEPT ![s] = FALSE]
  /\ UNCHANGED users

(* db.Save writes the whole copy. *)
Store(s) ==
  LET u == req[s].target  new == req[s].new IN
  /\ users' = [users EXCEPT ![u] = new]
  /\ clean' = [t \in Slots |->
                 clean[t] /\ (t # s => users[u].manager = new.manager)]

Save(s) == /\ req[s].pc = "save"
           /\ Store(s)
           /\ Reply(s)

(* 500; the statement may have been applied before the connection broke. *)
SaveFails(s) == /\ req[s].pc = "save"
                /\ UNCHANGED <<users, clean>> \/ Store(s)
                /\ Reply(s)

Crash == /\ req' = [s \in Slots |-> Idle]
         /\ UNCHANGED <<users, clean>>

Walk(s) == \/ WalkMeetsTarget(s)
           \/ WalkMeetsVisited(s)
           \/ WalkMeetsTop(s)
           \/ WalkClimbs(s)
           \/ WalkFails(s)

Next == \/ \E u \in Ids, row \in Row : Create(u, row)
        \/ \E s \in Slots, u \in Ids, profile \in Profiles :
             \/ ReadForProfile(s, u, profile)
             \/ ReadForDetach(s, u, profile)
             \/ \E m \in Ids \cup {Unknown} : ReadForMove(s, u, m, profile)
        \/ \E s \in Slots : Walk(s) \/ Save(s) \/ SaveFails(s)
        \/ Crash

(* A query is answered or fails, and the goroutine of the handler runs on. *)
Fairness == \A s \in Slots : WF_vars(Walk(s))

Spec == Init /\ [][Next]_vars /\ Fairness
-----------------------------------------------------------------------------
TypeOK == /\ users \in [Ids -> Row \cup {NoRow}]
          /\ req \in [Slots -> {Idle} \cup Walks \cup Saves]
          /\ clean \in [Slots -> BOOLEAN]

(* The inductive invariant.  While nobody else moves anybody, what a walk    *)
(* has visited is a chain of users above the new manager that leads to where *)
(* the walk stands; when the walk is over, the chain leads nowhere else.     *)
ManagersExist == \A u \in Ids :
  Exists(u) /\ users[u].manager \in Ids => Exists(users[u].manager)

RequestsKnown == \A s \in Slots : req[s] # Idle =>
  /\ Exists(req[s].target)
  /\ req[s].new.manager \in Ids => Exists(req[s].new.manager)

Chain(group, rest) == \A u \in group :
  Exists(u) /\ users[u].manager \in group \cup rest

(* Whoever climbs from m comes past u: no group closed upwards has m only. *)
Above(u, m) == \A group \in SUBSET Managers :
  m \in group /\ (\A x \in group : Exists(x) => users[x].manager \in group)
    => u \in group

WalksSound == \A s \in Slots : req[s].pc = "walk" =>
  /\ req[s].visited \subseteq Ids
  /\ req[s].current \in Ids => Exists(req[s].current)
  /\ clean[s] => /\ req[s].target \notin req[s].visited
                 /\ Chain(req[s].visited, {req[s].current})
                 /\ req[s].new.manager \in req[s].visited \cup {req[s].current}
                 /\ Above(req[s].current, req[s].new.manager)

SafeMove(u, m) ==
  \/ m = users[u].manager
  \/ \E group \in SUBSET Ids :
       /\ u \notin group
       /\ Chain(group, {NoManager, Unknown})
       /\ m \in group \cup {NoManager, Unknown}

SavesSound == \A s \in Slots : req[s].pc = "save" /\ clean[s] =>
  SafeMove(req[s].target, req[s].new.manager)

IInv == TypeOK /\ ManagersExist /\ RequestsKnown /\ WalksSound /\ SavesSound

(* Only updates that raced with another move, or whose walk met a database  *)
(* error, can close a loop: the walk itself misses none.                    *)
LoopsNeedInterference ==
  [][~ Loop(users) /\ Loop(users') =>
       \E s \in Slots : req[s].pc = "save" /\ ~ clean[s]]_vars

(* The other half of the check: an undisturbed walk refuses a move only if *)
(* the user stands above its new manager, where it would close a loop.     *)
RefusalsAreJustified ==
  [][\A s \in Slots : WalkMeetsTarget(s) /\ clean[s] =>
       Above(req[s].target, req[s].new.manager)]_vars

(* What ends a walk, whatever moves under it: each turn that does not end it *)
(* adds one of the users to those it has visited.                            *)
WalkAdvances ==
  [][\A s \in Slots : req[s].pc = "walk" /\ req'[s].pc = "walk" /\ req'[s] # req[s] =>
       \E u \in Ids \ req[s].visited : req'[s].visited = req[s].visited \cup {u}]_vars

(* The walk ends even when moves rewrite the tree under it and even when a *)
(* loop already exists above the new manager.                              *)
WalkEnds == \A s \in Slots : req[s].pc = "walk" ~> req[s].pc # "walk"

(* REQ-4.1.1 (handler.go:224-227): "any manager_id change is validated with *)
(* a DFS walk up the existing chain to reject moves that would create a     *)
(* circular reporting loop".                                                *)
NoReportingLoop == ~ Loop(users)

(* With one update at a time and no failing query, it is what the code says. *)
OneAtATime == \A s, t \in Slots : s # t => req[s] = Idle \/ req[t] = Idle
SerialSpec ==
  Init /\ [][Next /\ OneAtATime' /\ \A s \in Slots : ~ WalkFails(s)]_vars
=============================================================================
