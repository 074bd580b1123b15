-------------------------- MODULE ThreadPoolProofs --------------------------
(***************************************************************************)
(* The safety properties of ThreadPool, for any number of clients, workers *)
(* and tasks.  They follow from one inductive invariant, IInv, whose parts *)
(* say where a handle is (Places, Custody), who counts on it (Holding),    *)
(* who joins it (Joining), where its box is (Boxes), how far its holders   *)
(* are (Stages), and what is left when workers exit (Counting, Stopping).  *)
(***************************************************************************)
EXTENDS ThreadPool, FiniteSetTheorems, TLAPS

\* A thread has a handle in hand exactly while it executes a spawn or a join,
\* and a worker holds a popped handle until it releases it.
Places ==
  /\ \A a \in Actors : arg[a] # None <=> pc[a] \in CodeLabels \ {"code"}
  /\ \A w \in Workers :
       /\ cur[w] # None <=> pc[w] \in CodeLabels \union
                              {"popped", "set", "wake", "count", "release"}
       /\ pc[w] \notin ClientLabels
  /\ \A a \in Clients : pc[a] \notin WorkerLabels

\* The pool's reference has one custodian: one place in the queue, one worker
\* or one submitting thread.
Custody ==
  /\ IsInjective(queue)
  /\ \A w, v \in Workers : cur[w] = cur[v] /\ cur[w] # None => w = v
  /\ \A a, b \in Actors :
       pc[a] = "submit" /\ pc[b] = "submit" /\ arg[a] = arg[b] => a = b
  /\ \A w \in Workers : cur[w] \notin Range(queue)
  /\ \A a \in Actors : pc[a] = "submit" =>
       arg[a] \notin Range(queue) /\ \A w \in Workers : cur[w] # arg[a]

Holding ==
  /\ RefsExact
  /\ \A t \in Tasks : InCustody(t) \/ slot[t] => life[t] = "live"
  /\ \A t \in Tasks : life[t] = "live" /\ state[t] = "Running" => InCustody(t)

\* A joined handle is in the variable of the code that joins it.
Joining ==
  \A a \in Actors : pc[a] \in JoinLabels =>
    slot[arg[a]] /\ Parent[arg[a]] = Self(a)

Boxes ==
  \A t \in Tasks :
    /\ life[t] \in {"none", "absent"} => state[t] = "Running" /\ box[t] = "none"
    /\ state[t] = "Running" => box[t] \in {"none", "returned"} /\ life[t] # "freed"
    /\ state[t] = "Done" => box[t] = IF life[t] = "live" THEN "handle" ELSE "freed"
    /\ state[t] = "Consumed" => box[t] = "program"
    /\ state[t] = "Error" => box[t] = "none"

\* How far the threads that hold a handle are is what its state says.
Stages ==
  /\ \A t \in Tasks : t \in Range(queue) => state[t] = "Running" /\ box[t] = "none"
  /\ \A a \in Actors : pc[a] = "submit" => state[arg[a]] = "Running" /\ box[arg[a]] = "none"
  /\ \A w \in Workers : cur[w] # None =>
       /\ state[cur[w]] = "Running" <=> pc[w] \notin {"wake", "count", "release"}
       /\ box[cur[w]] = "returned" => pc[w] = "set"
  /\ \A a \in Actors : pc[a] = "take" => state[arg[a]] # "Running"
  /\ \A a \in Actors : pc[a] \in JoinLabels \ {"drop"} => state[arg[a]] # "Consumed"
  /\ \A t \in Tasks : state[t] = "Consumed" /\ slot[t] =>
       \E a \in Actors : pc[a] = "drop" /\ arg[a] = t

\* m_activeCount counts the workers between their increment and decrement.
Busy == {w \in Workers : pc[w] \in CodeLabels \union {"set", "wake", "count"}}

Counting == active = Cardinality(Busy)

Stopping ==
  /\ \A w \in Workers : pc[w] = "exited" => stop /\ queue = <<>>
  /\ \A a \in Clients : pc[a] = "drain" => \A w \in Workers : pc[w] = "exited"

IInv == TypeOK /\ Places /\ Custody /\ Holding /\ Joining /\ Boxes
        /\ Stages /\ Counting /\ Stopping
-----------------------------------------------------------------------------
(* Sequences without repetition                                            *)

LEMMA AppendRange ==
  ASSUME NEW S, NEW s \in Seq(S), NEW e \in S
  PROVE  /\ Append(s, e) \in Seq(S)
         /\ Range(Append(s, e)) = Range(s) \union {e}
         /\ IsInjective(s) /\ e \notin Range(s) => IsInjective(Append(s, e))
<1>1. /\ DOMAIN Append(s, e) = 1 .. Len(s) + 1
      /\ \A i \in 1 .. Len(s) : Append(s, e)[i] = s[i]
      /\ Append(s, e)[Len(s) + 1] = e
      /\ DOMAIN s = 1 .. Len(s)
      /\ Len(s) \in Nat
  OBVIOUS
<1>2. Range(Append(s, e)) = Range(s) \union {e}
  BY <1>1 DEF Range
<1>3. IsInjective(s) /\ e \notin Range(s) => IsInjective(Append(s, e))
  BY <1>1 DEF IsInjective, Range
<1> QED BY <1>2, <1>3

LEMMA TailRange ==
  ASSUME NEW S, NEW s \in Seq(S), s # <<>>, IsInjective(s)
  PROVE  /\ Head(s) \in Range(s) /\ Head(s) \in S
         /\ Tail(s) \in Seq(S)
         /\ Range(Tail(s)) = Range(s) \ {Head(s)}
         /\ IsInjective(Tail(s))
<1>1. /\ DOMAIN Tail(s) = 1 .. Len(s) - 1
      /\ \A i \in 1 .. Len(s) - 1 : Tail(s)[i] = s[i + 1]
      /\ DOMAIN s = 1 .. Len(s)
      /\ Len(s) \in Nat /\ Len(s) > 0
      /\ Head(s) = s[1] /\ Tail(s) \in Seq(S)
  OBVIOUS
<1>2. Head(s) \in Range(s) /\ Head(s) \in S
  BY <1>1 DEF Range
<1>3. IsInjective(Tail(s))
  BY <1>1 DEF IsInjective
<1>4. ASSUME NEW x \in Range(Tail(s)) PROVE x \in Range(s) \ {Head(s)}
  BY <1>1 DEF Range, IsInjective
<1>5. ASSUME NEW x \in Range(s) \ {Head(s)} PROVE x \in Range(Tail(s))
  <2>1. PICK i \in 1 .. Len(s) : s[i] = x /\ i # 1
    BY <1>1 DEF Range
  <2>2. i - 1 \in 1 .. Len(s) - 1 /\ Tail(s)[i - 1] = x
    BY <1>1, <2>1
  <2> QED BY <1>1, <2>2 DEF Range
<1> QED BY <1>1, <1>2, <1>3, <1>4, <1>5

-----------------------------------------------------------------------------
(* Facts most steps need                                                   *)

\* No two threads execute the same code.
LEMMA SelfUnique ==
  ASSUME IInv, NEW a \in Actors, NEW b \in Actors,
         pc[a] \in CodeLabels, pc[b] \in CodeLabels, Self(a) = Self(b)
  PROVE  a = b
BY PoolAssumption DEF IInv, TypeOK, Places, Custody, Self, Actors, Codes, ClientLabels

\* At most one thread joins a handle.
LEMMA JoinerUnique ==
  ASSUME IInv, NEW a \in Actors, NEW b \in Actors,
         pc[a] \in JoinLabels, pc[b] \in JoinLabels, arg[a] = arg[b]
  PROVE  a = b
BY SelfUnique DEF IInv, Joining, CodeLabels

\* A thread whose own code is at "code" joins nothing, nor does another for it.
LEMMA NoJoiner ==
  ASSUME IInv, NEW a \in Actors, pc[a] = "code",
         NEW t \in Tasks, Parent[t] = Self(a), NEW b \in Actors, pc[b] \in JoinLabels
  PROVE  arg[b] # t
<1> SUFFICES ASSUME arg[b] = t PROVE FALSE
  OBVIOUS
<1>1. Self(b) = Self(a)
  BY DEF IInv, Joining
<1>2. a = b
  BY <1>1, SelfUnique DEF CodeLabels
<1> QED BY <1>2 DEF JoinLabels

\* A handle in hand is a task's.
LEMMA HandleTypes ==
  ASSUME IInv
  PROVE  /\ \A a \in Actors : pc[a] \in CodeLabels \ {"code"} => arg[a] \in Tasks
         /\ \A w \in Workers : pc[w] \in CodeLabels \union
              {"popped", "set", "wake", "count", "release"} => cur[w] \in Tasks
BY DEF IInv, TypeOK, Places

LEMMA HoldingFrame ==
  ASSUME Holding, UNCHANGED <<queue, cur, handles>>,
         \A a \in Actors : /\ pc[a] = "submit" <=> pc'[a] = "submit"
                           /\ pc[a] = "submit" => arg'[a] = arg[a]
  PROVE  Holding'
<1>1. \A t \in Tasks : InCustody(t)' <=> InCustody(t)
  BY DEF InCustody
<1> QED BY <1>1 DEF Holding, RefsExact, handles

LEMMA CountingFrame ==
  ASSUME Counting, active' = active,
         \A w \in Workers :
           pc[w] \in CodeLabels \union {"set", "wake", "count"} <=>
           pc'[w] \in CodeLabels \union {"set", "wake", "count"}
  PROVE  Counting'
<1>1. Busy' = Busy
  BY DEF Busy
<1> QED BY <1>1 DEF Counting

-----------------------------------------------------------------------------
(* Every step preserves IInv                                               *)

LEMMA SpawnInv ==
  ASSUME IInv, NEW a \in Actors, NEW t \in Tasks, Spawn(a, t)
  PROVE  IInv'
<1> USE PoolAssumption DEF IInv, TypeOK, Actors, Spawn, MaySpawn, Goto, pool, handles,
        CodeLabels, JoinLabels, ClientLabels, WorkerLabels
<1>a. ~InCustody(t) /\ ~slot[t]
  BY DEF Holding
<1>b. /\ t \notin Range(queue)
      /\ \A w \in Workers : cur[w] # t
      /\ \A b \in Actors : pc[b] = "submit" => arg[b] # t
      /\ \A b \in Actors : pc[b] \in JoinLabels => arg[b] # t
  BY <1>a DEF InCustody, Joining
<1>c. \A u \in Tasks : InCustody(u)' <=> InCustody(u) \/ u = t
  BY <1>b DEF InCustody, Places
<1>1. TypeOK'
  OBVIOUS
<1>2. Places'
  BY HandleTypes DEF Places
<1>3. Custody'
  BY <1>b DEF Places, Custody
<1>4. Holding'
  <2>1. ASSUME NEW u \in Tasks, u # t
        PROVE  /\ life'[u] = life[u] /\ refs'[u] = refs[u] /\ slot'[u] = slot[u]
               /\ state'[u] = state[u] /\ (InCustody(u)' <=> InCustody(u))
    BY <1>c, <2>1
  <2>2. /\ life'[t] = "live" /\ InCustody(t)'
        /\ refs'[t] = (IF t \in Kept THEN 2 ELSE 1)
        /\ slot'[t] <=> t \in Kept
    BY <1>c
  <2>3. ASSUME NEW u \in Tasks, life'[u] = "live"
        PROVE  /\ refs'[u] = (IF InCustody(u)' THEN 1 ELSE 0) + (IF slot'[u] THEN 1 ELSE 0)
               /\ refs'[u] > 0
    <3>1. CASE u = t BY <2>2, <3>1
    <3>2. CASE u # t BY <2>1, <2>3, <3>2 DEF Holding, RefsExact
    <3> QED BY <3>1, <3>2
  <2>4. RefsExact'
    BY <2>3 DEF RefsExact
  <2> QED BY <2>1, <2>2, <2>4 DEF Holding
<1>5. Joining'
  BY <1>b DEF Places, Joining, Self
<1>6. Boxes'
  BY DEF Places, Boxes
<1>7. Stages'
  BY <1>b DEF Places, Custody, Stages, Boxes
<1>8. Counting'
  BY CountingFrame DEF Places
<1>9. Stopping'
  BY DEF Places, Stopping
<1> QED BY <1>1, <1>2, <1>3, <1>4, <1>5, <1>6, <1>7, <1>8, <1>9

LEMMA SpawnFailsInv ==
  ASSUME IInv, NEW a \in Actors, NEW t \in Tasks, SpawnFails(a, t)
  PROVE  IInv'
<1> USE PoolAssumption DEF IInv, TypeOK, Actors, SpawnFails, MaySpawn, Goto, pool, handles,
        CodeLabels, JoinLabels, ClientLabels, WorkerLabels
<1>a. ~InCustody(t) /\ ~slot[t]
  BY DEF Holding
<1>b. \A u \in Tasks : InCustody(u)' <=> InCustody(u)
  BY DEF InCustody
<1>1. TypeOK'
  OBVIOUS
<1>2. Places'
  BY HandleTypes DEF Places
<1>3. Custody'
  BY DEF Places, Custody
<1>4. Holding'
  BY <1>a, <1>b DEF Holding, RefsExact
<1>5. Joining'
  BY DEF Places, Joining, Self
<1>6. Boxes'
  BY DEF Places, Boxes
<1>7. Stages'
  BY DEF Places, Custody, Stages
<1>8. Counting'
  BY CountingFrame DEF Places
<1>9. Stopping'
  BY DEF Places, Stopping
<1> QED BY <1>1, <1>2, <1>3, <1>4, <1>5, <1>6, <1>7, <1>8, <1>9

LEMMA SubmitInv ==
  ASSUME IInv, NEW a \in Actors, Submit(a)
  PROVE  IInv'
<1> USE PoolAssumption DEF IInv, TypeOK, Actors, Submit, Goto, pool, handles,
        CodeLabels, JoinLabels, ClientLabels, WorkerLabels
<1>a. arg[a] \in Tasks
  BY HandleTypes
<1>b. /\ queue' \in Seq(Tasks)
      /\ Range(queue') = Range(queue) \union {arg[a]}
      /\ IsInjective(queue')
  BY <1>a, AppendRange DEF Custody
<1>c. \A u \in Tasks : InCustody(u)' <=> InCustody(u)
  BY <1>a, <1>b DEF InCustody, Custody
<1>1. TypeOK'
  BY <1>b
<1>2. Places'
  BY HandleTypes DEF Places
<1>3. Custody'
  BY <1>b DEF Places, Custody
<1>4. Holding'
  BY <1>c DEF Holding, RefsExact
<1>5. Joining'
  BY DEF Places, Joining, Self
<1>6. Boxes'
  BY DEF Places, Boxes
<1>7. Stages'
  BY <1>a, <1>b DEF Places, Custody, Stages
<1>8. Counting'
  BY CountingFrame DEF Places
<1>9. Stopping'
  BY DEF Places, Stopping
<1> QED BY <1>1, <1>2, <1>3, <1>4, <1>5, <1>6, <1>7, <1>8, <1>9

LEMMA SubmitRefusedInv ==
  ASSUME IInv, NEW a \in Actors, SubmitRefused(a)
  PROVE  IInv'
<1> USE PoolAssumption DEF IInv, TypeOK, Actors, SubmitRefused, Release, Goto, pool, handles,
        CodeLabels, JoinLabels, ClientLabels, WorkerLabels
<1>a. arg[a] \in Tasks
  BY HandleTypes
<1>b. life[arg[a]] = "live" /\ refs[arg[a]] \in {1, 2} /\ refs[arg[a]] - 1 \in 0 .. 2
  BY <1>a DEF Holding, RefsExact, InCustody
<1>c. \A u \in Tasks : InCustody(u)' <=> InCustody(u) /\ u # arg[a]
  BY <1>a DEF InCustody, Custody, Places
<1>1. TypeOK'
  BY <1>a, <1>b
<1>2. Places'
  BY HandleTypes DEF Places
<1>3. Custody'
  BY DEF Places, Custody
<1>4. Holding'
  <2>1. ASSUME NEW u \in Tasks, u # arg[a]
        PROVE  /\ life'[u] = life[u] /\ refs'[u] = refs[u] /\ slot'[u] = slot[u]
               /\ state'[u] = state[u] /\ (InCustody(u)' <=> InCustody(u))
    BY <1>a, <1>c, <2>1
  <2>2. PICK t \in Tasks : t = arg[a]
    BY <1>a
  <2>3. /\ ~InCustody(t)' /\ InCustody(t)
        /\ refs'[t] = refs[t] - 1
        /\ life'[t] = (IF refs[t] = 1 THEN "freed" ELSE "live")
        /\ state'[t] # "Running" /\ slot'[t] = slot[t]
    BY <1>a, <1>b, <1>c, <2>2 DEF InCustody
  <2>4. refs[t] = 1 + (IF slot[t] THEN 1 ELSE 0)
    BY <1>b, <2>2, <2>3 DEF Holding, RefsExact
  <2>5. ASSUME NEW u \in Tasks
        PROVE  /\ life'[u] = "live" =>
                    /\ refs'[u] = (IF InCustody(u)' THEN 1 ELSE 0) + (IF slot'[u] THEN 1 ELSE 0)
                    /\ refs'[u] > 0
               /\ InCustody(u)' \/ slot'[u] => life'[u] = "live"
               /\ life'[u] = "live" /\ state'[u] = "Running" => InCustody(u)'
    <3>1. CASE u = t BY <2>3, <2>4, <3>1
    <3>2. CASE u # t BY <2>1, <2>2, <3>2 DEF Holding, RefsExact
    <3> QED BY <3>1, <3>2
  <2> QED BY <2>5 DEF Holding, RefsExact
<1>5. Joining'
  BY DEF Places, Joining, Self
<1>6. Boxes'
  BY <1>a, <1>b DEF Places, Boxes, Stages
<1>7. Stages'
  BY <1>a, <1>b DEF Places, Custody, Stages
<1>8. Counting'
  BY CountingFrame DEF Places
<1>9. Stopping'
  BY DEF Places, Stopping
<1> QED BY <1>1, <1>2, <1>3, <1>4, <1>5, <1>6, <1>7, <1>8, <1>9

LEMMA NotifyInv ==
  ASSUME IInv, NEW a \in Actors, Notify(a)
  PROVE  IInv'
<1> USE PoolAssumption DEF IInv, TypeOK, Actors, Notify, WakeAndGoto, Awake, PoolSleepers, Goto, pool, handles,
        CodeLabels, JoinLabels, ClientLabels, WorkerLabels
<1>1. TypeOK'
  <2>1. CASE PoolSleepers = {}
    <3>1. pc' = [pc EXCEPT ![a] = "code"]
      BY <2>1
    <3> QED BY <3>1
  <2>2. CASE PoolSleepers # {}
    <3>1. PICK s \in PoolSleepers : WakeAndGoto({s}, a, "code")
      BY <2>2
    <3>2. pc' \in [Actors -> CodeLabels \union ClientLabels \union WorkerLabels]
      BY <3>1
    <3> QED BY <3>2
  <2> QED BY <2>1, <2>2
<1>2. Places'
  <2>1. \A b \in Actors : b # a => (pc'[b] \in CodeLabels \ {"code"} <=> pc[b] \in CodeLabels \ {"code"})
    OBVIOUS
  <2>2. \A w \in Workers : /\ pc'[w] \notin ClientLabels
                           /\ pc'[w] \in CodeLabels \union {"popped", "set", "wake", "count", "release"}
                              <=> pc[w] \in CodeLabels \union {"popped", "set", "wake", "count", "release"}
    BY DEF Places
  <2>3. \A b \in Clients : pc'[b] \notin WorkerLabels
    BY DEF Places
  <2>4. pc'[a] = "code" /\ arg' = [arg EXCEPT ![a] = None] /\ cur' = cur
    OBVIOUS
  <2> QED BY <2>1, <2>2, <2>3, <2>4 DEF Places
<1>3. Custody'
  BY DEF Places, Custody
<1>4. Holding'
  BY HoldingFrame DEF Places
<1>5. Joining'
  BY DEF Places, Joining, Self
<1>6. Boxes'
  BY DEF Places, Boxes
<1>7. Stages'
  <2>1. \A b \in Actors : /\ pc'[b] = "submit" <=> pc[b] = "submit"
                          /\ pc'[b] = "take" <=> pc[b] = "take"
                          /\ pc'[b] = "drop" <=> pc[b] = "drop"
                          /\ pc'[b] \in JoinLabels <=> pc[b] \in JoinLabels
                          /\ pc[b] \in JoinLabels \union {"submit"} => arg'[b] = arg[b]
    OBVIOUS
  <2>2. \A v \in Workers : cur[v] # None =>
          /\ pc'[v] \in {"wake", "count", "release"} <=> pc[v] \in {"wake", "count", "release"}
          /\ pc'[v] = "set" <=> pc[v] = "set"
    BY DEF Places
  <2> QED BY <2>1, <2>2 DEF Stages
<1>8. Counting'
  BY CountingFrame DEF Places
<1>9. Stopping'
  BY DEF Places, Stopping
<1> QED BY <1>1, <1>2, <1>3, <1>4, <1>5, <1>6, <1>7, <1>8, <1>9

LEMMA JoinInv ==
  ASSUME IInv, NEW a \in Actors, NEW t \in Tasks, Join(a, t)
  PROVE  IInv'
<1> USE PoolAssumption DEF IInv, TypeOK, Actors, Join, Goto, pool, handles,
        CodeLabels, JoinLabels, ClientLabels, WorkerLabels
<1>1. TypeOK'
  OBVIOUS
<1>2. Places'
  BY HandleTypes DEF Places
<1>3. Custody'
  BY DEF Places, Custody
<1>4. Holding'
  BY HoldingFrame DEF Places
<1>5. Joining'
  BY DEF Places, Joining, Self
<1>6. Boxes'
  BY DEF Places, Boxes
<1>7. Stages'
  BY NoJoiner DEF Places, Custody, Stages
<1>8. Counting'
  BY CountingFrame DEF Places
<1>9. Stopping'
  BY DEF Places, Stopping
<1> QED BY <1>1, <1>2, <1>3, <1>4, <1>5, <1>6, <1>7, <1>8, <1>9

LEMMA JoinCheckInv ==
  ASSUME IInv, NEW a \in Actors, JoinCheck(a)
  PROVE  IInv'
<1> USE PoolAssumption DEF IInv, TypeOK, Actors, JoinCheck, Goto, pool, handles,
        CodeLabels, JoinLabels, ClientLabels, WorkerLabels
<1>1. TypeOK'
  OBVIOUS
<1>2. Places'
  BY HandleTypes DEF Places
<1>3. Custody'
  BY DEF Places, Custody
<1>4. Holding'
  BY HoldingFrame DEF Places
<1>5. Joining'
  BY DEF Places, Joining, Self
<1>6. Boxes'
  BY DEF Places, Boxes
<1>7. Stages'
  BY DEF Places, Custody, Stages
<1>8. Counting'
  BY CountingFrame DEF Places
<1>9. Stopping'
  BY DEF Places, Stopping
<1> QED BY <1>1, <1>2, <1>3, <1>4, <1>5, <1>6, <1>7, <1>8, <1>9

LEMMA JoinSleepInv ==
  ASSUME IInv, NEW a \in Actors, JoinSleep(a)
  PROVE  IInv'
<1> USE PoolAssumption DEF IInv, TypeOK, Actors, JoinSleep, Goto, pool, handles,
        CodeLabels, JoinLabels, ClientLabels, WorkerLabels
<1>1. TypeOK'
  OBVIOUS
<1>2. Places'
  BY HandleTypes DEF Places
<1>3. Custody'
  BY DEF Places, Custody
<1>4. Holding'
  BY HoldingFrame DEF Places
<1>5. Joining'
  BY DEF Places, Joining, Self
<1>6. Boxes'
  BY DEF Places, Boxes
<1>7. Stages'
  BY DEF Places, Custody, Stages
<1>8. Counting'
  BY CountingFrame DEF Places
<1>9. Stopping'
  BY DEF Places, Stopping
<1> QED BY <1>1, <1>2, <1>3, <1>4, <1>5, <1>6, <1>7, <1>8, <1>9

LEMMA TakeInv ==
  ASSUME IInv, NEW a \in Actors, Take(a)
  PROVE  IInv'
<1> USE PoolAssumption DEF IInv, TypeOK, Actors, Take, Goto, pool, handles,
        CodeLabels, JoinLabels, ClientLabels, WorkerLabels
<1>a. \A b \in Actors : pc[b] \in JoinLabels /\ b # a => arg[b] # arg[a]
  BY JoinerUnique
<1>1. TypeOK'
  OBVIOUS
<1>2. Places'
  BY HandleTypes DEF Places
<1>3. Custody'
  BY DEF Places, Custody
<1>4. Holding'
  <2>1. arg[a] \in Tasks
    BY HandleTypes
  <2>2. \A u \in Tasks : InCustody(u)' <=> InCustody(u)
    BY DEF InCustody, Places
  <2> QED BY <2>1, <2>2 DEF Holding, RefsExact, Stages
<1>5. Joining'
  BY DEF Places, Joining, Self
<1>6. Boxes'
  BY HandleTypes DEF Places, Boxes, Stages
<1>7. Stages'
  BY <1>a, HandleTypes DEF Places, Custody, Stages, Boxes
<1>8. Counting'
  BY CountingFrame DEF Places
<1>9. Stopping'
  BY DEF Places, Stopping
<1> QED BY <1>1, <1>2, <1>3, <1>4, <1>5, <1>6, <1>7, <1>8, <1>9

LEMMA DropInv ==
  ASSUME IInv, NEW a \in Actors, Drop(a)
  PROVE  IInv'
<1> USE PoolAssumption DEF IInv, TypeOK, Actors, Drop, Release, Goto, pool, handles,
        CodeLabels, JoinLabels, ClientLabels, WorkerLabels
<1>a. arg[a] \in Tasks
  BY HandleTypes
<1>b. life[arg[a]] = "live" /\ refs[arg[a]] \in {1, 2} /\ refs[arg[a]] - 1 \in 0 .. 2
  BY <1>a DEF Holding, RefsExact, InCustody, Joining
<1>c. \A u \in Tasks : InCustody(u)' <=> InCustody(u)
  BY DEF InCustody, Places
<1>d. \A b \in Actors : pc[b] \in JoinLabels /\ b # a => arg[b] # arg[a]
  BY JoinerUnique
<1>e. slot[arg[a]]
  BY DEF Joining
<1>1. TypeOK'
  BY <1>a, <1>b
<1>2. Places'
  BY HandleTypes DEF Places
<1>3. Custody'
  BY DEF Places, Custody
<1>4. Holding'
  BY <1>a, <1>b, <1>c, <1>e DEF Holding, RefsExact
<1>5. Joining'
  BY <1>d DEF Places, Joining, Self
<1>6. Boxes'
  <2>1. state[arg[a]] # "Running" \/ refs[arg[a]] # 1
    BY <1>a, <1>b, <1>e DEF Holding, RefsExact
  <2>2. ASSUME NEW u \in Tasks, u # arg[a]
        PROVE  life'[u] = life[u] /\ box'[u] = box[u] /\ state'[u] = state[u]
    BY <2>2
  <2>3. /\ state'[arg[a]] = state[arg[a]]
        /\ life'[arg[a]] = IF refs[arg[a]] = 1 THEN "freed" ELSE "live"
        /\ box'[arg[a]] = IF refs[arg[a]] = 1 /\ state[arg[a]] # "Consumed" /\ box[arg[a]] = "handle"
                          THEN "freed" ELSE box[arg[a]]
    BY <1>a, <1>b
  <2> QED BY <1>a, <1>b, <2>1, <2>2, <2>3 DEF Boxes
<1>7. Stages'
  BY <1>a, <1>b, <1>d DEF Places, Custody, Stages, Boxes
<1>8. Counting'
  BY CountingFrame DEF Places
<1>9. Stopping'
  BY DEF Places, Stopping
<1> QED BY <1>1, <1>2, <1>3, <1>4, <1>5, <1>6, <1>7, <1>8, <1>9

LEMMA PopInv ==
  ASSUME IInv, NEW w \in Workers, Pop(w)
  PROVE  IInv'
<1> USE PoolAssumption DEF IInv, TypeOK, Actors, Pop, Goto, pool, handles,
        CodeLabels, JoinLabels, ClientLabels, WorkerLabels
<1>a. /\ Head(queue) \in Range(queue) /\ Head(queue) \in Tasks
      /\ queue' \in Seq(Tasks)
      /\ Range(queue') = Range(queue) \ {Head(queue)}
      /\ IsInjective(queue')
  BY TailRange DEF Custody
<1>b. cur[w] = None
  BY DEF Places
<1>c. \A u \in Tasks : InCustody(u)' <=> InCustody(u)
  BY <1>a, <1>b DEF InCustody, Places
<1>1. TypeOK'
  BY <1>a
<1>2. Places'
  BY <1>a DEF Places
<1>3. Custody'
  BY <1>a DEF Places, Custody
<1>4. Holding'
  BY <1>c DEF Holding, RefsExact
<1>5. Joining'
  BY <1>b DEF Places, Joining, Self
<1>6. Boxes'
  BY DEF Places, Boxes
<1>7. Stages'
  BY <1>a, <1>b DEF Places, Custody, Stages
<1>8. Counting'
  BY CountingFrame DEF Places
<1>9. Stopping'
  BY DEF Places, Stopping
<1> QED BY <1>1, <1>2, <1>3, <1>4, <1>5, <1>6, <1>7, <1>8, <1>9

LEMMA ExitInv ==
  ASSUME IInv, NEW w \in Workers, Exit(w)
  PROVE  IInv'
<1> USE PoolAssumption DEF IInv, TypeOK, Actors, Exit, Goto, pool, handles,
        CodeLabels, JoinLabels, ClientLabels, WorkerLabels
<1>1. TypeOK'
  OBVIOUS
<1>2. Places'
  BY HandleTypes DEF Places
<1>3. Custody'
  BY DEF Places, Custody
<1>4. Holding'
  BY HoldingFrame DEF Places
<1>5. Joining'
  BY DEF Places, Joining, Self
<1>6. Boxes'
  BY DEF Places, Boxes
<1>7. Stages'
  BY DEF Places, Custody, Stages
<1>8. Counting'
  BY CountingFrame DEF Places
<1>9. Stopping'
  BY DEF Places, Stopping
<1> QED BY <1>1, <1>2, <1>3, <1>4, <1>5, <1>6, <1>7, <1>8, <1>9

LEMMA IdleDozeInv ==
  ASSUME IInv, NEW w \in Workers, IdleDoze(w)
  PROVE  IInv'
<1> USE PoolAssumption DEF IInv, TypeOK, Actors, IdleDoze, Goto, pool, handles,
        CodeLabels, JoinLabels, ClientLabels, WorkerLabels
<1>1. TypeOK'
  OBVIOUS
<1>2. Places'
  BY HandleTypes DEF Places
<1>3. Custody'
  BY DEF Places, Custody
<1>4. Holding'
  BY HoldingFrame DEF Places
<1>5. Joining'
  BY DEF Places, Joining, Self
<1>6. Boxes'
  BY DEF Places, Boxes
<1>7. Stages'
  BY DEF Places, Custody, Stages
<1>8. Counting'
  BY CountingFrame DEF Places
<1>9. Stopping'
  BY DEF Places, Stopping
<1> QED BY <1>1, <1>2, <1>3, <1>4, <1>5, <1>6, <1>7, <1>8, <1>9

LEMMA IdleSleepInv ==
  ASSUME IInv, NEW w \in Workers, IdleSleep(w)
  PROVE  IInv'
<1> USE PoolAssumption DEF IInv, TypeOK, Actors, IdleSleep, Goto, pool, handles,
        CodeLabels, JoinLabels, ClientLabels, WorkerLabels
<1>1. TypeOK'
  OBVIOUS
<1>2. Places'
  BY HandleTypes DEF Places
<1>3. Custody'
  BY DEF Places, Custody
<1>4. Holding'
  BY HoldingFrame DEF Places
<1>5. Joining'
  BY DEF Places, Joining, Self
<1>6. Boxes'
  BY DEF Places, Boxes
<1>7. Stages'
  BY DEF Places, Custody, Stages
<1>8. Counting'
  BY CountingFrame DEF Places
<1>9. Stopping'
  BY DEF Places, Stopping
<1> QED BY <1>1, <1>2, <1>3, <1>4, <1>5, <1>6, <1>7, <1>8, <1>9

LEMMA RunInv ==
  ASSUME IInv, NEW w \in Workers, Run(w)
  PROVE  IInv'
<1> USE PoolAssumption DEF IInv, TypeOK, Actors, Run, Goto, pool, handles,
        CodeLabels, JoinLabels, ClientLabels, WorkerLabels
<1>1. TypeOK'
  OBVIOUS
<1>2. Places'
  BY HandleTypes DEF Places
<1>3. Custody'
  BY DEF Places, Custody
<1>4. Holding'
  BY HoldingFrame DEF Places
<1>5. Joining'
  BY DEF Places, Joining, Self
<1>6. Boxes'
  BY DEF Places, Boxes
<1>7. Stages'
  BY DEF Places, Custody, Stages
<1>8. Counting'
  <2>1. Busy' = Busy \union {w} /\ w \notin Busy /\ IsFiniteSet(Busy)
    BY FS_Subset DEF Busy
  <2>2. Cardinality(Busy') = Cardinality(Busy) + 1
    BY <2>1, FS_AddElement
  <2> QED BY <2>2 DEF Counting
<1>9. Stopping'
  BY DEF Places, Stopping
<1> QED BY <1>1, <1>2, <1>3, <1>4, <1>5, <1>6, <1>7, <1>8, <1>9

LEMMA ReturnInv ==
  ASSUME IInv, NEW w \in Workers, Return(w)
  PROVE  IInv'
<1> USE PoolAssumption DEF IInv, TypeOK, Actors, Return, Goto, pool, handles,
        CodeLabels, JoinLabels, ClientLabels, WorkerLabels
<1>a. cur[w] \in Tasks
  BY HandleTypes
<1>1. TypeOK'
  OBVIOUS
<1>2. Places'
  BY HandleTypes DEF Places
<1>3. Custody'
  BY DEF Places, Custody
<1>4. Holding'
  <2>1. \A u \in Tasks : InCustody(u)' <=> InCustody(u)
    BY DEF InCustody, Places
  <2> QED BY <2>1 DEF Holding, RefsExact
<1>5. Joining'
  BY DEF Places, Joining, Self
<1>6. Boxes'
  BY <1>a DEF Places, Boxes, Stages, Holding, InCustody
<1>7. Stages'
  BY <1>a DEF Places, Custody, Stages
<1>8. Counting'
  BY CountingFrame DEF Places
<1>9. Stopping'
  BY DEF Places, Stopping
<1> QED BY <1>1, <1>2, <1>3, <1>4, <1>5, <1>6, <1>7, <1>8, <1>9

LEMMA SetInv ==
  ASSUME IInv, NEW w \in Workers, Set(w)
  PROVE  IInv'
<1> USE PoolAssumption DEF IInv, TypeOK, Actors, Set, Goto, pool, handles,
        CodeLabels, JoinLabels, ClientLabels, WorkerLabels
<1>a. cur[w] \in Tasks
  BY HandleTypes
<1>b. life[cur[w]] = "live"
  BY <1>a DEF Holding, InCustody
<1>c. \A u \in Tasks : InCustody(u)' <=> InCustody(u)
  BY DEF InCustody, Places
<1>1. TypeOK'
  <2>1. state' \in [Tasks -> {"Running", "Done", "Consumed", "Error"}]
    BY <1>a
  <2>2. box' \in [Tasks -> {"none", "returned", "handle", "program", "freed"}]
    BY <1>a
  <2>3. pc' \in [Actors -> CodeLabels \union ClientLabels \union WorkerLabels]
    OBVIOUS
  <2> QED BY <2>1, <2>2, <2>3
<1>2. Places'
  BY HandleTypes DEF Places
<1>3. Custody'
  BY DEF Places, Custody
<1>4. Holding'
  BY <1>a, <1>c DEF Holding, RefsExact
<1>5. Joining'
  BY DEF Places, Joining, Self
<1>6. Boxes'
  BY <1>a, <1>b DEF Places, Boxes, Stages
<1>7. Stages'
  BY <1>a DEF Places, Custody, Stages, Boxes
<1>8. Counting'
  BY CountingFrame DEF Places
<1>9. Stopping'
  BY DEF Places, Stopping
<1> QED BY <1>1, <1>2, <1>3, <1>4, <1>5, <1>6, <1>7, <1>8, <1>9

LEMMA WakeInv ==
  ASSUME IInv, NEW w \in Workers, Wake(w)
  PROVE  IInv'
<1> USE PoolAssumption DEF IInv, TypeOK, Actors, Wake, WakeAndGoto, Awake, Joiners, Goto, pool, handles,
        CodeLabels, JoinLabels, ClientLabels, WorkerLabels
<1>1. TypeOK'
  OBVIOUS
<1>2. Places'
  BY HandleTypes DEF Places
<1>3. Custody'
  BY DEF Places, Custody
<1>4. Holding'
  BY HoldingFrame DEF Places
<1>5. Joining'
  BY DEF Places, Joining, Self
<1>6. Boxes'
  BY DEF Places, Boxes
<1>7. Stages'
  <2>1. \A b \in Actors : /\ pc'[b] = "submit" <=> pc[b] = "submit"
                          /\ pc'[b] = "take" <=> pc[b] = "take"
                          /\ pc'[b] = "drop" <=> pc[b] = "drop"
                          /\ pc'[b] \in JoinLabels <=> pc[b] \in JoinLabels
                          /\ pc[b] \in JoinLabels \union {"submit"} => arg'[b] = arg[b]
    OBVIOUS
  <2>2. \A v \in Workers : cur[v] # None =>
          /\ pc'[v] \in {"wake", "count", "release"} <=> pc[v] \in {"wake", "count", "release"}
          /\ pc'[v] = "set" <=> pc[v] = "set"
    BY DEF Places
  <2>3. UNCHANGED <<cur, queue, state, box, slot>>
    OBVIOUS
  <2>4. \A v \in Workers : cur'[v] # None =>
          /\ state'[cur'[v]] = "Running" <=> pc'[v] \notin {"wake", "count", "release"}
          /\ box'[cur'[v]] = "returned" => pc'[v] = "set"
    BY <2>2, <2>3 DEF Stages
  <2>5. /\ \A b \in Actors : pc'[b] = "submit" =>
              state'[arg'[b]] = "Running" /\ box'[arg'[b]] = "none"
        /\ \A b \in Actors : pc'[b] = "take" => state'[arg'[b]] # "Running"
        /\ \A b \in Actors : pc'[b] \in JoinLabels \ {"drop"} => state'[arg'[b]] # "Consumed"
    BY <2>1, <2>3 DEF Stages
  <2>6. \A t \in Tasks : t \in Range(queue') => state'[t] = "Running" /\ box'[t] = "none"
    BY <2>3 DEF Stages
  <2>7. ASSUME NEW t \in Tasks, state[t] = "Consumed", slot[t]
        PROVE  \E b \in Actors : pc'[b] = "drop" /\ arg'[b] = t
    <3>1. PICK b \in Actors : pc[b] = "drop" /\ arg[b] = t
      BY <2>7 DEF Stages
    <3> QED BY <2>1, <3>1
  <2>8. \A t \in Tasks : state'[t] = "Consumed" /\ slot'[t] =>
          \E b \in Actors : pc'[b] = "drop" /\ arg'[b] = t
    BY ONLY <2>3, <2>7
  <2> QED BY <2>4, <2>5, <2>6, <2>8 DEF Stages
<1>8. Counting'
  BY CountingFrame DEF Places
<1>9. Stopping'
  BY DEF Places, Stopping
<1> QED BY <1>1, <1>2, <1>3, <1>4, <1>5, <1>6, <1>7, <1>8, <1>9

LEMMA CountInv ==
  ASSUME IInv, NEW w \in Workers, Count(w)
  PROVE  IInv'
<1> USE PoolAssumption DEF IInv, TypeOK, Actors, Count, Goto, pool, handles,
        CodeLabels, JoinLabels, ClientLabels, WorkerLabels
<1>a. Busy' = Busy \ {w} /\ w \in Busy /\ IsFiniteSet(Busy)
  BY FS_Subset DEF Busy
<1>b. Cardinality(Busy') = Cardinality(Busy) - 1 /\ Cardinality(Busy') \in Nat
  BY <1>a, FS_RemoveElement, FS_Subset, FS_CardinalityType
<1>c. active' = Cardinality(Busy')
  BY <1>b DEF Counting
<1>1. TypeOK'
  BY <1>b, <1>c
<1>2. Places'
  BY HandleTypes DEF Places
<1>3. Custody'
  BY DEF Places, Custody
<1>4. Holding'
  BY HoldingFrame DEF Places
<1>5. Joining'
  BY DEF Places, Joining, Self
<1>6. Boxes'
  BY DEF Places, Boxes
<1>7. Stages'
  BY DEF Places, Custody, Stages
<1>8. Counting'
  BY <1>c DEF Counting
<1>9. Stopping'
  BY DEF Places, Stopping
<1> QED BY <1>1, <1>2, <1>3, <1>4, <1>5, <1>6, <1>7, <1>8, <1>9

LEMMA ReleaseTaskInv ==
  ASSUME IInv, NEW w \in Workers, ReleaseTask(w)
  PROVE  IInv'
<1> USE PoolAssumption DEF IInv, TypeOK, Actors, ReleaseTask, Release, Goto, pool, handles,
        CodeLabels, JoinLabels, ClientLabels, WorkerLabels
<1>a. cur[w] \in Tasks
  BY HandleTypes
<1>b. life[cur[w]] = "live" /\ refs[cur[w]] \in {1, 2} /\ refs[cur[w]] - 1 \in 0 .. 2
  BY <1>a DEF Holding, RefsExact, InCustody
<1>c. \A u \in Tasks : InCustody(u)' <=> InCustody(u) /\ u # cur[w]
  BY <1>a DEF InCustody, Custody, Places
<1>d. state[cur[w]] # "Running"
  BY <1>a DEF Stages, Places
<1>1. TypeOK'
  BY <1>a, <1>b
<1>2. Places'
  BY HandleTypes DEF Places
<1>3. Custody'
  <2>1. /\ cur'[w] = None
        /\ \A v \in Workers : v # w => cur'[v] = cur[v]
        /\ \A b \in Actors : pc'[b] = "submit" => pc[b] = "submit"
        /\ None \notin Range(queue)
    BY DEF Range
  <2>2. \A b \in Actors : pc[b] = "submit" => arg[b] # None
    BY DEF Places
  <2> QED BY <2>1, <2>2 DEF Custody
<1>4. Holding'
  <2>1. ASSUME NEW u \in Tasks, u # cur[w]
        PROVE  /\ life'[u] = life[u] /\ refs'[u] = refs[u] /\ slot'[u] = slot[u]
               /\ state'[u] = state[u] /\ (InCustody(u)' <=> InCustody(u))
    BY <1>a, <1>c, <2>1
  <2>2. PICK t \in Tasks : t = cur[w]
    BY <1>a
  <2>3. /\ ~InCustody(t)' /\ InCustody(t)
        /\ refs'[t] = refs[t] - 1
        /\ life'[t] = (IF refs[t] = 1 THEN "freed" ELSE "live")
        /\ state'[t] # "Running" /\ slot'[t] = slot[t]
    BY <1>a, <1>b, <1>c, <2>2, <1>d DEF InCustody
  <2>4. refs[t] = 1 + (IF slot[t] THEN 1 ELSE 0)
    BY <1>b, <2>2, <2>3 DEF Holding, RefsExact
  <2>5. ASSUME NEW u \in Tasks
        PROVE  /\ life'[u] = "live" =>
                    /\ refs'[u] = (IF InCustody(u)' THEN 1 ELSE 0) + (IF slot'[u] THEN 1 ELSE 0)
                    /\ refs'[u] > 0
               /\ InCustody(u)' \/ slot'[u] => life'[u] = "live"
               /\ life'[u] = "live" /\ state'[u] = "Running" => InCustody(u)'
    <3>1. CASE u = t BY <2>3, <2>4, <3>1
    <3>2. CASE u # t BY <2>1, <2>2, <3>2 DEF Holding, RefsExact
    <3> QED BY <3>1, <3>2
  <2> QED BY <2>5 DEF Holding, RefsExact
<1>5. Joining'
  BY DEF Places, Joining, Self
<1>6. Boxes'
  BY <1>a, <1>b, <1>d DEF Boxes
<1>7. Stages'
  BY <1>a, <1>b, <1>d DEF Places, Custody, Stages, Boxes
<1>8. Counting'
  BY CountingFrame DEF Places
<1>9. Stopping'
  BY DEF Places, Stopping
<1> QED BY <1>1, <1>2, <1>3, <1>4, <1>5, <1>6, <1>7, <1>8, <1>9

LEMMA NotifyAllInv ==
  ASSUME IInv, NEW w \in Workers, NotifyAll(w)
  PROVE  IInv'
<1> USE PoolAssumption DEF IInv, TypeOK, Actors, NotifyAll, WakeAndGoto, Awake, PoolSleepers, Goto, pool, handles,
        CodeLabels, JoinLabels, ClientLabels, WorkerLabels
<1>1. TypeOK'
  OBVIOUS
<1>2. Places'
  BY HandleTypes DEF Places
<1>3. Custody'
  BY DEF Places, Custody
<1>4. Holding'
  BY HoldingFrame DEF Places
<1>5. Joining'
  BY DEF Places, Joining, Self
<1>6. Boxes'
  BY DEF Places, Boxes
<1>7. Stages'
  BY DEF Places, Custody, Stages
<1>8. Counting'
  BY CountingFrame DEF Places
<1>9. Stopping'
  BY DEF Places, Stopping
<1> QED BY <1>1, <1>2, <1>3, <1>4, <1>5, <1>6, <1>7, <1>8, <1>9

LEMMA WaitAllInv ==
  ASSUME IInv, NEW a \in Clients, WaitAll(a)
  PROVE  IInv'
<1> USE PoolAssumption DEF IInv, TypeOK, Actors, WaitAll, Goto, pool, handles,
        CodeLabels, JoinLabels, ClientLabels, WorkerLabels
<1>1. TypeOK'
  OBVIOUS
<1>2. Places'
  BY HandleTypes DEF Places
<1>3. Custody'
  BY DEF Places, Custody
<1>4. Holding'
  BY HoldingFrame DEF Places
<1>5. Joining'
  BY DEF Places, Joining, Self
<1>6. Boxes'
  BY DEF Places, Boxes
<1>7. Stages'
  BY DEF Places, Custody, Stages
<1>8. Counting'
  BY CountingFrame DEF Places
<1>9. Stopping'
  BY DEF Places, Stopping
<1> QED BY <1>1, <1>2, <1>3, <1>4, <1>5, <1>6, <1>7, <1>8, <1>9

LEMMA WaitCheckInv ==
  ASSUME IInv, NEW a \in Clients, WaitCheck(a)
  PROVE  IInv'
<1> USE PoolAssumption DEF IInv, TypeOK, Actors, WaitCheck, Goto, pool, handles,
        CodeLabels, JoinLabels, ClientLabels, WorkerLabels
<1>1. TypeOK'
  OBVIOUS
<1>2. Places'
  BY HandleTypes DEF Places
<1>3. Custody'
  BY DEF Places, Custody
<1>4. Holding'
  BY HoldingFrame DEF Places
<1>5. Joining'
  BY DEF Places, Joining, Self
<1>6. Boxes'
  BY DEF Places, Boxes
<1>7. Stages'
  BY DEF Places, Custody, Stages
<1>8. Counting'
  BY CountingFrame DEF Places
<1>9. Stopping'
  BY DEF Places, Stopping
<1> QED BY <1>1, <1>2, <1>3, <1>4, <1>5, <1>6, <1>7, <1>8, <1>9

LEMMA WaitSleepInv ==
  ASSUME IInv, NEW a \in Clients, WaitSleep(a)
  PROVE  IInv'
<1> USE PoolAssumption DEF IInv, TypeOK, Actors, WaitSleep, Goto, pool, handles,
        CodeLabels, JoinLabels, ClientLabels, WorkerLabels
<1>1. TypeOK'
  OBVIOUS
<1>2. Places'
  BY HandleTypes DEF Places
<1>3. Custody'
  BY DEF Places, Custody
<1>4. Holding'
  BY HoldingFrame DEF Places
<1>5. Joining'
  BY DEF Places, Joining, Self
<1>6. Boxes'
  BY DEF Places, Boxes
<1>7. Stages'
  BY DEF Places, Custody, Stages
<1>8. Counting'
  BY CountingFrame DEF Places
<1>9. Stopping'
  BY DEF Places, Stopping
<1> QED BY <1>1, <1>2, <1>3, <1>4, <1>5, <1>6, <1>7, <1>8, <1>9

LEMMA HaltInv ==
  ASSUME IInv, NEW a \in Clients, Halt(a)
  PROVE  IInv'
<1> USE PoolAssumption DEF IInv, TypeOK, Actors, Halt, Goto, pool, handles,
        CodeLabels, JoinLabels, ClientLabels, WorkerLabels
<1>1. TypeOK'
  OBVIOUS
<1>2. Places'
  BY HandleTypes DEF Places
<1>3. Custody'
  BY DEF Places, Custody
<1>4. Holding'
  BY HoldingFrame DEF Places
<1>5. Joining'
  BY DEF Places, Joining, Self
<1>6. Boxes'
  BY DEF Places, Boxes
<1>7. Stages'
  BY DEF Places, Custody, Stages
<1>8. Counting'
  BY CountingFrame DEF Places
<1>9. Stopping'
  BY DEF Places, Stopping
<1> QED BY <1>1, <1>2, <1>3, <1>4, <1>5, <1>6, <1>7, <1>8, <1>9

LEMMA HaltNotifyInv ==
  ASSUME IInv, NEW a \in Clients, HaltNotify(a)
  PROVE  IInv'
<1> USE PoolAssumption DEF IInv, TypeOK, Actors, HaltNotify, WakeAndGoto, Awake, PoolSleepers, Goto, pool, handles,
        CodeLabels, JoinLabels, ClientLabels, WorkerLabels
<1>1. TypeOK'
  OBVIOUS
<1>2. Places'
  BY HandleTypes DEF Places
<1>3. Custody'
  BY DEF Places, Custody
<1>4. Holding'
  BY HoldingFrame DEF Places
<1>5. Joining'
  BY DEF Places, Joining, Self
<1>6. Boxes'
  BY DEF Places, Boxes
<1>7. Stages'
  <2>1. \A b \in Actors : /\ pc'[b] = "submit" <=> pc[b] = "submit"
                          /\ pc'[b] = "take" <=> pc[b] = "take"
                          /\ pc'[b] = "drop" <=> pc[b] = "drop"
                          /\ pc'[b] \in JoinLabels <=> pc[b] \in JoinLabels
                          /\ pc[b] \in JoinLabels \union {"submit"} => arg'[b] = arg[b]
    OBVIOUS
  <2>2. \A v \in Workers : cur[v] # None =>
          /\ pc'[v] \in {"wake", "count", "release"} <=> pc[v] \in {"wake", "count", "release"}
          /\ pc'[v] = "set" <=> pc[v] = "set"
    BY DEF Places
  <2> QED BY <2>1, <2>2 DEF Stages
<1>8. Counting'
  BY CountingFrame DEF Places
<1>9. Stopping'
  BY DEF Places, Stopping
<1> QED BY <1>1, <1>2, <1>3, <1>4, <1>5, <1>6, <1>7, <1>8, <1>9

LEMMA ReapInv ==
  ASSUME IInv, NEW a \in Clients, Reap(a)
  PROVE  IInv'
<1> USE PoolAssumption DEF IInv, TypeOK, Actors, Reap, Goto, pool, handles,
        CodeLabels, JoinLabels, ClientLabels, WorkerLabels
<1>1. TypeOK'
  OBVIOUS
<1>2. Places'
  BY HandleTypes DEF Places
<1>3. Custody'
  BY DEF Places, Custody
<1>4. Holding'
  BY HoldingFrame DEF Places
<1>5. Joining'
  BY DEF Places, Joining, Self
<1>6. Boxes'
  BY DEF Places, Boxes
<1>7. Stages'
  BY DEF Places, Custody, Stages
<1>8. Counting'
  BY CountingFrame DEF Places
<1>9. Stopping'
  BY DEF Places, Stopping
<1> QED BY <1>1, <1>2, <1>3, <1>4, <1>5, <1>6, <1>7, <1>8, <1>9

\* When the workers are gone the queue is empty: the drain cancels nothing.
LEMMA DrainQuiet ==
  ASSUME IInv, NEW a \in Clients, Drain(a)
  PROVE  /\ UNCHANGED <<arg, cur, pool, handles>>
         /\ pc' = [pc EXCEPT ![a] = "code"]
<1>1. queue = <<>> /\ Range(queue) = {}
  BY PoolAssumption DEF IInv, Stopping, Drain, Range
<1>2. state' = state /\ refs' = refs /\ life' = life /\ queue' = queue
  BY <1>1 DEF Drain, IInv, TypeOK
<1>3. pc' = [pc EXCEPT ![a] = "code"]
  <2>1. UNION {Joiners(t) : t \in Range(queue)} = {}
    BY <1>1
  <2> QED BY <2>1 DEF Drain, WakeAndGoto, IInv, TypeOK, Actors
<1> QED BY <1>2, <1>3 DEF Drain, pool, handles

LEMMA DrainInv ==
  ASSUME IInv, NEW a \in Clients, Drain(a)
  PROVE  IInv'
<1>1. /\ UNCHANGED <<arg, cur, pool, handles>>
      /\ pc[a] = "drain" /\ pc' = [pc EXCEPT ![a] = "code"]
  BY DrainQuiet DEF Drain
<1> USE PoolAssumption DEF IInv, TypeOK, Actors, pool, handles,
        CodeLabels, JoinLabels, ClientLabels, WorkerLabels
<1>2. TypeOK'
  BY <1>1
<1>6. Places' /\ Custody'
  BY <1>1 DEF Places, Custody
<1>3. Holding' /\ Counting'
  BY <1>1, HoldingFrame, CountingFrame DEF Places
<1>4. Joining' /\ Boxes'
  BY <1>1 DEF Places, Joining, Boxes, Self
<1>5. Stages' /\ Stopping'
  BY <1>1 DEF Places, Stages, Stopping
<1> QED BY <1>2, <1>3, <1>4, <1>5, <1>6

LEMMA SpuriousWakeInv ==
  ASSUME IInv, NEW a \in Actors, SpuriousWake(a)
  PROVE  IInv'
<1> USE PoolAssumption DEF IInv, TypeOK, Actors, SpuriousWake, Awake, Goto, pool, handles,
        CodeLabels, JoinLabels, ClientLabels, WorkerLabels
<1>1. TypeOK'
  OBVIOUS
<1>2. Places'
  BY HandleTypes DEF Places
<1>3. Custody'
  BY DEF Places, Custody
<1>4. Holding'
  BY HoldingFrame DEF Places
<1>5. Joining'
  BY DEF Places, Joining, Self
<1>6. Boxes'
  BY DEF Places, Boxes
<1>7. Stages'
  BY DEF Places, Custody, Stages
<1>8. Counting'
  BY CountingFrame DEF Places
<1>9. Stopping'
  BY DEF Places, Stopping
<1> QED BY <1>1, <1>2, <1>3, <1>4, <1>5, <1>6, <1>7, <1>8, <1>9

-----------------------------------------------------------------------------
LEMMA InitInv == Init => IInv
<1> SUFFICES ASSUME Init PROVE IInv
  OBVIOUS
<1> USE PoolAssumption DEF Init, Actors, CodeLabels, JoinLabels, ClientLabels, WorkerLabels
<1>1. TypeOK
  <2>1. pc \in [Actors -> CodeLabels \union ClientLabels \union WorkerLabels]
    OBVIOUS
  <2>2. queue \in Seq(Tasks) /\ 0 \in 0 .. 2
    OBVIOUS
  <2> QED BY <2>1, <2>2 DEF TypeOK
<1>2. Range(queue) = {} /\ IsInjective(queue)
  BY DEF Range, IsInjective
<1>3. Places /\ Custody /\ Joining /\ Boxes /\ Stages /\ Stopping
  BY <1>2 DEF Places, Custody, Joining, Boxes, Stages, Stopping
<1>4. Holding
  BY <1>2 DEF Holding, RefsExact, InCustody
<1>5. Counting
  <2>1. Busy = {}
    BY DEF Busy
  <2> QED BY <2>1, FS_EmptySet DEF Counting
<1> QED BY <1>1, <1>3, <1>4, <1>5 DEF IInv

LEMMA StutterInv ==
  ASSUME IInv, UNCHANGED vars
  PROVE  IInv'
<1>1. TypeOK' /\ Places' /\ Custody' /\ Joining' /\ Boxes' /\ Stages' /\ Stopping'
  BY DEF IInv, vars, TypeOK, Places, Custody, Joining, Self, Boxes, Stages, Stopping
<1>2. Holding'
  BY HoldingFrame DEF IInv, vars, handles
<1>3. Counting'
  BY CountingFrame DEF IInv, vars
<1> QED BY <1>1, <1>2, <1>3 DEF IInv

LEMMA NextInv == IInv /\ [Next]_vars => IInv'
<1> SUFFICES ASSUME IInv, [Next]_vars PROVE IInv'
  OBVIOUS
<1>1. CASE UNCHANGED vars
  BY <1>1, StutterInv
<1>2. ASSUME NEW a \in Actors, CallStep(a) PROVE IInv'
  BY <1>2, SubmitInv, SubmitRefusedInv, NotifyInv, JoinCheckInv, JoinSleepInv, TakeInv, DropInv
     DEF CallStep
<1>3. ASSUME NEW a \in Actors, CodeStep(a) PROVE IInv'
  BY <1>3, SpawnInv, SpawnFailsInv, JoinInv DEF CodeStep
<1>4. ASSUME NEW a \in Actors, SpuriousWake(a) PROVE IInv'
  BY <1>4, SpuriousWakeInv
<1>5. ASSUME NEW w \in Workers, WorkerStep(w) PROVE IInv'
  BY <1>5, PopInv, ExitInv, IdleDozeInv, IdleSleepInv, RunInv, ReturnInv, SetInv, WakeInv,
     CountInv, ReleaseTaskInv, NotifyAllInv
     DEF WorkerStep
<1>6. ASSUME NEW a \in Clients, ClientCall(a) PROVE IInv'
  BY <1>6, WaitAllInv, HaltInv DEF ClientCall
<1>7. ASSUME NEW a \in Clients, ClientStep(a) PROVE IInv'
  BY <1>7, WaitCheckInv, WaitSleepInv, HaltNotifyInv, ReapInv, DrainInv DEF ClientStep
<1> QED BY <1>1, <1>2, <1>3, <1>4, <1>5, <1>6, <1>7 DEF Next

\* IInv is an inductive invariant.
THEOREM Invariance == Spec => []IInv
<1> QED BY InitInv, NextInv, PTL DEF Spec

-----------------------------------------------------------------------------
(* The theorems                                                            *)

\* Every variable keeps its type; m_activeCount never goes below zero and no
\* handle ever has more than the pool's and the program's reference.
THEOREM TypeCorrect == Spec => []TypeOK
<1>1. IInv => TypeOK
  BY DEF IInv
<1> QED BY <1>1, Invariance, PTL

\* No release ever deletes a ThreadHandle that a queue, a worker, a submitting
\* thread or a joiner still uses.
THEOREM HandlesLive == Spec => []NoUseAfterFree
<1>1. IInv => NoUseAfterFree
  <2> SUFFICES ASSUME IInv PROVE NoUseAfterFree
    OBVIOUS
  <2>1. \A a \in Actors : pc[a] \in JoinLabels => arg[a] \in Tasks /\ slot[arg[a]]
    BY HandleTypes DEF IInv, Joining, CodeLabels, JoinLabels
  <2> QED BY <2>1 DEF IInv, Holding, NoUseAfterFree
<1> QED BY <1>1, Invariance, PTL

\* The refcount of a live ThreadHandle is exactly the number of its holders.
THEOREM RefcountExact == Spec => []RefsExact
<1>1. IInv => RefsExact
  BY DEF IInv, Holding
<1> QED BY <1>1, Invariance, PTL

\* A deleted handle leaves no result box behind, and the box of a consumed one
\* is the program's and only the program's.
THEOREM BoxSafe == Spec => []BoxFollowsHandle
<1>1. IInv => BoxFollowsHandle
  <2> SUFFICES ASSUME IInv, NEW t \in Tasks
      PROVE  /\ life[t] = "freed" => box[t] \notin {"returned", "handle"}
             /\ state[t] = "Consumed" <=> box[t] = "program"
    BY DEF BoxFollowsHandle
  <2>1. state[t] \in {"Running", "Done", "Consumed", "Error"}
    BY DEF IInv, TypeOK
  <2> QED BY <2>1 DEF IInv, TypeOK, Boxes
<1> QED BY <1>1, Invariance, PTL

\* __lucid_join reads the outcome of a settled task, and only once.
THEOREM JoinOutcome == Spec => []JoinSeesOutcome
<1>1. IInv => JoinSeesOutcome
  <2> SUFFICES ASSUME IInv, NEW a \in Actors, pc[a] = "take"
      PROVE  \/ state[arg[a]] = "Done" /\ box[arg[a]] = "handle"
             \/ state[arg[a]] = "Error" /\ box[arg[a]] = "none"
    BY DEF JoinSeesOutcome
  <2>1. arg[a] \in Tasks /\ slot[arg[a]]
    BY HandleTypes DEF IInv, Joining, CodeLabels, JoinLabels
  <2>2. life[arg[a]] = "live"
    BY <2>1 DEF IInv, Holding
  <2>3. state[arg[a]] \in {"Done", "Error"}
    BY <2>1 DEF IInv, TypeOK, Stages, JoinLabels
  <2> QED BY <2>1, <2>2, <2>3 DEF IInv, Boxes
<1> QED BY <1>1, Invariance, PTL

\* When ThreadPool::shutdown has joined its workers, every accepted task has
\* been run: the drain that follows finds nothing to cancel.
THEOREM ShutdownComplete == Spec => []ShutdownRunsAccepted
<1>1. IInv => ShutdownRunsAccepted
  <2> SUFFICES ASSUME IInv, NEW a \in Actors, pc[a] = "drain"
      PROVE  /\ queue = <<>>
             /\ \A t \in Tasks : life[t] # "none" /\ state[t] = "Running" =>
                  life[t] = "absent" \/ \E b \in Actors : pc[b] = "submit" /\ arg[b] = t
    BY DEF ShutdownRunsAccepted
  <2>1. a \in Clients
    BY DEF IInv, Places, Actors, ClientLabels
  <2>2. queue = <<>> /\ \A w \in Workers : pc[w] = "exited"
    BY <2>1, PoolAssumption DEF IInv, Stopping
  <2>3. Range(queue) = {} /\ \A w \in Workers : cur[w] = None
    BY <2>2 DEF IInv, Places, Range, CodeLabels, JoinLabels
  <2>4. ASSUME NEW t \in Tasks, life[t] # "none", state[t] = "Running", life[t] # "absent"
        PROVE  \E b \in Actors : pc[b] = "submit" /\ arg[b] = t
    <3>1. InCustody(t)
      BY <2>4 DEF IInv, TypeOK, Boxes, Holding
    <3> QED BY <3>1, <2>3, PoolAssumption DEF InCustody
  <2> QED BY <2>2, <2>4
<1> QED BY <1>1, Invariance, PTL

-----------------------------------------------------------------------------
(* ThreadPool implements TaskLifecycle                                     *)

LEMMA PhaseFrame ==
  ASSUME UNCHANGED <<cur, stop, life, state, box>>
  PROVE  UNCHANGED Lifecycle!vars
BY DEF Phase, Owner, Lifecycle!vars

\* A step that moves the phase of t alone.
LEMMA PhaseStep ==
  ASSUME NEW t \in Tasks, NEW from, NEW to, Phase(t) = from, Phase(t)' = to,
         \A u \in Tasks : u # t => Phase(u)' = Phase(u)
  PROVE  Lifecycle!Become(t, from, to)
BY DEF Lifecycle!Become

\* A step that moves no box, as far as TaskLifecycle can see.
LEMMA OwnerFrame ==
  ASSUME \A u \in Tasks : Owner(u)' = Owner(u)
  PROVE  [u \in Tasks |-> Owner(u)]' = [u \in Tasks |-> Owner(u)]
OBVIOUS

LEMMA PhasesFrame ==
  ASSUME \A u \in Tasks : Phase(u)' = Phase(u)
  PROVE  [u \in Tasks |-> Phase(u)]' = [u \in Tasks |-> Phase(u)]
OBVIOUS

\* Releasing a reference to t is a Settle(t, "freed") or nothing.
LEMMA ReleaseMaps ==
  ASSUME IInv, NEW t \in Tasks, life[t] = "live", Release(t), UNCHANGED <<stop, state>>,
         \A u \in Tasks : Phase(u)' = Phase(u)
  PROVE  [Lifecycle!Next]_(Lifecycle!vars)
<1>1. UNCHANGED [u \in Tasks |-> Phase(u)]
  BY PhasesFrame
<1>2. CASE box' = box
  <2>1. \A u \in Tasks : Owner(u)' = Owner(u)
    BY <1>2 DEF Owner
  <2> QED BY <1>1, <2>1, OwnerFrame DEF Lifecycle!vars
<1>3. CASE box' # box
  <2>1. box[t] = "handle" /\ box' = [box EXCEPT ![t] = "freed"]
    BY <1>3 DEF Release, IInv, TypeOK
  <2>2. Owner(t) = "runtime" /\ Owner(t)' = "freed" /\ \A u \in Tasks : u # t => Owner(u)' = Owner(u)
    BY <2>1 DEF Owner, IInv, TypeOK
  <2>3. Lifecycle!Settle(t, "freed")
    BY <1>1, <2>2 DEF Lifecycle!Settle
  <2> QED BY <2>3 DEF Lifecycle!Next
<1> QED BY <1>2, <1>3

LEMMA SpawnMaps ==
  ASSUME IInv, NEW a \in Actors, NEW t \in Tasks, Spawn(a, t)
  PROVE  Lifecycle!Next
<1>1. life[t] = "none" /\ state[t] = "Running" /\ \A w \in Workers : cur[w] # t
  BY DEF IInv, Holding, InCustody, Boxes, Spawn, MaySpawn
<1>2. Phase(t) = "new" /\ Phase(t)' = "queued" /\ \A u \in Tasks : u # t => Phase(u)' = Phase(u)
  BY <1>1 DEF Phase, Spawn, IInv, TypeOK
<1>3. \A u \in Tasks : Owner(u)' = Owner(u)
  BY DEF Owner, Spawn
<1>4. Lifecycle!Submit(t)
  BY <1>2, <1>3, PhaseStep, OwnerFrame DEF Lifecycle!Submit, Spawn, pool
<1> QED BY <1>4 DEF Lifecycle!Next

LEMMA SpawnFailsMaps ==
  ASSUME IInv, NEW a \in Actors, NEW t \in Tasks, SpawnFails(a, t)
  PROVE  UNCHANGED Lifecycle!vars
<1>1. \A u \in Tasks : Phase(u)' = Phase(u) /\ Owner(u)' = Owner(u)
  BY DEF Phase, Owner, SpawnFails, MaySpawn, IInv, TypeOK
<1> QED BY <1>1, PhasesFrame, OwnerFrame DEF Lifecycle!vars, SpawnFails, pool

LEMMA SubmitRefusedMaps ==
  ASSUME IInv, NEW a \in Actors, SubmitRefused(a)
  PROVE  Lifecycle!Next
<1>1. PICK t \in Tasks : t = arg[a]
  BY HandleTypes DEF SubmitRefused, CodeLabels
<1>2. life[t] = "live" /\ state[t] = "Running" /\ box[t] = "none" /\ \A w \in Workers : cur[w] # t
  BY <1>1 DEF IInv, Holding, InCustody, Stages, Custody, SubmitRefused
<1>3. Phase(t) = "queued" /\ Phase(t)' = "failed" /\ \A u \in Tasks : u # t => Phase(u)' = Phase(u)
  BY <1>1, <1>2 DEF Phase, SubmitRefused, Release, IInv, TypeOK
<1>4. \A u \in Tasks : Owner(u)' = Owner(u)
  BY <1>1, <1>2 DEF Owner, SubmitRefused, Release, IInv, TypeOK
<1>5. Lifecycle!Cancel(t)
  BY <1>1, <1>3, <1>4, PhaseStep, OwnerFrame DEF Lifecycle!Cancel, SubmitRefused, pool
<1> QED BY <1>1, <1>5 DEF Lifecycle!Next

LEMMA TakeMaps ==
  ASSUME IInv, NEW a \in Actors, Take(a)
  PROVE  [Lifecycle!Next]_(Lifecycle!vars)
<1> DEFINE t == arg[a]
<1>1. t \in Tasks
  BY HandleTypes DEF Take, CodeLabels, JoinLabels
<1>2. \A u \in Tasks : Phase(u)' = Phase(u)
  BY <1>1 DEF Phase, Take, IInv, TypeOK
<1>3. CASE state[t] = "Done"
  <2>1. life[t] = "live"
    BY <1>1 DEF IInv, Joining, Holding, Take, JoinLabels
  <2>2. Owner(t) = "runtime" /\ Owner(t)' = "program" /\ \A u \in Tasks : u # t => Owner(u)' = Owner(u)
    BY <1>1, <1>3, <2>1 DEF Owner, Take, IInv, TypeOK, Boxes
  <2>3. Lifecycle!Settle(t, "program")
    BY <1>1, <1>2, <2>2, PhasesFrame DEF Lifecycle!Settle, Take, pool
  <2> QED BY <1>1, <2>3 DEF Lifecycle!Next
<1>4. CASE state[t] # "Done"
  BY <1>4, PhaseFrame DEF Take, pool
<1> QED BY <1>3, <1>4

LEMMA DropMaps ==
  ASSUME IInv, NEW a \in Actors, Drop(a)
  PROVE  [Lifecycle!Next]_(Lifecycle!vars)
<1>1. arg[a] \in Tasks
  BY HandleTypes DEF Drop, CodeLabels, JoinLabels
<1>2. life[arg[a]] = "live"
  BY <1>1 DEF IInv, Joining, Holding, Drop, JoinLabels
<1>3. \A u \in Tasks : Phase(u)' = Phase(u)
  BY <1>1, <1>2 DEF Phase, Drop, Release, IInv, TypeOK
<1> QED BY <1>1, <1>2, <1>3, ReleaseMaps DEF Drop, pool

LEMMA ReleaseTaskMaps ==
  ASSUME IInv, NEW w \in Workers, ReleaseTask(w)
  PROVE  [Lifecycle!Next]_(Lifecycle!vars)
<1>1. cur[w] \in Tasks
  BY HandleTypes DEF ReleaseTask
<1>2. life[cur[w]] = "live" /\ state[cur[w]] \in {"Done", "Consumed", "Error"}
  BY <1>1, PoolAssumption DEF IInv, TypeOK, Holding, InCustody, Stages, ReleaseTask, Actors
<1>3. \A u \in Tasks : Phase(u)' = Phase(u)
  <2>1. ASSUME NEW u \in Tasks, u = cur[w] PROVE Phase(u)' = Phase(u)
    BY <1>1, <1>2, <2>1 DEF Phase, ReleaseTask, Release, IInv, TypeOK
  <2>2. ASSUME NEW u \in Tasks, u # cur[w] PROVE Phase(u)' = Phase(u)
    <3>1. (\E v \in Workers : cur'[v] = u) <=> (\E v \in Workers : cur[v] = u)
      BY <2>2, PoolAssumption DEF ReleaseTask, IInv, TypeOK
    <3>2. life'[u] = life[u] /\ state'[u] = state[u]
      BY <2>2 DEF ReleaseTask, Release, IInv, TypeOK
    <3> QED BY <3>1, <3>2 DEF Phase
  <2> QED BY <2>1, <2>2
<1> QED BY <1>1, <1>2, <1>3, ReleaseMaps DEF ReleaseTask, pool

LEMMA PopMaps ==
  ASSUME IInv, NEW w \in Workers, Pop(w)
  PROVE  Lifecycle!Next
<1>1. PICK t \in Tasks : t = Head(queue) /\ t \in Range(queue)
  BY TailRange DEF Pop, IInv, TypeOK, Custody
<1>2. /\ life[t] = "live" /\ state[t] = "Running" /\ cur[w] = None
      /\ \A v \in Workers : cur[v] # t
  BY <1>1 DEF IInv, Holding, InCustody, Stages, Custody, Places, Pop, CodeLabels, JoinLabels
<1>3. Phase(t) = "queued" /\ Phase(t)' = "running"
  BY <1>1, <1>2 DEF Phase, Pop, IInv, TypeOK, handles
<1>4. ASSUME NEW u \in Tasks, u # t PROVE Phase(u)' = Phase(u)
  <2>1. (\E v \in Workers : cur'[v] = u) <=> (\E v \in Workers : cur[v] = u)
    BY <1>1, <1>2, <1>4, PoolAssumption DEF Pop, IInv, TypeOK
  <2> QED BY <2>1 DEF Phase, Pop, handles
<1>5. \A u \in Tasks : Owner(u)' = Owner(u)
  BY DEF Owner, Pop, handles
<1>6. Lifecycle!Start(t)
  BY <1>1, <1>3, <1>4, <1>5, PhaseStep, OwnerFrame DEF Lifecycle!Start, Pop
<1> QED BY <1>1, <1>6 DEF Lifecycle!Next

LEMMA ReturnMaps ==
  ASSUME IInv, NEW w \in Workers, Return(w)
  PROVE  UNCHANGED Lifecycle!vars
<1>1. cur[w] \in Tasks
  BY HandleTypes DEF Return, CodeLabels
<1>2. box[cur[w]] \in {"none", "returned"}
  BY <1>1, PoolAssumption DEF IInv, Boxes, Stages, Return
<1>3. \A u \in Tasks : Phase(u)' = Phase(u) /\ Owner(u)' = Owner(u)
  BY <1>1, <1>2 DEF Phase, Owner, Return, IInv, TypeOK
<1> QED BY <1>3, PhasesFrame, OwnerFrame DEF Lifecycle!vars, Return, pool

LEMMA SetMaps ==
  ASSUME IInv, NEW w \in Workers, Set(w)
  PROVE  Lifecycle!Next
<1> DEFINE t == cur[w]
<1>1. t \in Tasks
  BY HandleTypes DEF Set
<1>2. life[t] = "live" /\ state[t] = "Running" /\ box[t] \in {"none", "returned"}
  BY <1>1, PoolAssumption DEF IInv, Holding, InCustody, Boxes, Stages, Set
<1>3. Phase(t) = "running" /\ \A u \in Tasks : u # t => Phase(u)' = Phase(u)
  BY <1>1, <1>2 DEF Phase, Set, IInv, TypeOK
<1>4. CASE box[t] = "returned"
  <2>1. Phase(t)' = "succeeded"
    BY <1>1, <1>2, <1>4 DEF Phase, Set, IInv, TypeOK
  <2>2. Owner(t)' = "runtime" /\ \A u \in Tasks : u # t => Owner(u)' = Owner(u)
    BY <1>1, <1>4 DEF Owner, Set, IInv, TypeOK
  <2>3. Lifecycle!Succeed(t)
    BY <1>1, <1>3, <2>1, <2>2, PhaseStep DEF Lifecycle!Succeed, Set, pool
  <2> QED BY <1>1, <2>3 DEF Lifecycle!Next
<1>5. CASE box[t] = "none"
  <2>1. Phase(t)' = "failed"
    BY <1>1, <1>2, <1>5 DEF Phase, Set, IInv, TypeOK
  <2>2. \A u \in Tasks : Owner(u)' = Owner(u)
    BY <1>5 DEF Owner, Set
  <2>3. Lifecycle!Fail(t)
    BY <1>1, <1>3, <2>1, <2>2, PhaseStep, OwnerFrame DEF Lifecycle!Fail, Set, pool
  <2> QED BY <1>1, <2>3 DEF Lifecycle!Next
<1> QED BY <1>2, <1>4, <1>5

LEMMA HaltMaps ==
  ASSUME NEW a \in Clients, Halt(a)
  PROVE  Lifecycle!Next
<1>1. Lifecycle!Close
  BY DEF Lifecycle!Close, Halt, handles, Phase, Owner
<1> QED BY <1>1 DEF Lifecycle!Next

LEMMA StepMaps == IInv /\ [Next]_vars => [Lifecycle!Next]_(Lifecycle!vars)
<1> SUFFICES ASSUME IInv, [Next]_vars PROVE [Lifecycle!Next]_(Lifecycle!vars)
  OBVIOUS
<1>1. CASE UNCHANGED vars
  BY <1>1, PhaseFrame DEF vars
<1>2. ASSUME NEW a \in Actors, CallStep(a) PROVE [Lifecycle!Next]_(Lifecycle!vars)
  <2>1. CASE Submit(a) \/ Notify(a) \/ JoinCheck(a) \/ JoinSleep(a)
    BY <2>1, PhaseFrame DEF Submit, Notify, JoinCheck, JoinSleep, pool, handles
  <2> QED BY <1>2, <2>1, SubmitRefusedMaps, TakeMaps, DropMaps DEF CallStep
<1>3. ASSUME NEW a \in Actors, CodeStep(a) PROVE [Lifecycle!Next]_(Lifecycle!vars)
  <2>1. ASSUME NEW t \in Tasks, Join(a, t) PROVE UNCHANGED Lifecycle!vars
    BY <2>1, PhaseFrame DEF Join, pool, handles
  <2> QED BY <1>3, <2>1, SpawnMaps, SpawnFailsMaps DEF CodeStep
<1>4. ASSUME NEW a \in Actors, SpuriousWake(a) PROVE [Lifecycle!Next]_(Lifecycle!vars)
  BY <1>4, PhaseFrame DEF SpuriousWake, pool, handles
<1>5. ASSUME NEW w \in Workers, WorkerStep(w) PROVE [Lifecycle!Next]_(Lifecycle!vars)
  <2>1. CASE Exit(w) \/ IdleDoze(w) \/ IdleSleep(w) \/ Run(w) \/ Wake(w) \/ Count(w) \/ NotifyAll(w)
    BY <2>1, PhaseFrame DEF Exit, IdleDoze, IdleSleep, Run, Wake, Count, NotifyAll, pool, handles
  <2> QED BY <1>5, <2>1, PopMaps, ReturnMaps, SetMaps, ReleaseTaskMaps DEF WorkerStep
<1>6. ASSUME NEW a \in Clients, ClientCall(a) PROVE [Lifecycle!Next]_(Lifecycle!vars)
  <2>1. CASE WaitAll(a)
    BY <2>1, PhaseFrame DEF WaitAll, pool, handles
  <2> QED BY <1>6, <2>1, HaltMaps DEF ClientCall
<1>7. ASSUME NEW a \in Clients, ClientStep(a) PROVE [Lifecycle!Next]_(Lifecycle!vars)
  <2>1. CASE WaitCheck(a) \/ WaitSleep(a) \/ HaltNotify(a) \/ Reap(a)
    BY <2>1, PhaseFrame DEF WaitCheck, WaitSleep, HaltNotify, Reap, pool, handles
  <2>2. CASE Drain(a)
    BY <2>2, PhaseFrame, DrainQuiet DEF pool, handles
  <2> QED BY <1>7, <2>1, <2>2 DEF ClientStep
<1> QED BY <1>1, <1>2, <1>3, <1>4, <1>5, <1>6, <1>7 DEF Next

\* The thread pool implements TaskLifecycle: a task runs at most once and only
\* after it was submitted, fails without running only if the pool is stopping,
\* and its box goes to the program or to the allocator, once.
THEOREM Refinement == Spec => ImplementsLifecycle
<1>1. Init => Lifecycle!Init
  BY DEF Init, Lifecycle!Init, Phase, Owner
<1> QED BY <1>1, StepMaps, Invariance, PTL DEF Spec, ImplementsLifecycle, Lifecycle!Spec
=============================================================================
