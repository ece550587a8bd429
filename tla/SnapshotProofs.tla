--------------------------- MODULE SnapshotProofs ---------------------------
(* The promises of CreateSnapshot, of either driver, for any number of names,*)
(* volumes, handlers, failures and restarts.                                 *)
EXTENDS Snapshot, TLAPS

\* A handler that runs has a name and is at a point of its call; nothing creates
\* what is being deleted or has been.
Calls == \A r \in Reqs :
    /\ pc[r] = "idle" <=> name[r] = NoName
    /\ pc[r] \in CreatePoints \cup {"start"} => op[r] = "create" /\ vol[r] \in Vols
    /\ pc[r] # "idle" /\ op[r] = "create" => name[r] \notin deleted
    /\ pc[r] = "delete" => op[r] = "delete" /\ name[r] \in deleted
    /\ pc[r] = "list" => op[r] = "list"
    /\ pc[r] \in {"copy", "waitCopy", "delTemp", "getCopy"} => name[r] \in remote
    /\ v2 /\ pc[r] \in CreatePoints => name[r] \notin remote

\* In the first driver one handler at a time creates the snapshot of a name, and
\* it holds the lock.
LockInv ==
    /\ ~v2 => \A r, q \in Reqs :
          pc[r] \in CreatePoints /\ pc[q] \in CreatePoints /\ name[r] = name[q] => r = q
    /\ volumeLocks = {n \in Names : ~v2 /\ \E r \in Reqs : pc[r] \in CreatePoints /\ name[r] = n}

\* A snapshot of a volume is of that volume.
SourcesFit == \A i \in Ids : snap[i].src \in Vols => snap[i].of = snap[i].src

\* What a handler relies on between two calls to ARM.
Progress == \A r \in Reqs :
    /\ pc[r] \in {"wait", "get"} /\ name[r] \notin remote => snap[S(name[r])].of = vol[r]
    /\ pc[r] = "get" /\ name[r] \notin remote /\ (v2 \/ shouldWaitForSnapshotReady) =>
          snap[S(name[r])].done
    /\ pc[r] \in {"delTemp", "getCopy"} => snap[S(name[r])].done
    /\ pc[r] = "getCopy" /\ name[r] \notin stray => snap[Local(name[r])] = None

\* The inductive invariant.
IInv == TypeOK /\ Calls /\ LockInv /\ SourcesFit /\ TemporaryKept /\ Progress /\ SnapshotKept

-----------------------------------------------------------------------------
(* Snapshots and their ids.                                                  *)

\* What distinguishes a snapshot from none.
LEMMA NoneFacts ==
    /\ None.of = NoVol /\ None.src = NoVol /\ ~None.done
    /\ None \notin Snapshots
    /\ \A s \in Snapshots : /\ s.of \in Vols /\ s.src \in Vols \cup Ids /\ s.at \in 0 .. MaxWrites
                            /\ s.ready \in BOOLEAN /\ s.done \in BOOLEAN /\ s # None
  BY SnapshotAssumption DEF None, Snapshots

\* The two ids of a name are its own and different.
LEMMA IdFacts ==
    /\ \A n \in Names : S(n) \in Ids /\ Local(n) \in Ids
    /\ \A n, m \in Names : /\ S(n) # Local(m)
                           /\ S(n) = S(m) => n = m
                           /\ Local(n) = Local(m) => n = m
  BY DEF Ids, S, Local

\* A snapshot that exists is left as it is.
SameData(s, t) == t.of = s.of /\ t.src = s.src /\ t.at = s.at /\ (s.done => t.done)

\* What ARM makes, or finds, under an id.
LEMMA TakenFacts ==
    ASSUME TypeOK, NEW i \in Ids, NEW src \in Vols \cup Ids, SourceThere(src)
    PROVE  /\ Taken(i, src) \in Snapshots
           /\ [Taken(i, src) EXCEPT !.ready = FALSE] \in Snapshots
           /\ snap[i] # None => SameData(snap[i], Taken(i, src))
           /\ snap[i] = None => /\ Taken(i, src).src = src
                                /\ [Taken(i, src) EXCEPT !.ready = FALSE].src = src
                                /\ src \in Vols => /\ Taken(i, src).of = src
                                                   /\ [Taken(i, src) EXCEPT !.ready = FALSE].of = src
<1>1. snap[i] \in Snapshots \cup {None} /\ clock \in 0 .. MaxWrites
  BY DEF TypeOK
<1>2. CASE snap[i] # None
  <2>1. snap[i] \in Snapshots
    BY <1>1, <1>2
  <2>2. Taken(i, src) = [snap[i] EXCEPT !.ready = TRUE]
    BY <1>2 DEF Taken
  <2>3. QED
    BY <1>2, <2>1, <2>2 DEF Snapshots, SameData
<1>3. CASE snap[i] = None
  <2> DEFINE of == IF src \in Ids THEN snap[src].of ELSE src
             at == IF src \in Ids THEN snap[src].at ELSE clock
  <2>1. of \in Vols /\ at \in 0 .. MaxWrites
    <3>1. CASE src \in Ids
      <4>1. snap[src] \in Snapshots
        BY <3>1 DEF TypeOK, SourceThere
      <4>2. QED
        BY <3>1, <4>1, NoneFacts
    <3>2. CASE src \notin Ids
      BY <1>1, <3>2
    <3>3. QED
      BY <3>1, <3>2
  <2>2. src \in Vols => of = src
    BY SourceAssumption
  <2>3. Taken(i, src) = [of |-> of, src |-> src, at |-> at, ready |-> TRUE, done |-> FALSE]
    BY <1>3 DEF Taken
  <2> HIDE DEF of, at
  <2>a. Taken(i, src) \in Snapshots
    BY <2>1, <2>3 DEF Snapshots
  <2>b. \A t \in Snapshots : [t EXCEPT !.ready = FALSE] \in Snapshots
    BY DEF Snapshots
  <2>4. Taken(i, src) \in Snapshots /\ [Taken(i, src) EXCEPT !.ready = FALSE] \in Snapshots
    BY <2>a, <2>b
  <2>5. /\ Taken(i, src).src = src /\ Taken(i, src).of = of
        /\ [Taken(i, src) EXCEPT !.ready = FALSE].src = src
        /\ [Taken(i, src) EXCEPT !.ready = FALSE].of = of
    BY <2>3
  <2>6. QED
    BY <1>3, <2>2, <2>4, <2>5
<1>4. QED
  BY <1>2, <1>3

\* What a call to ARM for the id may have done: the snapshot under it is kept, and
\* a new one is sound.
Kept(i) == snap[i] # None => snap'[i] \in Snapshots /\ SameData(snap[i], snap'[i])
Sound(i) == snap'[i].src \in Vols => snap'[i].of = snap'[i].src
Others(i) == \A j \in Ids : j # i => snap'[j] = snap[j]

\* Asking ARM for a snapshot, answered or failed.
LEMMA CreateEffect ==
    ASSUME TypeOK, SourcesFit, NEW i \in Ids, NEW src \in Vols \cup Ids,
           CreateOk(i, src) \/ CreateFails(i, src)
    PROVE  /\ snap' \in [Ids -> Snapshots \cup {None}]
           /\ Kept(i) /\ Sound(i) /\ Others(i)
           /\ CreateOk(i, src) => snap'[i] \in Snapshots /\ snap'[i].src = src
           /\ faults' \in 0 .. MaxFaults
<1>1. snap \in [Ids -> Snapshots \cup {None}] /\ faults \in 0 .. MaxFaults
  BY DEF TypeOK
<1>2. faults' \in 0 .. MaxFaults
  BY <1>1, SnapshotAssumption DEF CreateOk, CreateFails, Faulty
<1>3. CASE UNCHANGED snap /\ ~CreateOk(i, src)
  BY <1>1, <1>2, <1>3 DEF Kept, Sound, Others, SourcesFit, SameData
<1>4. CASE CreateOk(i, src)
  <2>1. SourceThere(src) /\ snap' = [snap EXCEPT ![i] = Taken(i, src)] /\ ~OtherSource(i, src)
    BY <1>4 DEF CreateOk
  <2>2. snap'[i] = Taken(i, src) /\ Taken(i, src) \in Snapshots
    BY <1>1, <2>1, TakenFacts
  <2>3. snap' \in [Ids -> Snapshots \cup {None}] /\ Others(i)
    BY <1>1, <2>1, <2>2 DEF Others
  <2>4. Kept(i)
    BY <2>1, <2>2, TakenFacts DEF Kept
  <2>c. CASE snap[i] = None
    <3>1. Taken(i, src).src = src /\ (src \in Vols => Taken(i, src).of = src)
      BY <2>1, <2>c, TakenFacts
    <3>2. QED
      BY <1>2, <2>2, <2>3, <2>4, <3>1 DEF Sound
  <2>d. CASE snap[i] # None
    <3>1. Taken(i, src).src = snap[i].src /\ Taken(i, src).of = snap[i].of
      BY <2>1, <2>d, TakenFacts DEF SameData
    <3>2. snap[i].src = src /\ (src \in Vols => snap[i].of = src)
      BY <2>1, <2>d DEF OtherSource, SourcesFit
    <3>3. QED
      BY <1>2, <2>2, <2>3, <2>4, <3>1, <3>2 DEF Sound
  <2>7. QED
    BY <2>c, <2>d
<1>5. CASE /\ snap[i] = None /\ SourceThere(src) /\ ~CreateOk(i, src)
           /\ snap' = [snap EXCEPT ![i] = [Taken(i, src) EXCEPT !.ready = FALSE]]
  <2> DEFINE t == [Taken(i, src) EXCEPT !.ready = FALSE]
  <2>1. t \in Snapshots /\ t.src = src /\ (src \in Vols => t.of = src)
    BY <1>5, TakenFacts
  <2>2. snap' = [snap EXCEPT ![i] = t]
    BY <1>5
  <2> HIDE DEF t
  <2>3. snap' \in [Ids -> Snapshots \cup {None}] /\ snap'[i] = t /\ Others(i)
    BY <1>1, <2>1, <2>2 DEF Others
  <2>4. QED
    BY <1>2, <1>5, <2>1, <2>3 DEF Kept, Sound
<1>6. QED
  BY <1>3, <1>4, <1>5 DEF CreateFails, Faulty

-----------------------------------------------------------------------------
(* How a handler moves.                                                      *)

\* It keeps its entry of volumeLocks, or the lack of one, takes it or lets it go.
KeepsLock(r, to) ==
    volumeLocks' = volumeLocks /\ (v2 \/ (pc[r] \in CreatePoints <=> to \in CreatePoints))
TakesLock(r, to) ==
    /\ ~v2 /\ name[r] \notin volumeLocks /\ volumeLocks' = volumeLocks \cup {name[r]}
    /\ pc[r] \notin CreatePoints /\ to \in CreatePoints
DropsLock(r, to) ==
    volumeLocks' = volumeLocks \ {name[r]} /\ pc[r] \in CreatePoints /\ to \notin CreatePoints

\* The handler goes to a point of its call.
Moves(r, to) ==
    /\ to \in PCs \ {"idle", "start", "delete", "list"} /\ pc[r] \notin {"idle", "ok", "err"}
    /\ Goto(r, to) /\ deleted' = deleted
    /\ KeepsLock(r, to) \/ TakesLock(r, to) \/ DropsLock(r, to)
    /\ to \in CreatePoints => pc[r] \in CreatePoints \cup {"start"}
    /\ to \in {"copy", "waitCopy", "delTemp", "getCopy"} => name[r] \in remote
    /\ v2 /\ to \in CreatePoints => name[r] \notin remote

\* What it may do to ARM and to the answers: the snapshots of other names are left
\* alone, and only two points remove one.
Effect(r) ==
    LET n == name[r] IN
    /\ \A i \in Ids : i # S(n) /\ i # Local(n) => snap'[i] = snap[i]
    /\ Kept(S(n)) \/ pc[r] = "delete"
    /\ Kept(Local(n)) \/ pc[r] = "delTemp"
    /\ snap'[Local(n)] # snap[Local(n)] => pc[r] \in CreatePoints
    /\ \A m \in Names : m # n => (m \in stray' <=> m \in stray)
    /\ stray' # stray => pc[r] \in CreatePoints
    /\ told' # told => /\ snap' = snap /\ snap[S(n)] # None
                       /\ told' = [told EXCEPT ![n] = snap[S(n)]]

\* What it relies on where it arrives.
Relies(r, to) ==
    LET n == name[r] IN
    /\ to \in {"wait", "get"} /\ n \notin remote => snap'[S(n)].of = vol[r]
    /\ to = "get" /\ n \notin remote /\ (v2 \/ shouldWaitForSnapshotReady) => snap'[S(n)].done
    /\ to \in {"delTemp", "getCopy"} => snap'[S(n)].done
    /\ to = "getCopy" /\ n \notin stray' => snap'[Local(n)] = None
    /\ ~v2 /\ n \in remote /\ to \in {"wait", "get", "copy", "waitCopy"} => snap'[Local(n)] # None

\* A handler that moves has a name.
LEMMA MoveFacts ==
    ASSUME TypeOK, Calls, NEW r \in Reqs, NEW to, Moves(r, to)
    PROVE  /\ name[r] \in Names
           /\ pc' \in [Reqs -> PCs] /\ pc'[r] = to /\ \A q \in Reqs : q # r => pc'[q] = pc[q]
           /\ UNCHANGED <<op, name, vol, source, remote, incremental, v2,
                          shouldWaitForSnapshotReady, deleted>>
  BY DEF Moves, Goto, TypeOK, Calls, callVars, options

\* It stays at a point of its call.
LEMMA CallsStep ==
    ASSUME TypeOK, Calls, NEW r \in Reqs, NEW to, Moves(r, to)
    PROVE  Calls'
<1>1. /\ name[r] \in Names /\ pc'[r] = to /\ \A q \in Reqs : q # r => pc'[q] = pc[q]
      /\ UNCHANGED <<op, name, vol, remote, v2, deleted>>
  BY MoveFacts
<1>2. /\ to \notin {"idle", "start", "delete", "list"} /\ pc[r] # "idle"
      /\ to \in CreatePoints => pc[r] \in CreatePoints \cup {"start"}
      /\ to \in {"copy", "waitCopy", "delTemp", "getCopy"} => name[r] \in remote
      /\ v2 /\ to \in CreatePoints => name[r] \notin remote
  BY DEF Moves
<1>3. NoName \notin Names
  BY SnapshotAssumption
<1>4. QED
  BY <1>1, <1>2, <1>3 DEF Calls

\* It hands its lock over properly.
LEMMA LockStep ==
    ASSUME TypeOK, Calls, LockInv, NEW r \in Reqs, NEW to, Moves(r, to)
    PROVE  LockInv'
<1>1. /\ name[r] \in Names /\ pc'[r] = to /\ \A q \in Reqs : q # r => pc'[q] = pc[q]
      /\ UNCHANGED <<name, v2>>
  BY MoveFacts
<1>2. /\ ~v2 => \A p, q \in Reqs :
            pc[p] \in CreatePoints /\ pc[q] \in CreatePoints /\ name[p] = name[q] => p = q
      /\ volumeLocks = {n \in Names : ~v2 /\ \E p \in Reqs : pc[p] \in CreatePoints /\ name[p] = n}
  BY DEF LockInv
<1>3. CASE KeepsLock(r, to)
  BY <1>1, <1>2, <1>3 DEF KeepsLock, LockInv
<1>4. CASE TakesLock(r, to)
  BY <1>1, <1>2, <1>4 DEF TakesLock, LockInv
<1>5. CASE DropsLock(r, to)
  BY <1>1, <1>2, <1>5 DEF DropsLock, LockInv
<1>6. QED
  BY <1>3, <1>4, <1>5 DEF Moves

\* A handler that moves, does to ARM what it may, and has what it relies on, keeps
\* the invariant.
LEMMA InvStep ==
    ASSUME IInv, NEW r \in Reqs, NEW to, Moves(r, to), Effect(r), Relies(r, to),
           snap' \in [Ids -> Snapshots \cup {None}], SourcesFit',
           clock' = clock, faults' \in 0 .. MaxFaults, stray' \subseteq Names
    PROVE  IInv'
<1> DEFINE n == name[r]
<1>i. TypeOK /\ Calls /\ LockInv /\ SourcesFit /\ TemporaryKept /\ Progress /\ SnapshotKept
  BY DEF IInv
<1>1. /\ n \in Names /\ pc' \in [Reqs -> PCs] /\ pc'[r] = to
      /\ \A q \in Reqs : q # r => pc'[q] = pc[q]
      /\ UNCHANGED <<op, name, vol, source, remote, incremental, v2,
                     shouldWaitForSnapshotReady, deleted>>
  BY <1>i, MoveFacts
<1>e. /\ \A i \in Ids : i # S(n) /\ i # Local(n) => snap'[i] = snap[i]
      /\ Kept(S(n)) \/ pc[r] = "delete"
      /\ Kept(Local(n)) \/ pc[r] = "delTemp"
      /\ snap'[Local(n)] # snap[Local(n)] => pc[r] \in CreatePoints
      /\ \A m \in Names : m # n => (m \in stray' <=> m \in stray)
      /\ stray' # stray => pc[r] \in CreatePoints
      /\ told' # told => /\ snap' = snap /\ snap[S(n)] # None
                         /\ told' = [told EXCEPT ![n] = snap[S(n)]]
  BY DEF Effect
<1> HIDE DEF n
<1>t. told \in [Names -> Snapshots \cup {None}] /\ snap \in [Ids -> Snapshots \cup {None}]
      /\ name \in [Reqs -> Names \cup {NoName}]
  BY <1>i DEF TypeOK
<1>2. Calls' /\ LockInv'
  BY <1>i, CallsStep, LockStep
<1>3. TypeOK'
  <2>1. told' \in [Names -> Snapshots \cup {None}]
    BY <1>1, <1>e, <1>t, IdFacts
  <2>2. volumeLocks' \subseteq Names
    BY <1>2 DEF LockInv
  <2>3. QED
    BY <1>i, <1>1, <2>1, <2>2 DEF TypeOK
<1>s. ASSUME NEW m \in Names, m \notin deleted, snap[S(m)] # None
      PROVE  SameData(snap[S(m)], snap'[S(m)]) /\ snap'[S(m)] \in Snapshots
  <2>1. CASE m = n
    <3>1. pc[r] # "delete"
      BY <1>i, <1>s, <2>1 DEF Calls, n
    <3>2. QED
      BY <1>e, <1>s, <2>1, <3>1 DEF Kept
  <2>2. CASE m # n
    <3>1. snap'[S(m)] = snap[S(m)] /\ S(m) \in Ids
      BY <1>1, <1>e, <2>2, IdFacts
    <3>2. QED
      BY <1>s, <1>t, <3>1 DEF SameData
  <2>3. QED
    BY <2>1, <2>2
<1>4. SnapshotKept'
  <2>1. ASSUME NEW m \in Names, m \notin deleted, told'[m] # None
        PROVE  snap'[S(m)].at = told'[m].at /\ snap'[S(m)].of = told'[m].of
    <3>1. CASE told'[m] = told[m]
      <4>1. told[m] \in Snapshots /\ snap[S(m)].at = told[m].at /\ snap[S(m)].of = told[m].of
        BY <1>i, <1>t, <2>1, <3>1 DEF SnapshotKept
      <4>2. snap[S(m)] # None
        BY <4>1, NoneFacts, SnapshotAssumption
      <4>3. QED
        BY <1>s, <2>1, <3>1, <4>1, <4>2 DEF SameData
    <3>2. CASE told'[m] # told[m]
      BY <1>1, <1>e, <1>t, <3>2
    <3>3. QED
      BY <3>1, <3>2
  <2>2. QED
    BY <1>1, <2>1 DEF SnapshotKept
<1>l. ASSUME NEW q \in Reqs, q # r, pc[q] \in CreatePoints, name[q] \in remote
      PROVE  /\ snap'[Local(name[q])] = snap[Local(name[q])]
             /\ name[q] \in stray' <=> name[q] \in stray
  <2>1. ~v2 /\ name[q] \in Names
    BY <1>i, <1>l DEF Calls, TypeOK
  <2>2. CASE name[q] = n
    <3>1. pc[r] \notin CreatePoints
      BY <1>i, <1>l, <2>1, <2>2 DEF LockInv, n
    <3>2. QED
      BY <1>e, <2>2, <3>1
  <2>3. CASE name[q] # n
    BY <1>1, <1>e, <2>1, <2>3, IdFacts
  <2>4. QED
    BY <2>2, <2>3
<1>q. ASSUME NEW q \in Reqs, q # r, pc[q] \in CreatePoints
      PROVE  /\ name[q] \in Names /\ vol[q] \in Vols
             /\ snap[S(name[q])] # None =>
                  SameData(snap[S(name[q])], snap'[S(name[q])])
  <2>1. name[q] \in Names /\ name[q] \notin deleted /\ vol[q] \in Vols
    BY <1>i, <1>q, <1>t DEF Calls, CreatePoints
  <2>2. QED
    BY <1>s, <2>1
<1>r. Relies(r, to)
  OBVIOUS
<1>5. TemporaryKept'
  <2>1. ASSUME NEW q \in Reqs, ~v2, name[q] \in remote,
               pc'[q] \in {"wait", "get", "copy", "waitCopy"}
        PROVE  snap'[Local(name[q])] # None
    <3>1. CASE q = r
      BY <1>1, <1>r, <2>1, <3>1 DEF Relies
    <3>2. CASE q # r
      <4>1. pc[q] = pc'[q] /\ pc[q] \in CreatePoints
        BY <1>1, <2>1, <3>2 DEF CreatePoints
      <4>2. QED
        BY <1>i, <1>l, <2>1, <3>2, <4>1 DEF TemporaryKept
    <3>3. QED
      BY <3>1, <3>2
  <2>2. QED
    BY <1>1, <2>1 DEF TemporaryKept
<1>6. Progress'
  <2> SUFFICES ASSUME NEW q \in Reqs
      PROVE
        /\ pc'[q] \in {"wait", "get"} /\ name[q] \notin remote => snap'[S(name[q])].of = vol[q]
        /\ pc'[q] = "get" /\ name[q] \notin remote /\ (v2 \/ shouldWaitForSnapshotReady) =>
              snap'[S(name[q])].done
        /\ pc'[q] \in {"delTemp", "getCopy"} => snap'[S(name[q])].done
        /\ pc'[q] = "getCopy" /\ name[q] \notin stray' => snap'[Local(name[q])] = None
    BY <1>1 DEF Progress
  <2>1. CASE q = r
    BY <1>1, <1>r, <2>1 DEF Relies
  <2>2. CASE q # r /\ pc[q] \in CreatePoints
    <3>1. pc'[q] = pc[q] /\ vol[q] \in Vols
      BY <1>1, <1>q, <2>2
    <3>2. /\ pc[q] \in {"wait", "get"} /\ name[q] \notin remote => snap[S(name[q])].of = vol[q]
          /\ pc[q] = "get" /\ name[q] \notin remote /\ (v2 \/ shouldWaitForSnapshotReady) =>
              snap[S(name[q])].done
          /\ pc[q] \in {"delTemp", "getCopy"} => snap[S(name[q])].done
          /\ pc[q] = "getCopy" /\ name[q] \notin stray => snap[Local(name[q])] = None
      BY <1>i DEF Progress
    <3>3. snap[S(name[q])].of = vol[q] \/ snap[S(name[q])].done => snap[S(name[q])] # None
      BY <3>1, NoneFacts, SnapshotAssumption
    <3>4. snap[S(name[q])] # None => /\ snap'[S(name[q])].of = snap[S(name[q])].of
                                     /\ snap[S(name[q])].done => snap'[S(name[q])].done
      BY <1>q, <2>2 DEF SameData
    <3>5. pc[q] = "getCopy" => name[q] \in remote
      BY <1>i DEF Calls
    <3>6. pc[q] = "getCopy" => /\ snap'[Local(name[q])] = snap[Local(name[q])]
                               /\ name[q] \in stray' <=> name[q] \in stray
      BY <1>l, <2>2, <3>5
    <3>7. QED
      BY <3>1, <3>2, <3>3, <3>4, <3>6
  <2>3. CASE q # r /\ pc[q] \notin CreatePoints
    BY <1>1, <2>3 DEF CreatePoints
  <2>4. QED
    BY <2>1, <2>2, <2>3
<1>9. QED
  BY <1>2, <1>3, <1>4, <1>5, <1>6 DEF IInv

-----------------------------------------------------------------------------
(* The steps of a handler.                                                   *)

\* A step that leaves ARM and the answers alone has no effect to answer for.
LEMMA QuietStep ==
    ASSUME IInv, NEW r \in Reqs, NEW to, Moves(r, to), Relies(r, to),
           UNCHANGED <<snap, told, stray, clock>>, faults' \in 0 .. MaxFaults
    PROVE  IInv'
<1>1. /\ TypeOK /\ Calls /\ SourcesFit /\ snap \in [Ids -> Snapshots \cup {None}]
      /\ stray \subseteq Names
  BY DEF IInv, TypeOK
<1>2. name[r] \in Names
  BY <1>1, MoveFacts
<1>3. snap[S(name[r])] \in Snapshots \cup {None} /\ snap[Local(name[r])] \in Snapshots \cup {None}
  BY <1>1, <1>2, IdFacts
<1>4. Effect(r)
  BY <1>3 DEF Effect, Kept, SameData
<1>5. SourcesFit'
  BY <1>1 DEF SourcesFit
<1>6. QED
  BY <1>1, <1>4, <1>5, InvStep

\* The ways a handler of CreateSnapshot goes on or returns.
LEMMA ReturnsMoves ==
    ASSUME TypeOK, Calls, NEW r \in Reqs, NEW to \in {"ok", "err"}, pc[r] \in CreatePoints,
           CreateReturns(r, to), deleted' = deleted
    PROVE  Moves(r, to) /\ name[r] \in Names
<1>1. pc[r] \notin {"idle", "ok", "err"} /\ to \notin CreatePoints
  BY DEF CreatePoints
<1>2. to \in PCs \ {"idle", "start", "delete", "list"}
      /\ to \notin {"copy", "waitCopy", "delTemp", "getCopy"}
  BY DEF PCs
<1>3. Goto(r, to) /\ DropsLock(r, to)
  BY <1>1 DEF CreateReturns, DropsLock
<1>4. Moves(r, to)
  BY <1>1, <1>2, <1>3 DEF Moves
<1>5. QED
  BY <1>4, MoveFacts

\* It goes on to a later point of CreateSnapshot with the lock it has.
LEMMA ContinuesMoves ==
    ASSUME TypeOK, Calls, NEW r \in Reqs, NEW to \in CreatePoints, pc[r] \in CreatePoints,
           Continues(r, to), deleted' = deleted,
           to \in {"copy", "waitCopy", "delTemp", "getCopy"} => name[r] \in remote
    PROVE  Moves(r, to) /\ name[r] \in Names
<1>1. pc[r] \notin {"idle", "ok", "err"}
  BY DEF CreatePoints
<1>2. to \in PCs \ {"idle", "start", "delete", "list"}
  BY DEF PCs, CreatePoints
<1>3. Goto(r, to) /\ KeepsLock(r, to)
  BY DEF Continues, KeepsLock
<1>4. v2 => name[r] \notin remote
  BY DEF Calls
<1>5. Moves(r, to)
  BY <1>1, <1>2, <1>3, <1>4 DEF Moves
<1>6. QED
  BY <1>5, MoveFacts

\* A handler that returns relies on nothing more.
LEMMA ReturnsQuiet ==
    ASSUME IInv, NEW r \in Reqs, NEW to \in {"ok", "err"}, pc[r] \in CreatePoints,
           CreateReturns(r, to), UNCHANGED <<snap, told, stray, clock, deleted>>,
           faults' \in 0 .. MaxFaults
    PROVE  IInv'
<1>1. Moves(r, to)
  BY ReturnsMoves DEF IInv
<1>2. Relies(r, to)
  BY DEF Relies
<1>3. QED
  BY <1>1, <1>2, QuietStep

\* A failing call is counted.
LEMMA FaultyType ==
    ASSUME TypeOK, Faulty \/ UNCHANGED faults
    PROVE  faults' \in 0 .. MaxFaults
  BY SnapshotAssumption DEF TypeOK, Faulty

\* Reading the parameters and taking the lock.
LEMMA StartStep ==
    ASSUME IInv, NEW r \in Reqs, CreateSnapshot(r) \/ CreateSnapshotV2(r)
    PROVE  IInv'
<1>i. TypeOK /\ Calls
  BY DEF IInv
<1>1. /\ pc[r] = "start" /\ UNCHANGED <<snap, clock, told, stray, deleted>>
      /\ faults' \in 0 .. MaxFaults
  BY <1>i, FaultyType DEF CreateSnapshot, CreateSnapshotV2
<1>2. PICK to \in {"err", "create"} :
        /\ Goto(r, to)
        /\ IF to = "err" \/ v2 THEN volumeLocks' = volumeLocks
           ELSE name[r] \notin volumeLocks /\ volumeLocks' = volumeLocks \cup {name[r]}
        /\ v2 /\ to = "create" => name[r] \notin remote
  BY DEF CreateSnapshot, CreateSnapshotV2, Acquired
<1>3. /\ "start" \notin CreatePoints /\ "err" \notin CreatePoints /\ "create" \in CreatePoints
      /\ {"err", "create"} \subseteq PCs
  BY DEF CreatePoints, PCs
<1>4. KeepsLock(r, to) \/ TakesLock(r, to)
  BY <1>1, <1>2, <1>3 DEF KeepsLock, TakesLock
<1>5. Moves(r, to)
  BY <1>1, <1>2, <1>3, <1>4 DEF Moves
<1>6. Relies(r, to)
  BY <1>2 DEF Relies
<1>7. QED
  BY <1>1, <1>5, <1>6, QuietStep

\* The names the first snapshot is made under.
LEMMA NameFacts ==
    ASSUME TypeOK, NEW n \in Names
    PROVE  /\ snapshotName(n) \in {S(n), Local(n)} /\ snapshotName(n) \in Ids
           /\ n \in remote => snapshotName(n) = Local(n)
           /\ n \notin remote => snapshotName(n) = S(n)
  BY IdFacts DEF snapshotName

\* A call to ARM for one of the handler's two ids is an effect it may have.
LEMMA CreateIsEffect ==
    ASSUME IInv, NEW r \in Reqs, name[r] \in Names, pc[r] \in CreatePoints,
           NEW i \in {S(name[r]), Local(name[r])}, NEW src \in Vols \cup Ids,
           CreateOk(i, src) \/ CreateFails(i, src), UNCHANGED <<told, stray>>
    PROVE  /\ Effect(r) /\ SourcesFit' /\ snap' \in [Ids -> Snapshots \cup {None}]
           /\ faults' \in 0 .. MaxFaults
<1>i. TypeOK /\ SourcesFit /\ i \in Ids /\ snap \in [Ids -> Snapshots \cup {None}]
  BY IdFacts DEF IInv, TypeOK
<1>1. /\ snap' \in [Ids -> Snapshots \cup {None}]
      /\ Kept(i) /\ Sound(i) /\ Others(i) /\ faults' \in 0 .. MaxFaults
  BY <1>i, CreateEffect
<1>2. SourcesFit'
  BY <1>i, <1>1 DEF SourcesFit, Sound, Others
<1>3. \A j \in Ids : Kept(j)
  BY <1>i, <1>1 DEF Kept, Others, SameData
<1>4. Effect(r)
  BY <1>1, <1>3, IdFacts DEF Effect, Others
<1>5. QED
  BY <1>1, <1>2, <1>4

\* Asking ARM for the first snapshot.
LEMMA CreateOrUpdateStep ==
    ASSUME IInv, NEW r \in Reqs, CreateOrUpdate(r)
    PROVE  IInv'
<1> DEFINE n == name[r]
           i == snapshotName(n)
<1>i. TypeOK /\ Calls /\ pc[r] = "create" /\ pc[r] \in CreatePoints
  BY DEF IInv, CreateOrUpdate, CreatePoints
<1>1. /\ UNCHANGED <<clock, told, stray, deleted>>
      /\ \/ CreateOk(i, vol[r]) /\ Continues(r, IF v2 THEN AfterCreateV2 ELSE AfterCreate)
         \/ CreateFails(i, vol[r]) /\ CreateReturns(r, "err")
  BY DEF CreateOrUpdate
<1>2. vol[r] \in Vols /\ n \in Names
  BY <1>i DEF Calls, TypeOK
<1>3. i \in {S(n), Local(n)} /\ i \in Ids
  BY <1>i, <1>2, NameFacts
<1>s. stray' \subseteq Names
  BY <1>i, <1>1 DEF TypeOK
<1>4. /\ Effect(r) /\ SourcesFit' /\ snap' \in [Ids -> Snapshots \cup {None}]
      /\ faults' \in 0 .. MaxFaults
  BY <1>i, <1>1, <1>2, <1>3, CreateIsEffect
<1>5. CASE CreateFails(i, vol[r]) /\ CreateReturns(r, "err")
  <2>1. Moves(r, "err")
    BY <1>i, <1>1, <1>5, ReturnsMoves
  <2>2. Relies(r, "err")
    BY DEF Relies
  <2>3. QED
    BY <1>1, <1>4, <1>s, <2>1, <2>2, InvStep
<1>6. CASE CreateOk(i, vol[r]) /\ Continues(r, IF v2 THEN AfterCreateV2 ELSE AfterCreate)
  <2> DEFINE to == IF v2 THEN AfterCreateV2 ELSE AfterCreate
  <2>1. /\ to \in {"wait", "get"} /\ to \in CreatePoints
        /\ v2 \/ shouldWaitForSnapshotReady => to = "wait"
    BY DEF AfterCreate, AfterCreateV2, CreatePoints
  <2>2. Continues(r, to)
    BY <1>6
  <2> HIDE DEF to
  <2>3. Moves(r, to)
    BY <1>i, <1>1, <2>1, <2>2, ContinuesMoves
  <2>4. snap'[i] \in Snapshots /\ snap'[i].src = vol[r] /\ Sound(i)
    BY <1>i, <1>2, <1>3, <1>6, CreateEffect DEF IInv
  <2>5. snap'[i] # None /\ snap'[i].of = vol[r]
    BY <1>2, <2>4, NoneFacts DEF Sound
  <2>6. Relies(r, to)
    BY <1>i, <1>2, <2>1, <2>5, NameFacts DEF Relies
  <2>7. QED
    BY <1>1, <1>4, <1>s, <2>3, <2>6, InvStep
<1>7. QED
  BY <1>1, <1>5, <1>6

\* Waiting for it.
LEMMA WaitStep ==
    ASSUME IInv, NEW r \in Reqs, Wait(r)
    PROVE  IInv'
<1> DEFINE n == name[r]
<1>i. TypeOK /\ Calls /\ pc[r] = "wait" /\ pc[r] \in CreatePoints /\ "get" \in CreatePoints
  BY DEF IInv, Wait, CreatePoints
<1>1. /\ UNCHANGED <<snap, clock, told, stray, deleted>>
      /\ faults' \in 0 .. MaxFaults
      /\ \/ snap[snapshotName(n)].done /\ Continues(r, "get")
         \/ CreateReturns(r, "err")
  BY <1>i, FaultyType DEF Wait, waitForSnapshotReady
<1>2. CASE CreateReturns(r, "err")
  BY <1>i, <1>1, <1>2, ReturnsQuiet
<1>3. CASE snap[snapshotName(n)].done /\ Continues(r, "get")
  <2>1. Moves(r, "get") /\ n \in Names
    BY <1>i, <1>1, <1>3, ContinuesMoves
  <2>2. Relies(r, "get")
    BY <1>i, <1>1, <1>3, <2>1, NameFacts DEF Relies, IInv, Progress, TemporaryKept
  <2>3. QED
    BY <1>1, <2>1, <2>2, QuietStep
<1>4. QED
  BY <1>1, <1>2, <1>3

\* An answer is recorded once.
LEMMA AnswerStep ==
    ASSUME IInv, NEW r \in Reqs, pc[r] \in CreatePoints, CreateReturns(r, "ok"),
           Tell(name[r], S(name[r])), snap[S(name[r])] # None,
           UNCHANGED <<snap, stray, clock, deleted>>, faults' \in 0 .. MaxFaults
    PROVE  IInv'
<1> DEFINE n == name[r]
<1>i. /\ TypeOK /\ Calls /\ SourcesFit /\ snap \in [Ids -> Snapshots \cup {None}]
      /\ stray \subseteq Names
  BY DEF IInv, TypeOK
<1>1. Moves(r, "ok") /\ n \in Names
  BY <1>i, ReturnsMoves
<1>2. Relies(r, "ok")
  BY DEF Relies
<1>3. told' # told => told' = [told EXCEPT ![n] = snap[S(n)]]
  BY DEF Tell, GenerateCSISnapshot
<1>4. snap[S(n)] \in Snapshots \cup {None} /\ snap[Local(n)] \in Snapshots \cup {None}
  BY <1>i, <1>1, IdFacts
<1>5. Effect(r)
  BY <1>3, <1>4 DEF Effect, Kept, SameData
<1>6. SourcesFit'
  BY <1>i DEF SourcesFit
<1>7. QED
  BY <1>i, <1>1, <1>2, <1>5, <1>6, InvStep

\* Reading the first snapshot.
LEMMA GetStep ==
    ASSUME IInv, NEW r \in Reqs, Get(r)
    PROVE  IInv'
<1> DEFINE n == name[r]
<1>i. TypeOK /\ Calls /\ pc[r] = "get" /\ pc[r] \in CreatePoints /\ "copy" \in CreatePoints
  BY DEF IInv, Get, CreatePoints
<1>n. n \in Names
  BY <1>i DEF Calls, TypeOK
<1>1. UNCHANGED <<snap, clock, stray, deleted>> /\ faults' \in 0 .. MaxFaults
  BY <1>i, FaultyType DEF Get, getSnapshotByID
<1>2. \/ CreateReturns(r, "err") /\ UNCHANGED told
      \/ /\ n \notin remote /\ CreateReturns(r, "ok")
         /\ snap[snapshotName(n)] # None /\ Tell(n, snapshotName(n))
      \/ n \in remote /\ Continues(r, "copy") /\ UNCHANGED told
  BY DEF Get, getSnapshotByID, AfterGet
<1>3. CASE CreateReturns(r, "err") /\ UNCHANGED told
  BY <1>i, <1>1, <1>3, ReturnsQuiet
<1>4. CASE /\ n \notin remote /\ CreateReturns(r, "ok")
           /\ snap[snapshotName(n)] # None /\ Tell(n, snapshotName(n))
  <2>1. snapshotName(n) = S(n)
    BY <1>i, <1>n, <1>4, NameFacts
  <2>2. QED
    BY <1>i, <1>1, <1>4, <2>1, AnswerStep
<1>5. CASE n \in remote /\ Continues(r, "copy") /\ UNCHANGED told
  <2>1. Moves(r, "copy")
    BY <1>i, <1>1, <1>5, ContinuesMoves
  <2>2. Relies(r, "copy")
    BY <1>i, <1>1, <1>5 DEF Relies, IInv, TemporaryKept
  <2>3. QED
    BY <1>1, <1>5, <2>1, <2>2, QuietStep
<1>6. QED
  BY <1>2, <1>3, <1>4, <1>5

\* Asking ARM for the copy.
LEMMA CopyStep ==
    ASSUME IInv, NEW r \in Reqs, Copy(r)
    PROVE  IInv'
<1> DEFINE n == name[r]
<1>i. /\ TypeOK /\ Calls /\ pc[r] = "copy" /\ pc[r] \in CreatePoints
      /\ "waitCopy" \in CreatePoints
  BY DEF IInv, Copy, CreatePoints
<1>1. /\ UNCHANGED <<clock, told, stray, deleted>>
      /\ \/ CreateOk(S(n), Local(n)) /\ Continues(r, "waitCopy")
         \/ CreateFails(S(n), Local(n)) /\ CreateReturns(r, "err")
  BY DEF Copy
<1>2. n \in Names /\ n \in remote
  BY <1>i DEF Calls, TypeOK
<1>3. S(n) \in Ids /\ Local(n) \in Ids /\ Local(n) # S(n)
  BY <1>2, IdFacts
<1>4. /\ Effect(r) /\ SourcesFit' /\ snap' \in [Ids -> Snapshots \cup {None}]
      /\ faults' \in 0 .. MaxFaults
  BY <1>i, <1>1, <1>2, <1>3, CreateIsEffect
<1>s. stray' \subseteq Names
  BY <1>i, <1>1 DEF TypeOK
<1>5. CASE CreateFails(S(n), Local(n)) /\ CreateReturns(r, "err")
  <2>1. Moves(r, "err")
    BY <1>i, <1>1, <1>5, ReturnsMoves
  <2>2. Relies(r, "err")
    BY DEF Relies
  <2>3. QED
    BY <1>1, <1>4, <1>s, <2>1, <2>2, InvStep
<1>6. CASE CreateOk(S(n), Local(n)) /\ Continues(r, "waitCopy")
  <2>1. Moves(r, "waitCopy")
    BY <1>i, <1>1, <1>2, <1>6, ContinuesMoves
  <2>2. snap'[Local(n)] = snap[Local(n)]
    BY <1>i, <1>3, <1>6, CreateEffect DEF Others, IInv
  <2>3. Relies(r, "waitCopy")
    BY <1>i, <1>2, <2>2 DEF Relies, IInv, TemporaryKept
  <2>4. QED
    BY <1>1, <1>4, <1>s, <2>1, <2>3, InvStep
<1>7. QED
  BY <1>1, <1>5, <1>6

\* Waiting for the copy.
LEMMA WaitCopyStep ==
    ASSUME IInv, NEW r \in Reqs, WaitCopy(r)
    PROVE  IInv'
<1> DEFINE n == name[r]
<1>i. /\ TypeOK /\ Calls /\ pc[r] = "waitCopy" /\ pc[r] \in CreatePoints
      /\ "delTemp" \in CreatePoints
  BY DEF IInv, WaitCopy, CreatePoints
<1>n. n \in remote
  BY <1>i DEF Calls
<1>1. /\ UNCHANGED <<snap, clock, told, stray, deleted>>
      /\ faults' \in 0 .. MaxFaults
      /\ \/ snap[S(n)].done /\ Continues(r, "delTemp")
         \/ CreateReturns(r, "err")
  BY <1>i, FaultyType DEF WaitCopy, waitForSnapshotReady
<1>2. CASE CreateReturns(r, "err")
  BY <1>i, <1>1, <1>2, ReturnsQuiet
<1>3. CASE snap[S(n)].done /\ Continues(r, "delTemp")
  <2>1. Moves(r, "delTemp")
    BY <1>i, <1>n, <1>1, <1>3, ContinuesMoves
  <2>2. Relies(r, "delTemp")
    BY <1>1, <1>3 DEF Relies
  <2>3. QED
    BY <1>1, <2>1, <2>2, QuietStep
<1>4. QED
  BY <1>1, <1>2, <1>3

\* Removing a snapshot leaves the others.
LEMMA RemoveFacts ==
    ASSUME TypeOK, SourcesFit, NEW i \in Ids, Remove(i)
    PROVE  /\ snap' \in [Ids -> Snapshots \cup {None}] /\ SourcesFit'
           /\ snap'[i] = None /\ Others(i) /\ \A j \in Ids : j # i => Kept(j)
<1>1. snap \in [Ids -> Snapshots \cup {None}]
  BY DEF TypeOK
<1>2. snap' \in [Ids -> Snapshots \cup {None}] /\ snap'[i] = None /\ Others(i)
  BY <1>1 DEF Remove, Others
<1>3. None.src \notin Vols
  BY NoneFacts, SnapshotAssumption
<1>4. SourcesFit'
  BY <1>2, <1>3 DEF SourcesFit, Others
<1>5. \A j \in Ids : j # i => Kept(j)
  BY <1>1, <1>2 DEF Others, Kept, SameData
<1>6. QED
  BY <1>2, <1>4, <1>5

\* Deleting the temporary snapshot.
LEMMA DeleteTemporaryStep ==
    ASSUME IInv, NEW r \in Reqs, DeleteTemporary(r)
    PROVE  IInv'
<1> DEFINE n == name[r]
<1>i. /\ TypeOK /\ Calls /\ SourcesFit /\ pc[r] = "delTemp" /\ pc[r] \in CreatePoints
      /\ "getCopy" \in CreatePoints /\ snap \in [Ids -> Snapshots \cup {None}]
      /\ stray \subseteq Names
  BY DEF IInv, DeleteTemporary, CreatePoints, TypeOK
<1>1. UNCHANGED <<clock, told, deleted>> /\ Continues(r, "getCopy") /\ faults' \in 0 .. MaxFaults
  BY <1>i, FaultyType DEF DeleteTemporary
<1>2. n \in remote /\ snap[S(n)].done
  BY <1>i DEF Calls, IInv, Progress
<1>3. Moves(r, "getCopy") /\ n \in Names
  BY <1>i, <1>1, <1>2, ContinuesMoves
<1>4. S(n) \in Ids /\ Local(n) \in Ids /\ Local(n) # S(n)
  BY <1>3, IdFacts
<1>5. CASE Remove(Local(n)) /\ stray' = stray \ {n}
  <2>1. /\ snap' \in [Ids -> Snapshots \cup {None}] /\ SourcesFit'
        /\ snap'[Local(n)] = None /\ Others(Local(n)) /\ Kept(S(n))
    BY <1>i, <1>4, <1>5, RemoveFacts
  <2>2. Effect(r)
    BY <1>i, <1>1, <1>5, <2>1 DEF Effect, Others
  <2>3. Relies(r, "getCopy")
    BY <1>2, <1>4, <2>1 DEF Relies, Others
  <2>4. stray' \subseteq Names
    BY <1>i, <1>5
  <2>5. QED
    BY <1>1, <1>3, <2>1, <2>2, <2>3, <2>4, InvStep
<1>6. CASE snap' = snap /\ stray' = stray \cup {n}
  <2>1. snap[S(n)] \in Snapshots \cup {None}
    BY <1>i, <1>4
  <2>2. Effect(r)
    BY <1>i, <1>1, <1>6, <2>1 DEF Effect, Kept, SameData
  <2>3. Relies(r, "getCopy")
    BY <1>2, <1>6 DEF Relies
  <2>4. stray' \subseteq Names /\ SourcesFit'
    BY <1>i, <1>3, <1>6 DEF SourcesFit
  <2>5. QED
    BY <1>i, <1>1, <1>3, <1>6, <2>2, <2>3, <2>4, InvStep
<1>7. QED
  BY <1>5, <1>6 DEF DeleteTemporary

\* Reading the copy.
LEMMA GetCopyStep ==
    ASSUME IInv, NEW r \in Reqs, GetCopy(r)
    PROVE  IInv'
<1>i. TypeOK /\ pc[r] = "getCopy" /\ pc[r] \in CreatePoints
  BY DEF IInv, GetCopy, CreatePoints
<1>1. UNCHANGED <<snap, clock, stray, deleted>> /\ faults' \in 0 .. MaxFaults
  BY <1>i, FaultyType DEF GetCopy, getSnapshotByID
<1>2. \/ CreateReturns(r, "err") /\ UNCHANGED told
      \/ /\ CreateReturns(r, "ok")
         /\ snap[S(name[r])] # None /\ Tell(name[r], S(name[r]))
  BY DEF GetCopy, getSnapshotByID
<1>3. QED
  BY <1>i, <1>1, <1>2, ReturnsQuiet, AnswerStep

\* DeleteSnapshot and ListSnapshots.
LEMMA DeleteListStep ==
    ASSUME IInv, NEW r \in Reqs,
           \/ DeleteSnapshot(r) \/ DeleteSnapshotV2(r)
           \/ ListSnapshots(r) \/ ListSnapshotsV2(r)
    PROVE  IInv'
<1> DEFINE n == name[r]
<1>i. /\ TypeOK /\ Calls /\ SourcesFit /\ snap \in [Ids -> Snapshots \cup {None}]
      /\ stray \subseteq Names
  BY DEF IInv, TypeOK
<1>1. Deletes(r) \/ Lists(r)
  BY DEF DeleteSnapshot, DeleteSnapshotV2, ListSnapshots, ListSnapshotsV2
<1>2. /\ pc[r] \in {"delete", "list"} /\ UNCHANGED <<clock, told, stray, deleted>>
      /\ faults' \in 0 .. MaxFaults
  BY <1>i, <1>1, FaultyType DEF Deletes, Lists
<1>3. PICK to \in {"ok", "err"} : Continues(r, to)
  BY <1>1 DEF Deletes, Lists
<1>4. Moves(r, to) /\ Relies(r, to)
  BY <1>2, <1>3 DEF Moves, KeepsLock, Continues, PCs, CreatePoints, Relies
<1>5. n \in Names /\ S(n) \in Ids /\ Local(n) \in Ids /\ Local(n) # S(n)
  BY <1>i, <1>4, MoveFacts, IdFacts
<1>6. CASE snap' = snap
  BY <1>2, <1>4, <1>6, QuietStep
<1>7. CASE pc[r] = "delete" /\ Remove(S(n))
  <2>1. /\ snap' \in [Ids -> Snapshots \cup {None}] /\ SourcesFit'
        /\ Others(S(n)) /\ Kept(Local(n))
    BY <1>i, <1>5, <1>7, RemoveFacts
  <2>2. Effect(r)
    BY <1>2, <1>5, <1>7, <2>1 DEF Effect, Others
  <2>3. QED
    BY <1>i, <1>2, <1>4, <2>1, <2>2, InvStep
<1>8. QED
  BY <1>1, <1>6, <1>7 DEF Deletes, Lists, Remove

-----------------------------------------------------------------------------
(* ARM, the external-snapshotter and restarts.                               *)

\* The data of a snapshot arrives.
LEMMA CompleteStep ==
    ASSUME IInv, NEW i \in Ids, Complete(i)
    PROVE  IInv'
<1>i. TypeOK /\ Calls /\ LockInv /\ SourcesFit /\ TemporaryKept /\ Progress /\ SnapshotKept
  BY DEF IInv
<1>1. /\ snap \in [Ids -> Snapshots \cup {None}] /\ snap[i] \in Snapshots
      /\ \A r \in Reqs : pc[r] \in CreatePoints => name[r] \in Names
      /\ told \in [Names -> Snapshots \cup {None}]
  BY <1>i DEF TypeOK, Complete, Calls, CreatePoints
<1>2. /\ UNCHANGED <<pc, callVars, volumeLocks, clock, faults, told, stray, deleted, options>>
      /\ snap' = [snap EXCEPT ![i] = [snap[i] EXCEPT !.ready = TRUE, !.done = TRUE]]
  BY DEF Complete
<1> DEFINE t == [snap[i] EXCEPT !.ready = TRUE, !.done = TRUE]
<1>3. t \in Snapshots /\ SameData(snap[i], t)
  BY <1>1 DEF Snapshots, SameData
<1> HIDE DEF t
<1>4. snap' = [snap EXCEPT ![i] = t]
  BY <1>2 DEF t
<1>5. snap' \in [Ids -> Snapshots \cup {None}] /\ snap'[i] = t /\ Others(i)
  BY <1>1, <1>3, <1>4 DEF Others
<1>6. \A j \in Ids : /\ snap'[j] = None <=> snap[j] = None
                     /\ SameData(snap[j], snap'[j])
  BY <1>1, <1>3, <1>5, NoneFacts DEF Others, SameData
<1>7. TypeOK' /\ Calls' /\ LockInv'
  BY <1>i, <1>2, <1>5 DEF TypeOK, Calls, LockInv, callVars, options
<1>8. SourcesFit' /\ TemporaryKept'
  BY <1>i, <1>1, <1>2, <1>6, IdFacts
    DEF SourcesFit, TemporaryKept, SameData, CreatePoints, callVars, options
<1>9. Progress'
  BY <1>i, <1>1, <1>2, <1>6, IdFacts DEF Progress, SameData, CreatePoints, callVars, options
<1>10. SnapshotKept'
  BY <1>i, <1>2, <1>6, IdFacts DEF SnapshotKept, SameData
<1>11. QED
  BY <1>7, <1>8, <1>9, <1>10 DEF IInv

\* Steps that leave the snapshots and the answers alone, and after which no handler
\* is at a point of CreateSnapshot where it was not.
LEMMA OutsideStep ==
    ASSUME IInv, UNCHANGED <<snap, told, stray, options>>, deleted \subseteq deleted',
           \A r \in Reqs : pc'[r] \in CreatePoints =>
               pc[r] = pc'[r] /\ name'[r] = name[r] /\ vol'[r] = vol[r]
    PROVE  SourcesFit' /\ TemporaryKept' /\ Progress' /\ SnapshotKept'
<1>1. SourcesFit /\ TemporaryKept /\ Progress /\ SnapshotKept
  BY DEF IInv
<1>2. SourcesFit' /\ SnapshotKept'
  BY <1>1 DEF SourcesFit, SnapshotKept
<1>3. UNCHANGED <<snap, stray, remote, v2, shouldWaitForSnapshotReady>>
  BY DEF options
<1>4. {"wait", "get", "copy", "waitCopy", "delTemp", "getCopy"} \subseteq CreatePoints
  BY DEF CreatePoints
<1>5. TemporaryKept'
  BY <1>1, <1>3, <1>4 DEF TemporaryKept
<1>6. Progress'
  BY <1>1, <1>3, <1>4 DEF Progress
<1>7. QED
  BY <1>2, <1>5, <1>6

\* A call arrives.
LEMMA CallStep ==
    ASSUME IInv, NEW r \in Reqs, NEW n \in Names,
           (\E v \in Vols : CallCreate(r, n, v)) \/ CallDelete(r, n) \/ CallList(r, n)
    PROVE  IInv'
<1>i. TypeOK /\ Calls /\ LockInv
  BY DEF IInv
<1>1. PICK o \in {"create", "delete", "list"}, v \in Vols \cup {NoVol} :
        /\ Call(r, o, n, v)
        /\ o = "create" => v \in Vols /\ n \notin deleted
        /\ o = "delete" => deleted' = deleted \cup {n} /\ \A q \in Reqs : name[q] # n
        /\ o # "delete" => deleted' = deleted
        /\ Faulty \/ UNCHANGED faults
  BY DEF CallCreate, CallDelete, CallList
<1>2. faults' \in 0 .. MaxFaults
  BY <1>i, <1>1, FaultyType
<1>3. PICK to \in {"start", "delete", "list"} :
        /\ pc' = [pc EXCEPT ![r] = to]
        /\ to = IF o = "create" THEN "start" ELSE o
  BY <1>1 DEF Call
<1>4. /\ pc[r] = "idle" /\ UNCHANGED <<volumeLocks, snap, clock, told, stray, options>>
      /\ op' = [op EXCEPT ![r] = o] /\ name' = [name EXCEPT ![r] = n]
      /\ vol' = [vol EXCEPT ![r] = v]
  BY <1>1 DEF Call
<1>5. /\ pc'[r] = to /\ op'[r] = o /\ name'[r] = n /\ vol'[r] = v
      /\ \A q \in Reqs : q # r => /\ pc'[q] = pc[q] /\ op'[q] = op[q]
                                  /\ name'[q] = name[q] /\ vol'[q] = vol[q]
  BY <1>i, <1>3, <1>4 DEF TypeOK
<1>6. to \notin CreatePoints /\ pc[r] \notin CreatePoints /\ to \in PCs
  BY <1>4 DEF CreatePoints, PCs
<1>7. TypeOK'
  <2>1. deleted' \subseteq Names
    BY <1>i, <1>1 DEF TypeOK
  <2>2. QED
    BY <1>i, <1>2, <1>3, <1>4, <1>6, <2>1 DEF TypeOK, options
<1>8. Calls'
  <2>1. NoName \notin Names
    BY SnapshotAssumption
  <2>2. \A q \in Reqs : q # r /\ name[q] \notin deleted => name[q] \notin deleted'
    BY <1>1
  <2>3. deleted \subseteq deleted' /\ UNCHANGED <<remote, v2>>
    BY <1>1, <1>4 DEF options
  <2>4. /\ to = "delete" => o = "delete" /\ n \in deleted'
        /\ to = "list" => o = "list"
        /\ to = "start" => o = "create" /\ v \in Vols
        /\ o = "create" => n \notin deleted'
    BY <1>1, <1>3
  <2>5. QED
    BY <1>i, <1>5, <1>6, <2>1, <2>2, <2>3, <2>4 DEF Calls, CreatePoints
<1>9. LockInv'
  BY <1>i, <1>4, <1>5, <1>6 DEF LockInv, options
<1>10. SourcesFit' /\ TemporaryKept' /\ Progress' /\ SnapshotKept'
  BY <1>1, <1>4, <1>5, <1>6, OutsideStep
<1>11. QED
  BY <1>7, <1>8, <1>9, <1>10 DEF IInv

\* A call is answered.
LEMMA ReplyStep ==
    ASSUME IInv, NEW r \in Reqs, Reply(r)
    PROVE  IInv'
<1>i. TypeOK /\ Calls /\ LockInv
  BY DEF IInv
<1>1. /\ pc[r] \in {"ok", "err"}
      /\ pc' = [pc EXCEPT ![r] = "idle"] /\ op' = [op EXCEPT ![r] = "create"]
      /\ name' = [name EXCEPT ![r] = NoName] /\ vol' = [vol EXCEPT ![r] = NoVol]
      /\ UNCHANGED <<volumeLocks, snap, clock, faults, told, stray, deleted, options>>
  BY DEF Reply
<1>2. /\ pc'[r] = "idle" /\ name'[r] = NoName
      /\ \A q \in Reqs : q # r => /\ pc'[q] = pc[q] /\ op'[q] = op[q]
                                  /\ name'[q] = name[q] /\ vol'[q] = vol[q]
  BY <1>i, <1>1 DEF TypeOK
<1>3. "idle" \notin CreatePoints /\ pc[r] \notin CreatePoints /\ "idle" \in PCs
  BY <1>1 DEF CreatePoints, PCs
<1>4. TypeOK'
  BY <1>i, <1>1, <1>3 DEF TypeOK, options
<1>5. Calls'
  BY <1>i, <1>1, <1>2, <1>3 DEF Calls, options
<1>6. LockInv'
  BY <1>i, <1>1, <1>2, <1>3 DEF LockInv, options
<1>7. SourcesFit' /\ TemporaryKept' /\ Progress' /\ SnapshotKept'
  BY <1>1, <1>2, <1>3, OutsideStep
<1>8. QED
  BY <1>4, <1>5, <1>6, <1>7 DEF IInv

\* The plugin restarts, or a volume is written to.
LEMMA RestartWriteStep ==
    ASSUME IInv, Restart \/ Write
    PROVE  IInv'
<1>i. TypeOK /\ Calls /\ LockInv
  BY DEF IInv
<1>1. CASE Restart
  <2>1. /\ pc' = [r \in Reqs |-> "idle"] /\ op' = [r \in Reqs |-> "create"]
        /\ name' = [r \in Reqs |-> NoName] /\ vol' = [r \in Reqs |-> NoVol]
        /\ volumeLocks' = {} /\ UNCHANGED <<snap, clock, told, stray, deleted, options>>
        /\ faults' \in 0 .. MaxFaults
    BY <1>i, <1>1, FaultyType DEF Restart
  <2>2. \A r \in Reqs : pc'[r] = "idle" /\ name'[r] = NoName
    BY <2>1
  <2>3. "idle" \notin CreatePoints /\ "idle" \in PCs
    BY DEF CreatePoints, PCs
  <2>4. TypeOK'
    BY <1>i, <2>1, <2>3 DEF TypeOK, options
  <2>5. Calls'
    BY <2>2, <2>3 DEF Calls
  <2>6. LockInv'
    BY <2>1, <2>2, <2>3 DEF LockInv
  <2>7. SourcesFit' /\ TemporaryKept' /\ Progress' /\ SnapshotKept'
    BY <2>1, <2>2, <2>3, OutsideStep
  <2>8. QED
    BY <2>4, <2>5, <2>6, <2>7 DEF IInv
<1>2. CASE Write
  <2>1. /\ UNCHANGED <<pc, callVars, volumeLocks, snap, faults, told, stray, deleted, options>>
        /\ clock' \in 0 .. MaxWrites
    BY <1>i, <1>2, SnapshotAssumption DEF Write, TypeOK
  <2>2. TypeOK' /\ Calls' /\ LockInv'
    BY <1>i, <2>1 DEF TypeOK, Calls, LockInv, callVars, options
  <2>3. SourcesFit' /\ TemporaryKept' /\ Progress' /\ SnapshotKept'
    BY <2>1, OutsideStep DEF callVars
  <2>4. QED
    BY <2>2, <2>3 DEF IInv
<1>3. QED
  BY <1>1, <1>2

-----------------------------------------------------------------------------
(* The theorems.                                                             *)

\* The invariant holds at first, with no snapshot and no handler.
LEMMA InitInv == Init => IInv
<1> SUFFICES ASSUME Init PROVE IInv
  OBVIOUS
<1>1. /\ pc = [r \in Reqs |-> "idle"] /\ name = [r \in Reqs |-> NoName]
      /\ volumeLocks = {} /\ snap = [i \in Ids |-> None] /\ told = [n \in Names |-> None]
  BY DEF Init
<1>2. /\ \A r \in Reqs : pc[r] = "idle" /\ name[r] = NoName
      /\ \A i \in Ids : snap[i] = None
      /\ \A n \in Names : told[n] = None
  BY <1>1
<1>3. "idle" \notin CreatePoints /\ "idle" \in PCs
  BY DEF CreatePoints, PCs
<1>4. TypeOK
  BY <1>3, SnapshotAssumption DEF Init, TypeOK
<1>5. Calls /\ LockInv
  BY <1>1, <1>2, <1>3 DEF Calls, LockInv
<1>6. SourcesFit
  BY <1>2, NoneFacts, SnapshotAssumption DEF SourcesFit
<1>7. TemporaryKept /\ Progress /\ SnapshotKept
  BY <1>2 DEF TemporaryKept, Progress, SnapshotKept
<1>8. QED
  BY <1>4, <1>5, <1>6, <1>7 DEF IInv

\* Every step keeps it.
LEMMA NextInv == IInv /\ [Next]_vars => IInv'
<1> SUFFICES ASSUME IInv, [Next]_vars PROVE IInv'
  OBVIOUS
<1>1. CASE UNCHANGED vars
  <2>1. UNCHANGED <<pc, op, name, vol, volumeLocks, snap, clock, faults, told, stray,
                    deleted, source, remote, incremental, v2, shouldWaitForSnapshotReady>>
    BY <1>1 DEF vars, callVars, options
  <2>2. TypeOK' /\ Calls' /\ LockInv'
    BY <2>1 DEF IInv, TypeOK, Calls, LockInv
  <2>3. SourcesFit' /\ TemporaryKept' /\ Progress' /\ SnapshotKept'
    BY <2>1, OutsideStep DEF options
  <2>4. QED
    BY <2>2, <2>3 DEF IInv
<1>2. ASSUME NEW r \in Reqs, Handler(r)
      PROVE  IInv'
  BY <1>2, StartStep, CreateOrUpdateStep, WaitStep, GetStep, CopyStep, WaitCopyStep,
     DeleteTemporaryStep, GetCopyStep, DeleteListStep, ReplyStep DEF Handler
<1>3. CASE Next
  BY <1>2, <1>3, CallStep, CompleteStep, RestartWriteStep DEF Next
<1>4. QED
  BY <1>1, <1>3

\* The inductive invariant holds of CreateSnapshot, DeleteSnapshot and
\* ListSnapshots of either driver.
THEOREM Invariant == Spec => []IInv
  BY InitInv, NextInv, PTL DEF Spec

\* The types of the state.
THEOREM TypeCorrect == Spec => []TypeOK
<1>1. IInv => TypeOK
  BY DEF IInv
<1>2. QED
  BY <1>1, Invariant, PTL

\* The temporary snapshot of CreateSnapshot is kept until it has been copied,
\* under the lock of the other name.
THEOREM TemporaryIsKept == Spec => []TemporaryKept
<1>1. IInv => TemporaryKept
  BY DEF IInv
<1>2. QED
  BY <1>1, Invariant, PTL

\* A snapshot CreateSnapshot answered OK stays the snapshot it was.
THEOREM SnapshotIsKept == Spec => []SnapshotKept
<1>1. IInv => SnapshotKept
  BY DEF IInv
<1>2. QED
  BY <1>1, Invariant, PTL

\* Only the reading of a snapshot answers a call of CreateSnapshot with OK.
LEMMA AnswersAtGet ==
    ASSUME IInv, [Next]_vars, NEW r \in Reqs, Answers(r)
    PROVE  Get(r) \/ GetCopy(r)
<1>i. TypeOK /\ Calls
  BY DEF IInv
<1>1. pc[r] # "ok" /\ pc'[r] = "ok" /\ op[r] = "create"
  BY DEF Answers
<1>2. Next
  BY <1>1 DEF vars
<1>3. ASSUME NEW q \in Reqs, NEW to, pc' = [pc EXCEPT ![q] = to]
      PROVE  q = r /\ to = "ok"
  BY <1>i, <1>1, <1>3 DEF TypeOK
<1>4. pc' # pc
  BY <1>1
<1>5. ASSUME NEW i \in Ids, Complete(i)
      PROVE  FALSE
  BY <1>4, <1>5 DEF Complete
<1>6. ASSUME Write \/ Restart
      PROVE  FALSE
  BY <1>1, <1>4, <1>6 DEF Write, Restart
<1>7. ASSUME NEW q \in Reqs, NEW n \in Names,
             (\E v \in Vols : CallCreate(q, n, v)) \/ CallDelete(q, n) \/ CallList(q, n)
      PROVE  FALSE
  <2>1. PICK o \in {"create", "delete", "list"} :
           pc' = [pc EXCEPT ![q] = CASE o = "create" -> "start" [] OTHER -> o]
    BY <1>7 DEF CallCreate, CallDelete, CallList, Call
  <2>2. (CASE o = "create" -> "start" [] OTHER -> o) = "ok"
    BY <1>3, <2>1
  <2>3. QED
    BY <2>2
<1>8. ASSUME NEW q \in Reqs, Handler(q)
      PROVE  Get(r) \/ GetCopy(r)
  <2>1. CASE CreateSnapshot(q) \/ CreateSnapshotV2(q)
    <3>1. \E to \in {"err", "create"} : pc' = [pc EXCEPT ![q] = to]
      BY <2>1 DEF CreateSnapshot, CreateSnapshotV2, Goto
    <3>2. QED
      BY <1>3, <3>1
  <2>2. CASE CreateOrUpdate(q) \/ Wait(q) \/ Copy(q) \/ WaitCopy(q) \/ DeleteTemporary(q)
    <3>1. \E to \in {"err", "wait", "get", "waitCopy", "delTemp", "getCopy"} :
             pc' = [pc EXCEPT ![q] = to]
      BY <2>2 DEF CreateOrUpdate, Wait, Copy, WaitCopy, DeleteTemporary, waitForSnapshotReady,
                  Continues, CreateReturns, Goto, AfterCreate, AfterCreateV2
    <3>2. QED
      BY <1>3, <3>1
  <2>3. CASE \/ DeleteSnapshot(q) \/ DeleteSnapshotV2(q)
             \/ ListSnapshots(q) \/ ListSnapshotsV2(q)
    <3>1. pc[q] \in {"delete", "list"} /\ \E to : pc' = [pc EXCEPT ![q] = to]
      BY <2>3 DEF DeleteSnapshot, DeleteSnapshotV2, ListSnapshots, ListSnapshotsV2,
                  Deletes, Lists, Continues, Goto
    <3>2. QED
      BY <1>i, <1>1, <1>3, <3>1 DEF Calls
  <2>4. CASE Reply(q)
    <3>1. pc' = [pc EXCEPT ![q] = "idle"]
      BY <2>4 DEF Reply
    <3>2. QED
      BY <1>i, <1>1, <3>1 DEF TypeOK
  <2>5. CASE Get(q) \/ GetCopy(q)
    <3>1. \E to : pc' = [pc EXCEPT ![q] = to]
      BY <2>5 DEF Get, GetCopy, getSnapshotByID, CreateReturns, Continues, Goto
    <3>2. QED
      BY <1>3, <2>5, <3>1
  <2>6. QED
    BY <1>8, <2>1, <2>2, <2>3, <2>4, <2>5 DEF Handler
<1>9. QED
  BY <1>2, <1>5, <1>6, <1>7, <1>8 DEF Next

\* What a handler knows when it answers.
LEMMA AnswerFacts ==
    ASSUME IInv, [Next]_vars, NEW r \in Reqs, Answers(r)
    PROVE  /\ v2 \/ shouldWaitForSnapshotReady \/ name[r] \in remote => snap[S(name[r])].done
           /\ name[r] \in remote \ stray => snap[Local(name[r])] = None
           /\ name[r] \notin remote => snap[S(name[r])].of = vol[r]
<1>i. TypeOK /\ Calls /\ Progress
  BY DEF IInv
<1>1. CASE GetCopy(r)
  <2>1. pc[r] = "getCopy" /\ name[r] \in remote
    BY <1>i, <1>1 DEF GetCopy, Calls
  <2>2. QED
    BY <1>i, <2>1 DEF Progress
<1>2. CASE Get(r)
  <2>1. pc[r] = "get" /\ pc'[r] = "ok"
    BY <1>2 DEF Get, Answers
  <2>2. name[r] \notin remote
    <3>1. SUFFICES ASSUME name[r] \in remote PROVE FALSE
      OBVIOUS
    <3>2. \E to \in {"copy", "err"} : pc' = [pc EXCEPT ![r] = to]
      BY <1>2, <3>1 DEF Get, getSnapshotByID, AfterGet, CreateReturns, Continues, Goto
    <3>3. QED
      BY <1>i, <2>1, <3>2 DEF TypeOK
  <2>3. QED
    BY <1>i, <2>1, <2>2 DEF Progress
<1>3. QED
  BY <1>1, <1>2, AnswersAtGet

\* CreateSnapshot answers OK with complete data where it waits for it.
THEOREM AnswerIsComplete == Spec => AnsweredIsComplete
<1>1. IInv /\ [Next]_vars =>
        [\A r \in Reqs :
          Answers(r) /\ (v2 \/ shouldWaitForSnapshotReady \/ name[r] \in remote) =>
              snap[S(name[r])].done]_vars
  BY AnswerFacts
<1>2. QED
  BY <1>1, Invariant, PTL DEF Spec, AnsweredIsComplete

\* CreateSnapshot answers OK for another region with the temporary snapshot gone.
THEOREM TemporaryIsRemoved == Spec => TemporaryRemoved
<1>1. IInv /\ [Next]_vars =>
        [\A r \in Reqs :
          Answers(r) /\ name[r] \in remote \ stray => snap[Local(name[r])] = None]_vars
  BY AnswerFacts
<1>2. QED
  BY <1>1, Invariant, PTL DEF Spec, TemporaryRemoved

\* CreateSnapshot answers OK within a region with a snapshot of the volume asked for.
THEOREM AnswerIsOfVolume == Spec => AnsweredIsOfVolume
<1>1. IInv /\ [Next]_vars =>
        [\A r \in Reqs :
          Answers(r) /\ name[r] \notin remote => snap[S(name[r])].of = vol[r]]_vars
  BY AnswerFacts
<1>2. QED
  BY <1>1, Invariant, PTL DEF Spec, AnsweredIsOfVolume
=============================================================================
