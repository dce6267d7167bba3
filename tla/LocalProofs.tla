----------------------------- MODULE LocalProofs -----------------------------
(* Proofs about LocalSnapshot, for every value of its constants. *)
EXTENDS LocalSnapshot, TLAPS

-----------------------------------------------------------------------------
(* Histories: sequences that only grow at their end. *)

\* A prefix, position by position.
LEMMA PrefixPositions ==
  ASSUME NEW S, NEW s \in Seq(S), NEW t \in Seq(S)
  PROVE  IsPrefix(s, t) <=> Len(s) <= Len(t) /\ \A i \in 1..Len(s) : s[i] = t[i]
  <1>1. SubSeq(s, 1, Len(s)) = s
    OBVIOUS
  <1>2. ASSUME Len(s) <= Len(t)
        PROVE  /\ SubSeq(t, 1, Len(s)) \in Seq(S)
               /\ Len(SubSeq(t, 1, Len(s))) = Len(s)
               /\ \A i \in 1..Len(s) : SubSeq(t, 1, Len(s))[i] = t[i]
    BY <1>2
  <1> QED
    BY <1>1, <1>2 DEF IsPrefix

\* Appending, position by position.
LEMMA AppendPositions ==
  ASSUME NEW S, NEW s \in Seq(S), NEW u \in S
  PROVE  /\ Append(s, u) \in Seq(S)
         /\ Len(Append(s, u)) = Len(s) + 1
         /\ \A i \in 1..Len(s) : Append(s, u)[i] = s[i]
         /\ Append(s, u)[Len(s) + 1] = u
  OBVIOUS

\* A history is a prefix of itself, and of what it becomes when an update is added.
LEMMA PrefixOfAppend ==
  ASSUME NEW S, NEW s \in Seq(S), NEW u \in S
  PROVE  /\ IsPrefix(s, s)
         /\ Append(s, u) \in Seq(S)
         /\ IsPrefix(s, Append(s, u))
  <1>1. IsPrefix(s, s)
    BY DEF IsPrefix
  <1>2. Append(s, u) \in Seq(S) /\ Len(s) \in Nat
    BY AppendPositions
  <1>3. Len(s) <= Len(Append(s, u)) /\ \A i \in 1..Len(s) : s[i] = Append(s, u)[i]
    BY <1>2, AppendPositions
  <1> QED
    BY <1>1, <1>2, <1>3, PrefixPositions, Zenon

\* Prefixes compose.
LEMMA PrefixTransitive ==
  ASSUME NEW S, NEW r \in Seq(S), NEW s \in Seq(S), NEW t \in Seq(S), IsPrefix(r, s), IsPrefix(s, t)
  PROVE  IsPrefix(r, t)
  BY PrefixPositions

\* What a prefix contains stays.
LEMMA PrefixContains ==
  ASSUME NEW S, NEW s \in Seq(S), NEW t \in Seq(S), IsPrefix(s, t), NEW u, Contains(s, u)
  PROVE  Contains(t, u)
  BY PrefixPositions DEF Contains

\* Only the added update is new.
LEMMA AppendContains ==
  ASSUME NEW S, NEW s \in Seq(S), NEW u \in S, NEW v
  PROVE  Contains(Append(s, u), v) <=> Contains(s, v) \/ v = u
  <1>1. Len(s) \in Nat
    OBVIOUS
  <1>2. \A i : i \in 1..(Len(s) + 1) <=> i \in 1..Len(s) \/ i = Len(s) + 1
    BY <1>1
  <1>3. Contains(Append(s, u), v) <=> \E i \in 1..(Len(s) + 1) : Append(s, u)[i] = v
    BY AppendPositions DEF Contains
  <1> QED
    BY <1>2, <1>3, AppendPositions DEF Contains

\* Contains, in the words of the register.
LEMMA ContainsRange ==
  ASSUME NEW S, NEW s \in Seq(S), NEW u
  PROVE  Contains(s, u) <=> u \in Range(s)
  BY DEF Contains, Range

\* No duplicates, position by position.
LEMMA InjectivePositions ==
  ASSUME NEW S, NEW s \in Seq(S)
  PROVE  IsInjective(s) <=> \A i, j \in 1..Len(s) : s[i] = s[j] => i = j
  <1>1. DOMAIN s = 1..Len(s)
    OBVIOUS
  <1> QED
    BY <1>1, Zenon DEF IsInjective

\* The empty history contains nothing, and begins every other.
LEMMA EmptyHistory ==
  ASSUME NEW S
  PROVE  /\ <<>> \in Seq(S)
         /\ IsInjective(<<>>)
         /\ \A s \in Seq(S) : IsPrefix(<<>>, s)
         /\ \A v : ~ Contains(<<>>, v)
  <1>1. <<>> \in Seq(S) /\ Len(<<>>) = 0
    OBVIOUS
  <1>2. IsInjective(<<>>)
    <2>1. \A i, j \in 1..Len(<<>>) : <<>>[i] = <<>>[j] => i = j
      BY <1>1
    <2> QED
      BY <1>1, <2>1, InjectivePositions, Zenon
  <1>3. \A v : ~ Contains(<<>>, v)
    BY DEF Contains
  <1>4. ASSUME NEW s \in Seq(S)
        PROVE  IsPrefix(<<>>, s)
    <2>1. Len(<<>>) <= Len(s) /\ \A i \in 1..Len(<<>>) : <<>>[i] = s[i]
      BY <1>1
    <2> QED
      BY <1>1, <2>1, PrefixPositions, Zenon
  <1> QED
    BY <1>1, <1>2, <1>3, <1>4, Zenon

\* An update that is new to a history without duplicates adds none.
LEMMA AppendWithoutDuplicate ==
  ASSUME NEW S, NEW s \in Seq(S), NEW u \in S, IsInjective(s), ~ Contains(s, u)
  PROVE  IsInjective(Append(s, u))
  <1>1. /\ Len(s) \in Nat
        /\ \A i \in 1..Len(s) : s[i] # u
        /\ \A i, j \in 1..Len(s) : s[i] = s[j] => i = j
    BY InjectivePositions DEF Contains
  <1>2. ASSUME NEW t \in Seq(S), Len(t) = Len(s) + 1, \A i \in 1..Len(s) : t[i] = s[i], t[Len(s) + 1] = u
        PROVE  IsInjective(t)
    <2>1. ASSUME NEW i \in 1..Len(t), NEW j \in 1..Len(t), t[i] = t[j]
          PROVE  i = j
      BY <1>1, <1>2, <2>1
    <2> QED
      BY <2>1, InjectivePositions, Zenon
  <1>3. /\ Append(s, u) \in Seq(S)
        /\ Len(Append(s, u)) = Len(s) + 1
        /\ \A i \in 1..Len(s) : Append(s, u)[i] = s[i]
        /\ Append(s, u)[Len(s) + 1] = u
    BY AppendPositions
  <1> QED
    BY <1>2, <1>3, Zenon

\* A history without duplicates has none in its beginning either.
LEMMA PrefixWithoutDuplicate ==
  ASSUME NEW S, NEW s \in Seq(S), NEW t \in Seq(S), IsPrefix(s, t), IsInjective(t)
  PROVE  IsInjective(s)
  BY PrefixPositions, InjectivePositions

\* A history that has grown by updates of open calls, without a duplicate, has
\* grown in a way the register allows.
LEMMA GrowthIsApply ==
  ASSUME NEW S, NEW s \in Seq(S), NEW t \in Seq(S), NEW Open,
         IsPrefix(s, t), s # t, IsInjective(t),
         \A u \in S : Contains(t, u) /\ ~ Contains(s, u) => u \in Open
  PROVE  LET new == SubSeq(t, Len(s) + 1, Len(t))
         IN  /\ Len(s) < Len(t)
             /\ SubSeq(t, 1, Len(s)) = s
             /\ Range(new) \subseteq Open \ Range(s)
             /\ IsInjective(new)
  <1> DEFINE new == SubSeq(t, Len(s) + 1, Len(t))
  <1>0. \A i, j \in 1..Len(t) : t[i] = t[j] => i = j
    BY InjectivePositions, Zenon
  <1>1. Len(s) <= Len(t) /\ \A i \in 1..Len(s) : s[i] = t[i]
    BY PrefixPositions
  <1>2. /\ new \in Seq(S)
        /\ Len(new) = Len(t) - Len(s)
        /\ \A i \in 1..Len(new) : new[i] = t[i + Len(s)] /\ i + Len(s) \in 1..Len(t)
    BY <1>1
  <1> HIDE DEF new
  <1>3. IsInjective(new)
    <2>1. ASSUME NEW i \in 1..Len(new), NEW j \in 1..Len(new), new[i] = new[j]
          PROVE  i = j
      BY <1>1, <1>2, <1>0, <2>1
    <2> QED
      BY <2>1, <1>2, InjectivePositions, Zenon
  <1>4. ASSUME NEW i \in 1..Len(new)
        PROVE  new[i] \in Open /\ ~ Contains(s, new[i])
    <2>1. ~ Contains(s, new[i])
      <3>1. /\ new[i] = t[i + Len(s)]
            /\ i + Len(s) \in 1..Len(t)
        BY <1>2, Zenon
      <3>2. ASSUME NEW j \in 1..Len(s), s[j] = new[i]
            PROVE  FALSE
        <4>1. j \in 1..Len(t) /\ t[j] = t[i + Len(s)]
          BY <1>1, <3>1, <3>2
        <4>2. j = i + Len(s)
          BY <4>1, <3>1, <1>0, Zenon
        <4> QED
          BY <4>2
      <3> QED
        BY <3>2, Zenon DEF Contains
    <2>2. Contains(t, new[i]) /\ new[i] \in S
      <3>1. /\ new[i] = t[i + Len(s)]
            /\ i + Len(s) \in 1..Len(t)
        BY <1>2, Zenon
      <3>2. t[i + Len(s)] \in S
        BY <3>1, SMTT(30)
      <3> QED
        BY <3>1, <3>2, Zenon DEF Contains
    <2> QED
      BY <2>1, <2>2, Zenon
  <1>5. Range(new) \subseteq Open \ Range(s)
    BY <1>2, <1>4, ContainsRange DEF Range
  <1>6. Len(s) < Len(t) /\ SubSeq(t, 1, Len(s)) = s
    <2>1. SubSeq(t, 1, Len(s)) = s
      BY <1>1
    <2>2. Len(s) # Len(t)
      BY <2>1
    <2> QED
      BY <1>1, <2>1, <2>2
  <1> QED
    BY <1>3, <1>5, <1>6, Zenon DEF new

-----------------------------------------------------------------------------
(* The inductive invariant. *)

\* Where a process has the lock, and where it has loaded the snapshot.
InLock == {"locked", "loaded", "created", "written", "renamed", "synced"}
Loaded == InLock \ {"locked"}

\* The flock excludes: whoever is past it is its holder.
OneHolder == \A p \in Procs : pc[p] \in InLock => holder = p

\* A process in a call works on an update of its own, which is not answered yet.
EachItsOwn ==
  \A p \in Procs :
    /\ pc[p] \in {"idle", "initializing"} => op[p] = None
    /\ pc[p] \notin {"idle", "initializing"} => op[p] \in Updates /\ answer[op[p]] = "pending"
    /\ \A q \in Procs : op[p] = op[q] /\ op[p] # None => p = q

\* The files of a directory are made in it, and the temporary one last.
MadeInOrder(d) == (d.files # {} => d.made) /\ (d.tmp => d.files = Files)

Layout ==
  /\ MadeInOrder(visible) /\ MadeInOrder(durable)
  /\ \A p \in Procs : /\ pc[p] \in Loaded => visible.files = Files
                      /\ pc[p] = "initializing" => visible.made

\* What is durable is the beginning of what is visible, nothing is in it twice,
\* and it holds no update that was refused.
Histories ==
  /\ IsPrefix(durable.state, visible.state)
  /\ IsInjective(visible.state)
  /\ \A u \in Updates :
       /\ Contains(visible.state, u) => answer[u] \in {"pending", "maybe", "ok"}
       /\ answer[u] = "ok" => Contains(durable.state, u)

\* How far the holder of the lock is.
Progress ==
  \A p \in Procs :
    /\ pc[p] \in {"locking", "locked", "loaded", "created", "written"} => ~ Contains(visible.state, op[p])
    /\ pc[p] \in {"loaded", "created", "written"} =>
         next[p] \in {visible.state, Append(visible.state, op[p])}
    /\ pc[p] \in {"renamed", "synced"} => next[p] = visible.state
    /\ pc[p] = "synced" => durable.state = visible.state

\* The inductive invariant
Inv == TypeOK /\ OneHolder /\ EachItsOwn /\ Layout /\ Histories /\ Progress

-----------------------------------------------------------------------------
(* The type invariant, one lemma per group of actions.                      *)

\* What a call is answered with when it leaves the directories alone.
Answering(p) == NoLockFile(p) \/ LockTimeout(p) \/ Refuse(p) \/ Reject(p) \/ Succeed(p) \/ Fail(p)

\* An answering step is a Return.
LEMMA AnsweringReturns ==
  ASSUME NEW p \in Procs, Answering(p)
  PROVE  /\ pc[p] \in {"locking"} \cup InLock
         /\ \E a \in Answers : Return(p, a)
         /\ UNCHANGED <<visible, durable>>
  BY Zenon DEF Answering, NoLockFile, LockTimeout, Refuse, Reject, Succeed, Fail, InLock, Answers

\* Initialization keeps every variable's type.
LEMMA InitializationType ==
  ASSUME TypeOK, NEW p \in Procs,
         createSecureDirectory(p) \/ (\E f \in Files : initializeFile(p, f)) \/ SyncStore(p)
  PROVE  TypeOK'
  <1>1. CASE createSecureDirectory(p)
    <2>1. visible' \in Directory /\ durable' \in Directory
      BY <1>1, Zenon DEF TypeOK, createSecureDirectory, Directory
    <2>2. pc' \in [Procs -> Steps]
      BY <1>1, Zenon DEF TypeOK, createSecureDirectory, Steps
    <2> QED
      BY <1>1, <2>1, <2>2, Zenon DEF TypeOK, createSecureDirectory
  <1>2. CASE \E f \in Files : initializeFile(p, f)
    <2>1. PICK f \in Files : initializeFile(p, f)
      BY <1>2, Zenon
    <2>2. visible' \in Directory
      BY <2>1, Zenon DEF TypeOK, initializeFile, Directory
    <2> QED
      BY <2>1, <2>2, Zenon DEF TypeOK, initializeFile
  <1>3. CASE SyncStore(p)
    BY <1>3, Zenon DEF TypeOK, SyncStore, Steps
  <1> QED
    BY <1>1, <1>2, <1>3, Zenon

\* A Return keeps every variable's type.
LEMMA ReturnType ==
  ASSUME TypeOK, NEW p \in Procs, NEW a \in Answers, Return(p, a), UNCHANGED <<visible, durable>>
  PROVE  TypeOK'
  <1>1. pc' \in [Procs -> Steps]
    BY Zenon DEF TypeOK, Return, Steps
  <1>2. op' \in [Procs -> Updates \cup {None}] /\ next' \in [Procs -> Seq(Updates)]
    BY DEF TypeOK, Return
  <1>3. holder' \in Procs \cup {None} /\ answer' \in [Updates -> Answers]
    BY Zenon DEF TypeOK, Return
  <1> QED
    BY <1>1, <1>2, <1>3, Zenon DEF TypeOK

\* A call's own steps keep every variable's type.
LEMMA CallType ==
  ASSUME TypeOK, NEW p \in Procs,
         \/ \E u \in Updates : Call(p, u)
         \/ Acquire(p) \/ CreateTmp(p) \/ WriteTmp(p) \/ Rename(p) \/ SyncDir(p)
  PROVE  TypeOK'
  <1>1. CASE \E u \in Updates : Call(p, u)
    BY <1>1 DEF TypeOK, Call, Steps, Answers
  <1>2. CASE Acquire(p) \/ WriteTmp(p) \/ SyncDir(p)
    BY <1>2, Zenon DEF TypeOK, Acquire, WriteTmp, SyncDir, Steps
  <1>3. CASE CreateTmp(p)
    BY <1>3, Zenon DEF TypeOK, CreateTmp, Steps, Directory
  <1>4. CASE Rename(p)
    BY <1>4, Zenon DEF TypeOK, Rename, Steps, Directory
  <1> QED
    BY <1>1, <1>2, <1>3, <1>4, Zenon

\* Load keeps every variable's type: the update of a call is an update.
LEMMA LoadType ==
  ASSUME TypeOK, EachItsOwn, NEW p \in Procs, Load(p)
  PROVE  TypeOK'
  <1>1. op[p] \in Updates /\ visible.state \in Seq(Updates)
    BY Zenon DEF EachItsOwn, Load, TypeOK, Directory
  <1>2. Append(visible.state, op[p]) \in Seq(Updates)
    BY <1>1, AppendPositions, Zenon
  <1>3. next' \in [Procs -> Seq(Updates)]
    <2>1. PICK new \in Seq(Updates) : next' = [next EXCEPT ![p] = new]
      BY <1>1, <1>2, Zenon DEF Load
    <2> QED
      BY <2>1, Zenon DEF TypeOK
  <1>4. pc' \in [Procs -> Steps]
    BY Zenon DEF TypeOK, Load, Steps
  <1> QED
    BY <1>3, <1>4, Zenon DEF TypeOK, Load

\* Every variable keeps its type.
LEMMA TypeStep == TypeOK /\ EachItsOwn /\ [Next]_vars => TypeOK'
  <1> SUFFICES ASSUME TypeOK, EachItsOwn, [Next]_vars PROVE TypeOK'
    BY Zenon
  <1>1. ASSUME NEW p \in Procs, Answering(p)
        PROVE  TypeOK'
    BY <1>1, AnsweringReturns, ReturnType, Zenon
  <1>2. ASSUME NEW p \in Procs, Crash(p)
        PROVE  TypeOK'
    <2>1. pc' \in [Procs -> Steps]
      BY <1>2, Zenon DEF TypeOK, Crash, Steps
    <2>2. op' \in [Procs -> Updates \cup {None}] /\ next' \in [Procs -> Seq(Updates)]
      BY <1>2 DEF TypeOK, Crash
    <2>3. holder' \in Procs \cup {None} /\ answer' \in [Updates -> Answers]
      BY <1>2, Zenon DEF TypeOK, Crash, Answers
    <2> QED
      BY <1>2, <2>1, <2>2, <2>3, Zenon DEF TypeOK, Crash
  <1>3. CASE Flush
    BY <1>3, Zenon DEF Flush, TypeOK
  <1>4. CASE PowerLoss
    BY <1>4 DEF PowerLoss, TypeOK, Steps, Answers
  <1>5. CASE UNCHANGED vars
    BY <1>5, Zenon DEF vars, TypeOK
  <1> QED
    BY <1>1, <1>2, <1>3, <1>4, <1>5, InitializationType, CallType, LoadType, Zenon DEF Next, Step, Answering

-----------------------------------------------------------------------------
\* The lock has one holder: only Acquire enters the critical section, and only
\* when nobody is in it.
LEMMA OneHolderStep == TypeOK /\ OneHolder /\ [Next]_vars => OneHolder'
  <1> SUFFICES ASSUME TypeOK, OneHolder, [Next]_vars PROVE OneHolder'
    BY Zenon
  <1> USE LocalAssumption DEF OneHolder, InLock
  <1>1. ASSUME NEW p \in Procs,
               \/ createSecureDirectory(p) \/ SyncStore(p) \/ (\E f \in Files : initializeFile(p, f))
               \/ \E u \in Updates : Call(p, u)
        PROVE  OneHolder'
    BY <1>1 DEF TypeOK, createSecureDirectory, initializeFile, SyncStore, Call
  <1>2. ASSUME NEW p \in Procs, Acquire(p)
        PROVE  OneHolder'
    BY <1>2, Zenon DEF TypeOK, Acquire
  <1>3. ASSUME NEW p \in Procs, Load(p) \/ CreateTmp(p) \/ WriteTmp(p) \/ Rename(p) \/ SyncDir(p)
        PROVE  OneHolder'
    BY <1>3 DEF TypeOK, Load, CreateTmp, WriteTmp, Rename, SyncDir
  <1>4. ASSUME NEW p \in Procs, Answering(p) \/ Crash(p)
        PROVE  OneHolder'
    <2>1. pc' = [pc EXCEPT ![p] = "idle"] /\ holder' = IF holder = p THEN None ELSE holder
      BY <1>4, AnsweringReturns, Zenon DEF Return, Crash
    <2> QED
      BY <2>1, Zenon DEF TypeOK
  <1>5. CASE Flush \/ PowerLoss \/ UNCHANGED vars
    BY <1>5, Zenon DEF Flush, PowerLoss, vars
  <1> QED
    BY <1>1, <1>2, <1>3, <1>4, <1>5, Zenon DEF Next, Step, Answering

\* A call keeps its update to itself until it is answered.
LEMMA EachItsOwnStep == TypeOK /\ EachItsOwn /\ [Next]_vars => EachItsOwn'
  <1> SUFFICES ASSUME TypeOK, EachItsOwn, [Next]_vars PROVE EachItsOwn'
    BY Zenon
  <1> USE LocalAssumption DEF EachItsOwn
  <1>1. ASSUME NEW p \in Procs, createSecureDirectory(p) \/ SyncStore(p) \/ (\E f \in Files : initializeFile(p, f))
        PROVE  EachItsOwn'
    BY <1>1 DEF TypeOK, createSecureDirectory, initializeFile, SyncStore
  <1>2. ASSUME NEW p \in Procs, NEW u \in Updates, Call(p, u)
        PROVE  EachItsOwn'
    BY <1>2 DEF TypeOK, Call
  <1>3. ASSUME NEW p \in Procs, Acquire(p) \/ Load(p) \/ CreateTmp(p) \/ WriteTmp(p) \/ Rename(p) \/ SyncDir(p)
        PROVE  EachItsOwn'
    <2>1. PICK step \in InLock : pc' = [pc EXCEPT ![p] = step]
      BY <1>3, Zenon DEF Acquire, Load, CreateTmp, WriteTmp, Rename, SyncDir, InLock
    <2>2. pc[p] \notin {"idle", "initializing"} /\ UNCHANGED <<op, answer>>
      BY <1>3, Zenon DEF Acquire, Load, CreateTmp, WriteTmp, Rename, SyncDir
    <2> QED
      BY <2>1, <2>2 DEF TypeOK, InLock
  <1>4. ASSUME NEW p \in Procs, Answering(p) \/ Crash(p)
        PROVE  EachItsOwn'
    <2>1. /\ pc' = [pc EXCEPT ![p] = "idle"] /\ op' = [op EXCEPT ![p] = None]
          /\ \A u \in Updates : u # op[p] => answer'[u] = answer[u]
      BY <1>4, AnsweringReturns DEF Return, Crash, TypeOK
    <2> QED
      BY <2>1 DEF TypeOK
  <1>5. CASE Flush \/ PowerLoss \/ UNCHANGED vars
    BY <1>5 DEF Flush, PowerLoss, vars
  <1> QED
    BY <1>1, <1>2, <1>3, <1>4, <1>5, Zenon DEF Next, Step, Answering

\* The directory is made before its files, and the temporary file after them.
LEMMA LayoutStep == TypeOK /\ Layout /\ [Next]_vars => Layout'
  <1> SUFFICES ASSUME TypeOK, Layout, [Next]_vars PROVE Layout'
    BY Zenon
  <1> USE DEF Layout, MadeInOrder, Loaded, InLock
  <1>1. ASSUME NEW p \in Procs, createSecureDirectory(p)
        PROVE  Layout'
    BY <1>1, Zenon DEF TypeOK, createSecureDirectory, Directory
  <1>2. ASSUME NEW p \in Procs, NEW f \in Files, initializeFile(p, f)
        PROVE  Layout'
    BY <1>2, Zenon DEF TypeOK, initializeFile, Directory
  <1>3. ASSUME NEW p \in Procs, SyncStore(p) \/ SyncDir(p)
        PROVE  Layout'
    BY <1>3, Zenon DEF TypeOK, SyncStore, SyncDir
  <1>4. ASSUME NEW p \in Procs, (\E u \in Updates : Call(p, u)) \/ Acquire(p) \/ Load(p) \/ WriteTmp(p)
        PROVE  Layout'
    BY <1>4, ZenonT(60) DEF TypeOK, Call, Acquire, Load, WriteTmp, validateStoreEntries
  <1>5. ASSUME NEW p \in Procs, CreateTmp(p)
        PROVE  Layout'
    BY <1>5, Zenon DEF TypeOK, CreateTmp, Directory, validateStoreEntries
  <1>6. ASSUME NEW p \in Procs, Rename(p)
        PROVE  Layout'
    BY <1>6, Zenon DEF TypeOK, Rename, Directory
  <1>7. ASSUME NEW p \in Procs, Answering(p) \/ Crash(p)
        PROVE  Layout'
    <2>1. pc' = [pc EXCEPT ![p] = "idle"] /\ UNCHANGED <<visible, durable>>
      BY <1>7, AnsweringReturns, Zenon DEF Return, Crash
    <2> QED
      BY <2>1, Zenon DEF TypeOK
  <1>8. CASE Flush \/ PowerLoss \/ UNCHANGED vars
    BY <1>8, Zenon DEF Flush, PowerLoss, vars
  <1> QED
    BY <1>1, <1>2, <1>3, <1>4, <1>5, <1>6, <1>7, <1>8, Zenon DEF Next, Step, Answering

-----------------------------------------------------------------------------
\* The snapshots of the two directories are histories.
LEMMA StatesType == TypeOK => visible.state \in Seq(Updates) /\ durable.state \in Seq(Updates)
  BY Zenon DEF TypeOK, Directory

\* What an answer says of the two histories: ok only when the update is durable,
\* no and same only when it is nowhere.
LEMMA AnswerIsRight ==
  ASSUME Inv, NEW p \in Procs, Answering(p)
  PROVE  \E a \in {"ok", "same", "no", "maybe"} :
           /\ Return(p, a)
           /\ a = "ok" => Contains(durable.state, op[p])
           /\ a \in {"no", "same"} => ~ Contains(visible.state, op[p])
  <1>1. CASE Succeed(p)
    <2>1. next[p] = visible.state /\ durable.state = visible.state
      BY <1>1, Zenon DEF Inv, Progress, Succeed
    <2> QED
      BY <1>1, <2>1, Zenon DEF Succeed
  <1>2. CASE LockTimeout(p) \/ Reject(p)
    <2>1. Return(p, "no") /\ ~ Contains(visible.state, op[p])
      BY <1>2, Zenon DEF Inv, Progress, LockTimeout, Reject
    <2> QED
      BY <2>1, Zenon
  <1>3. CASE NoLockFile(p) \/ Refuse(p) \/ Fail(p)
    <2>1. Return(p, "maybe")
      BY <1>3, Zenon DEF NoLockFile, Refuse, Fail
    <2> QED
      BY <2>1, Zenon
  <1> QED
    BY <1>1, <1>2, <1>3, Zenon DEF Answering

\* What Rename makes visible is the old history, or the old history and the
\* update of the call.
LEMMA RenameGrows ==
  ASSUME Inv, NEW p \in Procs, Rename(p)
  PROVE  /\ visible'.state \in Seq(Updates)
         /\ IsPrefix(visible.state, visible'.state)
         /\ IsInjective(visible'.state)
         /\ \A u : Contains(visible'.state, u) => Contains(visible.state, u) \/ u = op[p]
  <1>1. /\ op[p] \in Updates
        /\ ~ Contains(visible.state, op[p])
        /\ next[p] \in {visible.state, Append(visible.state, op[p])}
        /\ IsInjective(visible.state)
    BY Zenon DEF Inv, Progress, EachItsOwn, Histories, Rename
  <1>2. visible.state \in Seq(Updates)
    BY StatesType, Zenon DEF Inv
  <1>3. visible'.state = next[p]
    BY Zenon DEF Rename, Inv, TypeOK, Directory
  <1>4. CASE next[p] = visible.state
    BY <1>1, <1>2, <1>3, <1>4, PrefixOfAppend, Zenon
  <1>5. CASE next[p] = Append(visible.state, op[p])
    BY <1>1, <1>2, <1>3, <1>5, PrefixOfAppend, AppendContains, AppendWithoutDuplicate
  <1> QED
    BY <1>1, <1>4, <1>5, Zenon

\* The histories grow, whoever dies and whatever fails: an acknowledged update
\* stays durable and a refused one stays away.
LEMMA HistoriesStep == Inv /\ [Next]_vars => Histories'
  <1> SUFFICES ASSUME Inv, [Next]_vars PROVE Histories'
    BY Zenon
  <1>0. Histories /\ TypeOK
    BY Zenon DEF Inv
  <1>1. visible.state \in Seq(Updates) /\ durable.state \in Seq(Updates)
    BY StatesType, Zenon DEF Inv
  <1>2. ASSUME visible'.state = visible.state, durable'.state = durable.state, answer' = answer
        PROVE  Histories'
    BY <1>0, <1>2, Zenon DEF Histories
  <1>3. ASSUME NEW p \in Procs, createSecureDirectory(p) \/ (\E f \in Files : initializeFile(p, f)) \/ CreateTmp(p)
        PROVE  Histories'
    BY <1>0, <1>2, <1>3 DEF TypeOK, Directory, createSecureDirectory, initializeFile, CreateTmp
  <1>4. ASSUME NEW p \in Procs, Acquire(p) \/ Load(p) \/ WriteTmp(p)
        PROVE  Histories'
    BY <1>2, <1>4, Zenon DEF Acquire, Load, WriteTmp
  <1>5. ASSUME NEW p \in Procs, NEW u \in Updates, Call(p, u)
        PROVE  Histories'
    BY <1>0, <1>5, Zenon DEF Histories, TypeOK, Call
  <1>6. ASSUME durable' = visible, visible' = visible, answer' = answer
        PROVE  Histories'
    <2>1. IsPrefix(visible.state, visible.state)
      BY <1>1, PrefixPositions
    <2>2. \A u \in Updates : answer[u] = "ok" => Contains(visible.state, u)
      BY <1>0, <1>1, PrefixContains, Zenon DEF Histories
    <2> QED
      BY <1>0, <1>6, <2>1, <2>2, Zenon DEF Histories
  <1>7. ASSUME NEW p \in Procs, SyncStore(p) \/ SyncDir(p)
        PROVE  Histories'
    BY <1>6, <1>7, Zenon DEF SyncStore, SyncDir
  <1>8. ASSUME NEW p \in Procs, Rename(p)
        PROVE  Histories'
    <2>1. durable' = durable /\ answer' = answer /\ answer[op[p]] = "pending"
      BY <1>8, Zenon DEF Rename, Inv, EachItsOwn
    <2>2. IsPrefix(durable.state, visible'.state)
      BY <1>0, <1>1, <1>8, RenameGrows, PrefixTransitive, Zenon DEF Histories
    <2>3. IsInjective(visible'.state)
      BY <1>8, RenameGrows, Zenon
    <2>4. \A u : Contains(visible'.state, u) => Contains(visible.state, u) \/ u = op[p]
      BY <1>8, RenameGrows, Zenon
    <2> QED
      BY <1>0, <2>1, <2>2, <2>3, <2>4, Zenon DEF Histories
  <1>9. ASSUME NEW p \in Procs, Answering(p)
        PROVE  Histories'
    <2>1. PICK a \in {"ok", "same", "no", "maybe"} :
            /\ Return(p, a)
            /\ a = "ok" => Contains(durable.state, op[p])
            /\ a \in {"no", "same"} => ~ Contains(visible.state, op[p])
      BY <1>9, AnswerIsRight, Zenon
    <2>2. UNCHANGED <<visible, durable>>
      BY <1>9, AnsweringReturns, Zenon
    <2>3. \A u \in Updates : answer'[u] = IF u = op[p] THEN a ELSE answer[u]
      BY <1>0, <2>1, Zenon DEF Return, TypeOK
    <2> QED
      BY <1>0, <2>1, <2>2, <2>3, Zenon DEF Histories
  <1>10. ASSUME NEW p \in Procs, Crash(p)
         PROVE  Histories'
    BY <1>0, <1>10, Zenon DEF Histories, Crash, Inv, EachItsOwn, TypeOK
  <1>11. CASE Flush
    BY <1>6, <1>11, Zenon DEF Flush
  <1>12. CASE PowerLoss
    <2>1. IsPrefix(durable.state, durable.state) /\ IsInjective(durable.state)
      BY <1>0, <1>1, PrefixPositions, PrefixWithoutDuplicate DEF Histories
    <2>2. \A u \in Updates : Contains(durable.state, u) => Contains(visible.state, u)
      BY <1>0, <1>1, PrefixContains, Zenon DEF Histories
    <2>3. \A u \in Updates : answer'[u] = IF answer[u] = "pending" THEN "maybe" ELSE answer[u]
      BY <1>12, Zenon DEF PowerLoss
    <2> QED
      BY <1>0, <1>12, <2>1, <2>2, <2>3, Zenon DEF Histories, PowerLoss
  <1>13. CASE UNCHANGED vars
    BY <1>2, <1>13, Zenon DEF vars
  <1> QED
    BY <1>3, <1>4, <1>5, <1>7, <1>8, <1>9, <1>10, <1>11, <1>12, <1>13, Zenon DEF Next, Step, Answering

\* The holder of the lock works on the history it has read: nobody changes it
\* before the rename, and nobody adds the same update.
LEMMA ProgressStep == Inv /\ [Next]_vars => Progress'
  <1> SUFFICES ASSUME Inv, [Next]_vars PROVE Progress'
    BY Zenon
  <1>0. TypeOK /\ Progress /\ OneHolder /\ EachItsOwn
    BY Zenon DEF Inv
  <1>1. ASSUME visible'.state = visible.state, durable'.state = durable.state, UNCHANGED <<op, next>>,
               NEW p \in Procs, NEW step, pc' = [pc EXCEPT ![p] = step],
               \/ step = pc[p]
               \/ step \in {"idle", "initializing"}
               \/ pc[p] = "locking" /\ step = "locked"
               \/ pc[p] = "loaded" /\ step = "created"
               \/ pc[p] = "created" /\ step = "written"
        PROVE  Progress'
    BY <1>0, <1>1 DEF Progress, TypeOK
  <1>2. ASSUME NEW p \in Procs, createSecureDirectory(p) \/ Acquire(p) \/ CreateTmp(p) \/ WriteTmp(p)
        PROVE  Progress'
    BY <1>0, <1>1, <1>2 DEF TypeOK, Directory, createSecureDirectory, Acquire, CreateTmp, WriteTmp
  <1>3. ASSUME NEW p \in Procs, NEW f \in Files, initializeFile(p, f)
        PROVE  Progress'
    <2>1. visible'.state = visible.state /\ pc' = [pc EXCEPT ![p] = pc[p]]
      BY <1>0, <1>3, Zenon DEF TypeOK, Directory, initializeFile
    <2> QED
      BY <1>1, <1>3, <2>1, Zenon DEF initializeFile
  <1>4. ASSUME NEW p \in Procs, NEW u \in Updates, Call(p, u)
        PROVE  Progress'
    <2>1. ~ Contains(visible.state, u)
      BY <1>4, Zenon DEF Inv, Histories, Call
    <2> QED
      BY <1>0, <1>4, <2>1, Zenon DEF Progress, TypeOK, Call
  <1>5. ASSUME NEW p \in Procs, Load(p)
        PROVE  Progress'
    <2>1. \A q \in Procs : q # p => pc'[q] = pc[q] /\ next'[q] = next[q]
      BY <1>0, <1>5, Zenon DEF TypeOK, Load
    <2>2. pc'[p] = "loaded" /\ next'[p] \in {visible.state, Append(visible.state, op[p])}
      BY <1>0, <1>5, Zenon DEF TypeOK, Load
    <2>3. ~ Contains(visible.state, op[p]) /\ UNCHANGED <<op, visible, durable>>
      BY <1>0, <1>5, Zenon DEF Progress, Load
    <2> QED
      BY <1>0, <2>1, <2>2, <2>3 DEF Progress
  <1>6. ASSUME NEW p \in Procs, Rename(p)
        PROVE  Progress'
    <2>1. /\ visible'.state = next[p] /\ durable' = durable
          /\ UNCHANGED <<op, next>>
          /\ pc' = [pc EXCEPT ![p] = "renamed"]
      BY <1>0, <1>6, Zenon DEF TypeOK, Directory, Rename
    <2>2. \A q \in Procs : q # p => pc[q] \notin InLock
      BY <1>0, <1>6, Zenon DEF OneHolder, Rename, InLock
    <2>3. ASSUME NEW q \in Procs, q # p, pc[q] = "locking"
          PROVE  ~ Contains(visible'.state, op[q])
      <3>1. op[q] # op[p] /\ ~ Contains(visible.state, op[q])
        BY <1>0, <1>6, <2>3, LocalAssumption DEF EachItsOwn, Progress, Rename
      <3> QED
        BY <1>6, <3>1, RenameGrows, Zenon
    <2> QED
      BY <1>0, <2>1, <2>2, <2>3, Zenon DEF Progress, TypeOK, InLock
  <1>7. ASSUME visible' = visible, durable' = visible, UNCHANGED <<op, next>>,
               NEW p \in Procs, NEW step, pc' = [pc EXCEPT ![p] = step],
               step \in {pc[p], "idle"} \/ (pc[p] = "renamed" /\ step = "synced")
        PROVE  Progress'
    BY <1>0, <1>7, Zenon DEF Progress, TypeOK
  <1>8. ASSUME NEW p \in Procs, SyncStore(p) \/ SyncDir(p)
        PROVE  Progress'
    BY <1>7, <1>8, Zenon DEF SyncStore, SyncDir
  <1>9. ASSUME NEW p \in Procs, Answering(p) \/ Crash(p)
        PROVE  Progress'
    <2>1. /\ pc' = [pc EXCEPT ![p] = "idle"] /\ op' = [op EXCEPT ![p] = None]
          /\ next' = [next EXCEPT ![p] = <<>>] /\ UNCHANGED <<visible, durable>>
      BY <1>9, AnsweringReturns, Zenon DEF Return, Crash
    <2>2. \A q \in Procs : q # p => pc'[q] = pc[q] /\ op'[q] = op[q] /\ next'[q] = next[q]
      BY <1>0, <2>1, Zenon DEF TypeOK
    <2>3. pc'[p] = "idle"
      BY <1>0, <2>1, Zenon DEF TypeOK
    <2> QED
      BY <1>0, <2>1, <2>2, <2>3 DEF Progress
  <1>10. CASE Flush
    <2>1. \A p \in Procs : pc[p] = "synced" => durable'.state = visible'.state
      BY <1>10, Zenon DEF Flush
    <2> QED
      BY <1>0, <1>10, <2>1, Zenon DEF Flush, Progress
  <1>11. CASE PowerLoss \/ UNCHANGED vars
    BY <1>0, <1>11, Zenon DEF Progress, PowerLoss, vars
  <1> QED
    BY <1>2, <1>3, <1>4, <1>5, <1>6, <1>8, <1>9, <1>10, <1>11, Zenon DEF Next, Step, Answering

-----------------------------------------------------------------------------
\* The first directory is none at all.
LEMMA InitInv == Init => Inv
  <1> SUFFICES ASSUME Init PROVE Inv
    BY Zenon
  <1>1. TypeOK
    BY DEF Init, TypeOK, Steps, Directory, Answers
  <1>2. visible.state = <<>> /\ durable.state = <<>>
    BY Zenon DEF Init
  <1>3. IsPrefix(<<>>, <<>>) /\ IsInjective(<<>>) /\ \A u : ~ Contains(<<>>, u)
    BY EmptyHistory, Zenon
  <1>4. Histories
    BY <1>2, <1>3, Zenon DEF Init, Histories
  <1>5. OneHolder /\ EachItsOwn /\ Progress
    BY Zenon DEF Init, OneHolder, EachItsOwn, Progress, InLock
  <1>6. Layout
    BY Zenon DEF Init, Layout, MadeInOrder, Loaded, InLock
  <1> QED
    BY <1>1, <1>4, <1>5, <1>6, Zenon DEF Inv

\* Every step keeps the invariant.
LEMMA NextInv == Inv /\ [Next]_vars => Inv'
  BY TypeStep, OneHolderStep, EachItsOwnStep, LayoutStep, HistoriesStep, ProgressStep, Zenon DEF Inv

\* The invariant holds in every state of withSnapshot over the POSIX files, for
\* any number of processes, calls, crashes and power losses.
THEOREM LocalInvariant == Spec => []Inv
  <1>1. Init => Inv
    BY InitInv, Zenon
  <1>2. Inv /\ [Next]_vars => Inv'
    BY NextInv, Zenon
  <1> QED
    BY <1>1, <1>2, PTL DEF Spec

\* Every variable of the local back end keeps its type.
THEOREM LocalTypeOK == Spec => []TypeOK
  <1>1. Inv => TypeOK
    BY Zenon DEF Inv
  <1> QED
    BY <1>1, LocalInvariant, PTL

\* An update that withSnapshot acknowledged outlives every crash and power loss.
THEOREM LocalAckedIsDurable == Spec => []AckedIsDurable
  <1>1. Inv => AckedIsDurable
    BY StatesType, PrefixContains, Zenon DEF Inv, Histories, AckedIsDurable
  <1> QED
    BY <1>1, LocalInvariant, PTL

\* What a replay saw is durable by the time it is answered.
THEOREM LocalSeenIsDurable == Spec => []SeenIsDurable
  <1>1. Inv => SeenIsDurable
    <2> SUFFICES ASSUME Inv, NEW p \in Procs, pc[p] = "synced" PROVE IsPrefix(next[p], durable.state)
      BY Zenon DEF SeenIsDurable
    <2>1. next[p] = durable.state
      BY Zenon DEF Inv, Progress
    <2> QED
      BY <2>1, StatesType, PrefixPositions DEF Inv
  <1> QED
    BY <1>1, LocalInvariant, PTL

\* A damaged directory is never written: validateStoreEntries and O_EXCL stop
\* every call before it reaches the files.
THEOREM LocalDamagedIsNeverWritten == Spec => DamagedIsNeverWritten
  <1>1. ASSUME Inv, [Next]_vars, Damaged
        PROVE  visible' \in {visible, durable}
    <2>0. Layout /\ (visible.tmp => visible.files = Files) /\ (visible.files # {} => visible.made) /\ Files # {}
      BY <1>1, Zenon DEF Inv, Layout, MadeInOrder, Files
    <2>1. ASSUME NEW p \in Procs, createSecureDirectory(p) \/ (\E f \in Files : initializeFile(p, f)) \/ CreateTmp(p)
          PROVE  FALSE
      <3>1. CASE createSecureDirectory(p)
        BY <1>1, <2>0, <3>1, Zenon DEF Damaged, createSecureDirectory
      <3>2. CASE \E f \in Files : initializeFile(p, f)
        BY <1>1, <2>0, <3>2, Zenon DEF Damaged, initializeFile
      <3>3. CASE CreateTmp(p)
        BY <1>1, <2>0, <3>3, Zenon DEF Damaged, CreateTmp, validateStoreEntries
      <3> QED
        BY <2>1, <3>1, <3>2, <3>3, Zenon
    <2>2. ASSUME NEW p \in Procs, Rename(p)
          PROVE  FALSE
      BY <1>1, <2>2, Zenon DEF Inv, Layout, Loaded, InLock, Damaged, Rename
    <2>3. ASSUME NEW p \in Procs, Answering(p) \/ Crash(p)
          PROVE  visible' = visible
      BY <2>3, AnsweringReturns, Zenon DEF Crash
    <2>4. ASSUME NEW p \in Procs,
                 \/ SyncStore(p) \/ (\E u \in Updates : Call(p, u)) \/ Acquire(p) \/ Load(p) \/ WriteTmp(p) \/ SyncDir(p)
          PROVE  visible' = visible
      BY <2>4, Zenon DEF SyncStore, Call, Acquire, Load, WriteTmp, SyncDir
    <2>5. CASE Flush \/ PowerLoss \/ UNCHANGED vars
      BY <2>5, Zenon DEF Flush, PowerLoss, vars
    <2> QED
      BY <1>1, <2>1, <2>2, <2>3, <2>4, <2>5, Zenon DEF Next, Step, Answering
  <1>2. Inv /\ [Next]_vars => [Damaged => visible' \in {visible, durable}]_vars
    BY <1>1, Zenon
  <1> QED
    BY <1>2, LocalInvariant, PTL DEF Spec, DamagedIsNeverWritten

-----------------------------------------------------------------------------
(* The refinement: each step of the back end is one of the register, or     *)
(* changes neither the durable history nor an answer.                       *)

\* The durable history catches up with the visible one.
LEMMA SyncApplies ==
  ASSUME Inv, durable'.state = visible.state, answer' = answer
  PROVE  Register!Next \/ UNCHANGED Register!vars
  <1>1. visible.state \in Seq(Updates) /\ durable.state \in Seq(Updates)
    BY StatesType, Zenon DEF Inv
  <1>2. IsPrefix(durable.state, visible.state) /\ IsInjective(visible.state)
    BY Zenon DEF Inv, Histories
  <1>3. ASSUME NEW u \in Updates, Contains(visible.state, u), ~ Contains(durable.state, u)
        PROVE  u \in Register!Open
    BY <1>3, Zenon DEF Inv, Histories, Register!Open
  <1>4. CASE durable.state = visible.state
    BY <1>4, Zenon DEF Register!vars
  <1>5. CASE durable.state # visible.state
    <2> DEFINE new == SubSeq(visible.state, Len(durable.state) + 1, Len(visible.state))
    <2>1. /\ Len(durable.state) < Len(visible.state)
          /\ SubSeq(visible.state, 1, Len(durable.state)) = durable.state
          /\ Range(new) \subseteq Register!Open \ Range(durable.state)
          /\ IsInjective(new)
      BY <1>1, <1>2, <1>3, <1>5, GrowthIsApply
    <2>2. /\ Register!Range(new) = Range(new)
          /\ Register!Range(durable.state) = Range(durable.state)
          /\ Register!IsInjective(new) <=> IsInjective(new)
      BY Zenon DEF Range, IsInjective, Register!Range, Register!IsInjective
    <2>3. Register!Apply
      BY <2>1, <2>2, Zenon DEF Register!Apply
    <2> QED
      BY <2>3, Zenon DEF Register!Next
  <1> QED
    BY <1>4, <1>5, Zenon

\* An answer of the back end is one the register may give.
LEMMA AnsweringAnswers ==
  ASSUME Inv, NEW p \in Procs, Answering(p)
  PROVE  Register!Next
  <1>1. PICK a \in {"ok", "same", "no", "maybe"} :
          /\ Return(p, a)
          /\ a = "ok" => Contains(durable.state, op[p])
          /\ a \in {"no", "same"} => ~ Contains(visible.state, op[p])
    BY AnswerIsRight, Zenon
  <1>2. durable' = durable
    BY AnsweringReturns, Zenon
  <1>3. op[p] \in Updates /\ answer[op[p]] = "pending"
    BY AnsweringReturns, Zenon DEF Inv, EachItsOwn, InLock
  <1>4. answer' = [answer EXCEPT ![op[p]] = a]
    BY <1>1, Zenon DEF Return
  <1>5. visible.state \in Seq(Updates) /\ durable.state \in Seq(Updates)
    BY StatesType, Zenon DEF Inv
  <1>6. Contains(durable.state, op[p]) <=> op[p] \in Register!Range(durable.state)
    BY <1>5, ContainsRange, Zenon DEF Range, Register!Range
  <1>7. ~ Contains(visible.state, op[p]) => ~ Contains(durable.state, op[p])
    BY <1>5, PrefixContains, Zenon DEF Inv, Histories
  <1>8. CASE a = "maybe"
    <2>1. answer' = [u \in Updates |-> IF u \in {op[p]} THEN "maybe" ELSE answer[u]]
      <3>1. answer \in [Updates -> Answers]
        BY Zenon DEF Inv, TypeOK
      <3> QED
        BY <1>3, <1>4, <1>8, <3>1, Zenon
    <2>2. Register!Abandon({op[p]})
      BY <1>2, <1>3, <2>1, Zenon DEF Register!Abandon
    <2> QED
      BY <1>3, <2>2, Zenon DEF Register!Next
  <1>9. CASE a # "maybe"
    <2>1. Register!Answer(op[p], a)
      BY <1>1, <1>2, <1>3, <1>4, <1>6, <1>7, Zenon DEF Register!Answer
    <2> QED
      BY <1>1, <1>3, <1>9, <2>1, Zenon DEF Register!Next
  <1> QED
    BY <1>8, <1>9, Zenon

\* Callers that die abandon their calls.
LEMMA DyingAbandons ==
  ASSUME Inv, PowerLoss \/ \E p \in Procs : Crash(p)
  PROVE  Register!Next \/ UNCHANGED Register!vars
  <1> DEFINE lost == {u \in Updates : answer[u] = "pending" /\ answer'[u] = "maybe"}
  <1>1. durable' = durable
    BY Zenon DEF PowerLoss, Crash
  <1>2. answer' = [u \in Updates |-> IF u \in lost THEN "maybe" ELSE answer[u]]
    <2>1. CASE PowerLoss
      BY <2>1, Zenon DEF PowerLoss
    <2>2. ASSUME NEW p \in Procs, Crash(p)
          PROVE  answer' = [u \in Updates |-> IF u \in lost THEN "maybe" ELSE answer[u]]
      BY <2>2, LocalAssumption DEF Crash, Inv, EachItsOwn
    <2> QED
      BY <2>1, <2>2, Zenon
  <1>3. CASE lost = {}
    BY <1>1, <1>2, <1>3, Zenon DEF Register!vars, Inv, TypeOK
  <1>4. CASE lost # {}
    <2>1. Register!Abandon(lost)
      BY <1>1, <1>2, <1>4, Zenon DEF Register!Abandon
    <2> QED
      BY <2>1, Zenon DEF Register!Next
  <1> QED
    BY <1>3, <1>4, Zenon

\* withSnapshot over the POSIX files promises its callers what SnapshotRegister
\* says: the safety of the register for any number of processes and calls.
THEOREM LocalImplementsRegister == Spec => ImplementsRegister
  <1>1. Init => Register!Init
    BY DEF Init, Register!Init
  <1>2. ASSUME Inv, [Next]_vars
        PROVE  Register!Next \/ UNCHANGED Register!vars
    <2>1. ASSUME NEW p \in Procs, createSecureDirectory(p)
          PROVE  UNCHANGED Register!vars
      BY <1>2, <2>1, Zenon DEF createSecureDirectory, Register!vars, Inv, TypeOK, Directory
    <2>2. ASSUME NEW p \in Procs,
                 \/ (\E f \in Files : initializeFile(p, f)) \/ Acquire(p) \/ Load(p)
                 \/ CreateTmp(p) \/ WriteTmp(p) \/ Rename(p)
          PROVE  UNCHANGED Register!vars
      BY <2>2, Zenon DEF initializeFile, Acquire, Load, CreateTmp, WriteTmp, Rename, Register!vars
    <2>3. ASSUME NEW p \in Procs, NEW u \in Updates, Call(p, u)
          PROVE  Register!Next
      BY <2>3, Zenon DEF Call, Register!Next, Register!Call
    <2>4. CASE Flush \/ \E p \in Procs : SyncStore(p) \/ SyncDir(p)
      BY <1>2, <2>4, SyncApplies, Zenon DEF Flush, SyncStore, SyncDir
    <2>5. CASE UNCHANGED vars
      BY <2>5, Zenon DEF vars, Register!vars
    <2> QED
      BY <1>2, <2>1, <2>2, <2>3, <2>4, <2>5, AnsweringAnswers, DyingAbandons, Zenon DEF Next, Step, Answering
  <1> QED
    BY <1>1, <1>2, LocalInvariant, PTL DEF Spec, ImplementsRegister, Register!Spec
=============================================================================
