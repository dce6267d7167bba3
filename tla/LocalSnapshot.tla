---------------------------- MODULE LocalSnapshot ----------------------------
(***************************************************************************)
(* The local back end of the intent journal: withSnapshot of store.go over *)
(* the POSIX files of store_posix.go.  Processes share one directory with  *)
(* the files lock, store.json and state.json; each call takes the flock,   *)
(* reads state.json, and replaces it through .state.tmp, fsync and rename. *)
(* A process may die between any two system calls, a system call may fail, *)
(* and the machine may lose power.  Within one process Store.mu allows one *)
(* call at a time, so a process is one caller.                             *)
(*                                                                         *)
(* The file system: a process sees every directory change at once; after a *)
(* power loss only what was synced, or what the kernel happened to write   *)
(* back (Flush), is left.  File contents are synced before a rename makes  *)
(* them visible, so a visible state.json is never torn.  The history in    *)
(* state.json is the sequence of the updates applied to it.                *)
(***************************************************************************)
EXTENDS Naturals, Sequences, SequencesExt

CONSTANTS
  Procs,        \* the processes (Terraform runs, intent-store-init)
  Updates,      \* one update per call
  MaxHistory,   \* maxSnapshotBytes, as a number of updates
  None

ASSUME LocalAssumption == None \notin Procs \cup Updates /\ MaxHistory \in Nat

VARIABLES
  pc,           \* where each process is in its call
  op,           \* the update of the call
  next,         \* the snapshot the call is about to write
  holder,       \* the process that holds the flock
  visible,      \* the directory as processes see it
  durable,      \* the directory a power loss leaves
  answer        \* what each call has been told

vars == <<pc, op, next, holder, visible, durable, answer>>

Files == {"lock", "store.json", "state.json"}

\* The directory: its entries besides .state.tmp, whether .state.tmp exists, and
\* the contents of state.json.
Directory ==
  [made : BOOLEAN, files : SUBSET Files, tmp : BOOLEAN, state : Seq(Updates)]

\* "maybe" stands for ErrStoreUnavailable, which the code returns both before
\* and after the rename, and for a caller that dies.
Answers == {"none", "pending", "ok", "same", "no", "maybe"}

Steps ==
  {"idle", "initializing", "locking", "locked", "loaded", "created", "written", "renamed",
   "synced"}

\* Mutants: the lock is not waited for; missing files are ignored; the directory is
\* not synced after the rename.
MutAcquire(p) ==
  /\ pc[p] = "locking"
  /\ pc' = [pc EXCEPT ![p] = "locked"]
  /\ holder' = p
  /\ UNCHANGED <<op, next, visible, durable, answer>>

MutvalidateStoreEntries(d) == ~ d.tmp

MutSyncDir(p) ==
  /\ pc[p] = "renamed"
  /\ pc' = [pc EXCEPT ![p] = "synced"]
  /\ UNCHANGED <<op, next, holder, visible, durable, answer>>

validateStoreEntries(d) == d.files = Files /\ ~ d.tmp

Init ==
  /\ pc = [p \in Procs |-> "idle"]
  /\ op = [p \in Procs |-> None]
  /\ next = [p \in Procs |-> <<>>]
  /\ holder = None
  /\ visible = [made |-> FALSE, files |-> {}, tmp |-> FALSE, state |-> <<>>]
  /\ durable = visible
  /\ answer = [u \in Updates |-> "none"]

-----------------------------------------------------------------------------
(* Initialize: mkdir refuses an existing directory, the three files are     *)
(* created, written and synced in any order (the iteration order of a Go    *)
(* map), then the directory is synced.  A process that dies on the way      *)
(* leaves a directory that every later call refuses.                        *)

createSecureDirectory(p) ==
  /\ pc[p] = "idle"
  /\ ~ visible.made
  /\ visible' = [visible EXCEPT !.made = TRUE]
  /\ durable' = [durable EXCEPT !.made = TRUE]
  /\ pc' = [pc EXCEPT ![p] = "initializing"]
  /\ UNCHANGED <<op, next, holder, answer>>

initializeFile(p, f) ==
  /\ pc[p] = "initializing"
  /\ f \notin visible.files
  /\ visible' = [visible EXCEPT !.files = @ \cup {f}]
  /\ UNCHANGED <<pc, op, next, holder, durable, answer>>

SyncStore(p) ==
  /\ pc[p] = "initializing"
  /\ visible.files = Files
  /\ durable' = visible
  /\ pc' = [pc EXCEPT ![p] = "idle"]
  /\ UNCHANGED <<op, next, holder, visible, answer>>

-----------------------------------------------------------------------------
(* One call of withSnapshot(write).                                         *)

Call(p, u) ==
  /\ pc[p] = "idle"
  /\ answer[u] = "none"
  /\ pc' = [pc EXCEPT ![p] = "locking"]
  /\ op' = [op EXCEPT ![p] = u]
  /\ answer' = [answer EXCEPT ![u] = "pending"]
  /\ UNCHANGED <<next, holder, visible, durable>>

\* The call returns, dropping the lock if it has it.
Return(p, a) ==
  /\ pc' = [pc EXCEPT ![p] = "idle"]
  /\ op' = [op EXCEPT ![p] = None]
  /\ next' = [next EXCEPT ![p] = <<>>]
  /\ holder' = IF holder = p THEN None ELSE holder
  /\ answer' = [answer EXCEPT ![op[p]] = a]

\* withLock: flock without blocking, every 10 ms until a deadline.
Acquire(p) ==
  /\ pc[p] = "locking"
  /\ "lock" \in visible.files
  /\ holder = None
  /\ pc' = [pc EXCEPT ![p] = "locked"]
  /\ holder' = p
  /\ UNCHANGED <<op, next, visible, durable, answer>>

NoLockFile(p) ==
  /\ pc[p] = "locking"
  /\ "lock" \notin visible.files
  /\ Return(p, "maybe")
  /\ UNCHANGED <<visible, durable>>

LockTimeout(p) ==
  /\ pc[p] = "locking"
  /\ holder # None
  /\ Return(p, "no")
  /\ UNCHANGED <<visible, durable>>

\* verifyPathAndHeader, readFile and decodeSnapshot refuse the directory.
Refuse(p) ==
  /\ pc[p] = "locked"
  /\ ~ validateStoreEntries(visible)
  /\ Return(p, "maybe")
  /\ UNCHANGED <<visible, durable>>

\* The operation runs on the snapshot: it fails, it changes nothing (a replay
\* rewrites the snapshot as it is), or it adds its update.
Reject(p) ==
  /\ pc[p] = "locked"
  /\ validateStoreEntries(visible)
  /\ Return(p, "no")
  /\ UNCHANGED <<visible, durable>>

Load(p) ==
  /\ pc[p] = "locked"
  /\ validateStoreEntries(visible)
  /\ \E new \in {visible.state, Append(visible.state, op[p])} :
       next' = [next EXCEPT ![p] = new]
  /\ pc' = [pc EXCEPT ![p] = "loaded"]
  /\ UNCHANGED <<op, holder, visible, durable, answer>>

\* replaceFile: the size check, then .state.tmp with O_EXCL.
CreateTmp(p) ==
  /\ pc[p] = "loaded"
  /\ Len(next[p]) <= MaxHistory
  /\ validateStoreEntries(visible)
  /\ ~ visible.tmp
  /\ visible' = [visible EXCEPT !.tmp = TRUE]
  /\ pc' = [pc EXCEPT ![p] = "created"]
  /\ UNCHANGED <<op, next, holder, durable, answer>>

\* Write, fsync, close and stat of .state.tmp.
WriteTmp(p) ==
  /\ pc[p] = "created"
  /\ pc' = [pc EXCEPT ![p] = "written"]
  /\ UNCHANGED <<op, next, holder, visible, durable, answer>>

Rename(p) ==
  /\ pc[p] = "written"
  /\ visible' = [visible EXCEPT !.tmp = FALSE, !.state = next[p]]
  /\ pc' = [pc EXCEPT ![p] = "renamed"]
  /\ UNCHANGED <<op, next, holder, durable, answer>>

SyncDir(p) ==
  /\ pc[p] = "renamed"
  /\ durable' = visible
  /\ pc' = [pc EXCEPT ![p] = "synced"]
  /\ UNCHANGED <<op, next, holder, visible, answer>>

Succeed(p) ==
  /\ pc[p] = "synced"
  /\ Return(p, IF Contains(next[p], op[p]) THEN "ok" ELSE "same")
  /\ UNCHANGED <<visible, durable>>

\* The size check or a system call fails: ErrStoreUnavailable, whatever has been
\* done is left as it is.
Fail(p) ==
  /\ pc[p] \in {"loaded", "created", "written", "renamed"}
  /\ Return(p, "maybe")
  /\ UNCHANGED <<visible, durable>>

-----------------------------------------------------------------------------
(* The environment.                                                         *)

\* A process is killed: the kernel drops its lock.
Crash(p) ==
  /\ pc[p] # "idle"
  /\ pc' = [pc EXCEPT ![p] = "idle"]
  /\ op' = [op EXCEPT ![p] = None]
  /\ next' = [next EXCEPT ![p] = <<>>]
  /\ holder' = IF holder = p THEN None ELSE holder
  /\ answer' = [u \in Updates |-> IF u = op[p] THEN "maybe" ELSE answer[u]]
  /\ UNCHANGED <<visible, durable>>

Flush ==
  /\ durable' = visible
  /\ UNCHANGED <<pc, op, next, holder, visible, answer>>

PowerLoss ==
  /\ visible' = durable
  /\ pc' = [p \in Procs |-> "idle"]
  /\ op' = [p \in Procs |-> None]
  /\ next' = [p \in Procs |-> <<>>]
  /\ holder' = None
  /\ answer' = [u \in Updates |-> IF answer[u] = "pending" THEN "maybe" ELSE answer[u]]
  /\ UNCHANGED durable

Step(p) ==
  \/ createSecureDirectory(p)
  \/ \E f \in Files : initializeFile(p, f)
  \/ SyncStore(p)
  \/ \E u \in Updates : Call(p, u)
  \/ Acquire(p) \/ NoLockFile(p) \/ LockTimeout(p)
  \/ Refuse(p) \/ Reject(p) \/ Load(p)
  \/ CreateTmp(p) \/ WriteTmp(p) \/ Rename(p) \/ SyncDir(p) \/ Succeed(p) \/ Fail(p)
  \/ Crash(p)

Next == (\E p \in Procs : Step(p)) \/ Flush \/ PowerLoss

Spec == Init /\ [][Next]_vars

-----------------------------------------------------------------------------
TypeOK ==
  /\ pc \in [Procs -> Steps]
  /\ op \in [Procs -> Updates \cup {None}]
  /\ next \in [Procs -> Seq(Updates)]
  /\ holder \in Procs \cup {None}
  /\ visible \in Directory
  /\ durable \in Directory
  /\ answer \in [Updates -> Answers]

\* An update answered ok outlives any crash, failed call or power loss: it is in
\* the directory a power loss would leave ("It returns only after the claim has
\* been written and synced", docs/host-v2-intent-journal.md).
AckedIsDurable ==
  \A u \in Updates :
    answer[u] = "ok" => Contains(durable.state, u) /\ Contains(visible.state, u)

\* A replay is answered only when everything it saw is durable, also when an
\* earlier call failed after its rename and left state.json not yet synced.
SeenIsDurable == \A p \in Procs : pc[p] = "synced" => IsPrefix(next[p], durable.state)

\* A directory that an interrupted call left with a temporary file, or that an
\* interrupted initialization left without some of its files, is never written
\* again (validateStoreEntries, O_EXCL): "An unexpected entry (including an
\* interrupted temporary snapshot) ... stops the operation".  Only a power loss
\* may still take it back to what was durable.
Damaged ==
  \/ visible.tmp /\ \A p \in Procs : pc[p] \notin {"created", "written"}
  \/ visible.made /\ visible.files # Files /\ \A p \in Procs : pc[p] # "initializing"

DamagedIsNeverWritten == [][Damaged => visible' \in {visible, durable}]_vars

\* The back end implements the register: its history is the durable one.
Register == INSTANCE SnapshotRegister WITH log <- durable.state

ImplementsRegister == Register!Spec

=============================================================================
