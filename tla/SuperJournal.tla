---------------------------- MODULE SuperJournal ----------------------------
(***************************************************************************)
(* The commit of a transaction over several attached database files        *)
(* (vdbeCommit in vdbeaux.c) with the master journal that makes it atomic, *)
(* and the recovery of each file on its own, by whoever opens it first     *)
(* (pager_playback and pager_delmaster in pager.c).                        *)
(*                                                                         *)
(* The contents of a database file is the set of transactions it holds;    *)
(* what happens inside one journal file is the subject of Pager.  A power  *)
(* loss keeps what was synced, and some of the rest.                       *)
(***************************************************************************)
EXTENDS Naturals

CONSTANTS
    DB,         \* the attached database files
    MaxTxn,     \* bound on transactions
    MaxFault,   \* bound on failing system calls
    MaxLoss     \* bound on power losses

ASSUME SuperJournalAssumption ==
    MaxTxn \in Nat /\ MaxFault \in Nat /\ MaxLoss \in Nat

Txn == 1 .. MaxTxn

\* A file is absent, written but not synced, safe, or deleted by a call that the
\* file system may still forget.
FileState == {"absent", "open", "synced", "deleted"}
There == {"open", "synced"}

VARIABLES
    file,       \* the transactions in each database file
    dirty,      \* whether a database file is half written, or not synced
    jrnl,       \* each rollback journal: its state, the original contents, and
                \* the master journal named at its end (0 for none)
    super,      \* the master journal of each transaction
    names,      \* the journals listed in a master journal
    members,    \* the database files each transaction writes
    pc,         \* where the connection is in its transaction
    cur,        \* the transaction in progress, or the last one
    part,       \* the database files the connection has locked for it
    stage,      \* how far sqlite3PagerCommitPhaseOne has come with each file
    rec,        \* how far a rollback of each file has come
    committed,  \* the transactions of several files whose master journal was deleted
    faults, losses

diskVars == <<file, dirty, jrnl, super, names>>
progVars == <<pc, part, stage, rec>>
vars == <<diskVars, progVars, members, cur, committed, faults, losses>>

Journal == [state : FileState, orig : SUBSET Txn, ptr : 0 .. MaxTxn, sure : BOOLEAN]
NoJournal == [state |-> "absent", orig |-> {}, ptr |-> 0, sure |-> FALSE]

TypeOK ==
    /\ file \in [DB -> SUBSET Txn]
    /\ dirty \in [DB -> BOOLEAN]
    /\ jrnl \in [DB -> Journal]
    /\ super \in [Txn -> FileState]
    /\ names \in [Txn -> SUBSET DB]
    /\ members \in [Txn -> SUBSET DB]
    /\ pc \in {"idle", "txn", "create", "names", "phaseOne", "delete", "phaseTwo", "rollback"}
    /\ cur \in 0 .. MaxTxn
    /\ part \subseteq DB
    /\ stage \in [DB -> {"start", "named", "synced", "written", "ready"}]
    /\ rec \in [DB -> {"idle", "playback", "sync", "end", "cold", "delmaster"}]
    /\ committed \subseteq Txn
    /\ faults \in 0 .. MaxFault
    /\ losses \in 0 .. MaxLoss

Init ==
    /\ file = [d \in DB |-> {}]
    /\ dirty = [d \in DB |-> FALSE]
    /\ jrnl = [d \in DB |-> NoJournal]
    /\ super = [t \in Txn |-> "absent"]
    /\ names = [t \in Txn |-> {}]
    /\ members = [t \in Txn |-> {}]
    /\ pc = "idle"
    /\ cur = 0
    /\ part = {}
    /\ stage = [d \in DB |-> "start"]
    /\ rec = [d \in DB |-> "idle"]
    /\ committed = {}
    /\ faults = 0
    /\ losses = 0

-----------------------------------------------------------------------------
Exists(d) == jrnl[d].state \in There

\* A system call fails; the caller goes on as the code does.
Fault == faults < MaxFault /\ faults' = faults + 1

\* nTrans > 1: more than one file is being written.
NeedsSuper == \E d, e \in part : d # e

-----------------------------------------------------------------------------
(* The transaction up to its commit *)

\* Files with a journal left behind are recovered first.
Begin(T) ==
    /\ pc = "idle" /\ cur < MaxTxn
    /\ T # {}
    /\ \A d \in T : ~Exists(d) /\ rec[d] = "idle"
    /\ cur' = cur + 1
    /\ part' = T
    /\ members' = [members EXCEPT ![cur'] = T]
    /\ jrnl' = [d \in DB |-> IF d \in T
                 THEN [state |-> "open", orig |-> file[d], ptr |-> 0, sure |-> FALSE] ELSE jrnl[d]]
    /\ stage' = [d \in DB |-> "start"]
    /\ pc' = "txn"
    /\ UNCHANGED <<file, dirty, super, names, rec, committed, faults, losses>>

\* The cache is full: the journal of d is synced and pages go to the file.
Spill(d) ==
    /\ pc = "txn" /\ d \in part
    /\ jrnl' = [jrnl EXCEPT ![d].state = "synced"]
    /\ dirty' = [dirty EXCEPT ![d] = TRUE]
    /\ UNCHANGED <<file, super, names, progVars, members, cur, committed, faults, losses>>

\* sqlite3RollbackAll, asked for or after a failure.
RollbackAll == pc' = "rollback" /\ UNCHANGED <<part, stage, rec>>

Rollback ==
    /\ pc = "txn"
    /\ RollbackAll
    /\ UNCHANGED <<diskVars, members, cur, committed, faults, losses>>

-----------------------------------------------------------------------------
(* vdbeCommit *)

vdbeCommit ==
    /\ pc = "txn"
    /\ pc' = IF NeedsSuper THEN "create" ELSE "phaseOne"
    /\ UNCHANGED <<diskVars, part, stage, rec, members, cur, committed, faults, losses>>

\* A file with a name nobody uses is created and the names of the journals are
\* written into it; if that fails it is deleted again.
CreateSuper ==
    /\ pc = "create"
    /\ names' = [names EXCEPT ![cur] = part]
    /\ \/ /\ super' = [super EXCEPT ![cur] = "open"]
          /\ pc' = "names" /\ UNCHANGED <<part, stage, rec, faults>>
       \/ /\ Fault /\ RollbackAll
          /\ super' = [super EXCEPT ![cur] = "deleted"]
    /\ UNCHANGED <<file, dirty, jrnl, members, cur, committed, losses>>

\* The sync of the master journal is left out.
MutantSyncSuper ==
    /\ pc = "names"
    /\ pc' = "phaseOne"
    /\ UNCHANGED <<diskVars, part, stage, rec, members, cur, committed, faults, losses>>

SyncSuper ==
    /\ pc = "names"
    /\ \/ /\ super' = [super EXCEPT ![cur] = "synced"]
          /\ pc' = "phaseOne" /\ UNCHANGED <<part, stage, rec, faults>>
       \/ /\ Fault /\ RollbackAll
          /\ super' = [super EXCEPT ![cur] = "deleted"]
    /\ UNCHANGED <<file, dirty, jrnl, names, members, cur, committed, losses>>

\* sqlite3BtreeCommitPhaseOne of d: the name of the master journal is written to
\* the end of the journal, the journal synced, the pages written, the file synced.
\* A call that fails may have done its work; no master journal is deleted here.
WriteMasterJournal(d) ==
    /\ stage[d] = "start"
    /\ stage' = [stage EXCEPT ![d] = "named"]
    /\ jrnl' = IF NeedsSuper THEN [jrnl EXCEPT ![d].ptr = cur, ![d].sure = FALSE] ELSE jrnl
    /\ UNCHANGED <<file, dirty>>

SyncJournal(d) ==
    /\ stage[d] = "named"
    /\ stage' = [stage EXCEPT ![d] = "synced"]
    /\ jrnl' = [jrnl EXCEPT ![d].state = "synced", ![d].sure = TRUE]
    /\ UNCHANGED <<file, dirty>>

WritePages(d) ==
    /\ stage[d] = "synced"
    /\ stage' = [stage EXCEPT ![d] = "written"]
    /\ dirty' = [dirty EXCEPT ![d] = TRUE]
    /\ UNCHANGED <<file, jrnl>>

SyncFile(d) ==
    /\ stage[d] = "written"
    /\ stage' = [stage EXCEPT ![d] = "ready"]
    /\ dirty' = [dirty EXCEPT ![d] = FALSE]
    /\ file' = [file EXCEPT ![d] = @ \cup {cur}]
    /\ UNCHANGED jrnl

PhaseOne(d) ==
    /\ pc = "phaseOne" /\ d \in part
    /\ \/ /\ WriteMasterJournal(d) \/ SyncJournal(d) \/ WritePages(d) \/ SyncFile(d)
          /\ UNCHANGED <<pc, faults>>
       \/ /\ Fault /\ pc' = "rollback"
          /\ \/ WriteMasterJournal(d) \/ WritePages(d)
             \/ UNCHANGED <<stage, jrnl, dirty, file>>
    /\ UNCHANGED <<super, names, part, rec, members, cur, committed, losses>>

\* The first journal to be ready is taken for all.
MutantPhaseOneDone ==
    /\ pc = "phaseOne" /\ \E d \in part : stage[d] = "ready"
    /\ pc' = IF NeedsSuper THEN "delete" ELSE "phaseTwo"
    /\ UNCHANGED <<diskVars, part, stage, rec, members, cur, committed, faults, losses>>

PhaseOneDone ==
    /\ pc = "phaseOne" /\ \A d \in part : stage[d] = "ready"
    /\ pc' = IF NeedsSuper THEN "delete" ELSE "phaseTwo"
    /\ UNCHANGED <<diskVars, part, stage, rec, members, cur, committed, faults, losses>>

\* The directory is not synced.
MutantDeleteSuper ==
    /\ pc = "delete"
    /\ super' = [super EXCEPT ![cur] = "deleted"]
    /\ committed' = committed \cup {cur}
    /\ pc' = "phaseTwo"
    /\ UNCHANGED <<file, dirty, jrnl, names, part, stage, rec, members, cur, faults, losses>>

\* Deleting the master journal, and syncing its directory, commits the transaction.
DeleteSuper ==
    /\ pc = "delete"
    /\ \/ /\ super' = [super EXCEPT ![cur] = "absent"]
          /\ committed' = committed \cup {cur}
          /\ pc' = "phaseTwo" /\ UNCHANGED <<part, stage, rec, faults>>
       \/ /\ Fault /\ RollbackAll /\ UNCHANGED <<super, committed>>
    /\ UNCHANGED <<file, dirty, jrnl, names, members, cur, losses>>

\* sqlite3BtreeCommitPhaseTwo of d finalizes its journal; a failure leaves it
\* behind, and the loop goes on.
PhaseTwo(d) ==
    /\ pc = "phaseTwo" /\ d \in part
    /\ \/ jrnl' = [jrnl EXCEPT ![d].state = "deleted"] /\ UNCHANGED faults
       \/ Fault /\ UNCHANGED jrnl
    /\ part' = part \ {d}
    /\ pc' = IF part' = {} THEN "idle" ELSE pc
    /\ UNCHANGED <<file, dirty, super, names, stage, rec, members, cur, committed, losses>>

-----------------------------------------------------------------------------
(* pager_playback: of a hot journal, or of the connection's own. *)

\* A file is free for a rollback when no transaction has it locked, or when it is
\* the transaction's own.
Recoverable(d) == Exists(d) /\ (d \notin part \/ pc = "rollback")

\* A journal that names a master journal that is gone is not rolled back.
Cold(d) == jrnl[d].ptr # 0 /\ super[jrnl[d].ptr] \notin There

\* The master journal is not looked for.
MutantPlaybackStart(d) ==
    /\ rec[d] = "idle" /\ Recoverable(d)
    /\ rec' = [rec EXCEPT ![d] = "playback"]
    /\ UNCHANGED <<diskVars, pc, part, stage, members, cur, committed, faults, losses>>

PlaybackStart(d) ==
    /\ rec[d] = "idle" /\ Recoverable(d)
    /\ rec' = [rec EXCEPT ![d] = IF Cold(d) THEN "cold" ELSE "playback"]
    /\ UNCHANGED <<diskVars, pc, part, stage, members, cur, committed, faults, losses>>

\* The originals go back to the file, which a transaction that has not touched it
\* yet need not do, and the file is synced.
PlaybackWrite(d) ==
    /\ rec[d] = "playback"
    /\ rec' = [rec EXCEPT ![d] = "sync"]
    /\ dirty' = [dirty EXCEPT ![d] = @ \/ d \notin part \/ file[d] # jrnl[d].orig]
    /\ jrnl' = IF d \in part THEN jrnl
               ELSE [jrnl EXCEPT ![d].state = "synced", ![d].sure = TRUE]
    /\ UNCHANGED <<file, super, names, pc, part, stage, members, cur, committed, faults, losses>>

PlaybackSync(d) ==
    /\ rec[d] = "sync"
    /\ rec' = [rec EXCEPT ![d] = "end"]
    /\ dirty' = [dirty EXCEPT ![d] = FALSE]
    /\ file' = [file EXCEPT ![d] = jrnl[d].orig]
    /\ UNCHANGED <<jrnl, super, names, pc, part, stage, members, cur, committed, faults, losses>>

\* The connection that rolls its own transaction back is done with d.
Leave(d) ==
    /\ part' = part \ {d}
    /\ pc' = IF pc = "rollback" /\ part' = {} THEN "idle" ELSE pc

\* pager_end_transaction finalizes the journal.
PlaybackEnd(d) ==
    /\ rec[d] \in {"end", "cold"}
    /\ jrnl' = [jrnl EXCEPT ![d].state = "deleted"]
    /\ rec' = [rec EXCEPT ![d] = IF @ = "end" /\ jrnl[d].ptr # 0 THEN "delmaster" ELSE "idle"]
    /\ IF rec'[d] = "idle" THEN Leave(d) ELSE UNCHANGED <<pc, part>>
    /\ UNCHANGED <<file, dirty, super, names, stage, members, cur, committed, faults, losses>>

\* A rollback that fails leaves the journal for the next connection.
PlaybackFails(d) ==
    /\ rec[d] \in {"playback", "sync", "end", "cold"}
    /\ Fault
    /\ rec' = [rec EXCEPT ![d] = "idle"]
    /\ Leave(d)
    /\ UNCHANGED <<diskVars, stage, members, cur, committed, losses>>

\* The other journals are not looked at.
MutantStillNamed(t) == FALSE

\* The master journal goes with the last journal that names it.
StillNamed(t) == \E e \in names[t] : Exists(e) /\ jrnl[e].ptr = t

pager_delmaster(d) ==
    /\ rec[d] = "delmaster"
    /\ LET t == jrnl[d].ptr
       IN  super' = IF super[t] \in There /\ ~StillNamed(t)
                    THEN [super EXCEPT ![t] = "deleted"] ELSE super
    /\ rec' = [rec EXCEPT ![d] = "idle"]
    /\ Leave(d)
    /\ UNCHANGED <<file, dirty, jrnl, names, stage, members, cur, committed, faults, losses>>

-----------------------------------------------------------------------------
\* What a power loss can make of a journal and of a master journal.
JournalAfter(j) ==
    CASE j.state = "open" ->
           {NoJournal} \cup {[j EXCEPT !.state = "synced", !.ptr = p, !.sure = TRUE] : p \in {0, j.ptr}}
      [] j.state = "synced" ->
           {[j EXCEPT !.ptr = p, !.sure = TRUE] : p \in IF j.sure THEN {j.ptr} ELSE {0, j.ptr}}
      [] j.state = "deleted" -> {NoJournal, [j EXCEPT !.state = "synced", !.sure = TRUE]}
      [] j.state = "absent" -> {j}

SuperAfter(s) ==
    CASE s = "open" -> {"absent", "synced"}
      [] s = "deleted" -> {"absent", "synced"}
      [] s \in {"absent", "synced"} -> {s}

\* The names in a master journal that was not synced may be missing.
PowerLoss ==
    /\ losses < MaxLoss /\ losses' = losses + 1
    /\ \E j \in [DB -> UNION {JournalAfter(jrnl[d]) : d \in DB}] :
          (\A d \in DB : j[d] \in JournalAfter(jrnl[d])) /\ jrnl' = j
    /\ \E s \in [Txn -> {"absent", "synced"}] :
          (\A t \in Txn : s[t] \in SuperAfter(super[t])) /\ super' = s
    /\ \E S \in SUBSET DB :
          names' = [t \in Txn |-> IF super[t] = "open" THEN names[t] \cap S ELSE names[t]]
    /\ pc' = "idle" /\ part' = {}
    /\ stage' = [d \in DB |-> "start"]
    /\ rec' = [d \in DB |-> "idle"]
    /\ UNCHANGED <<file, dirty, members, cur, committed, faults>>

Next ==
    \/ \E T \in SUBSET DB : Begin(T)
    \/ vdbeCommit \/ Rollback \/ CreateSuper \/ SyncSuper \/ PhaseOneDone \/ DeleteSuper
    \/ \E d \in DB :
         \/ Spill(d) \/ PhaseOne(d) \/ PhaseTwo(d)
         \/ PlaybackStart(d) \/ PlaybackWrite(d) \/ PlaybackSync(d) \/ PlaybackEnd(d)
         \/ PlaybackFails(d) \/ pager_delmaster(d)
    \/ PowerLoss

Spec == Init /\ [][Next]_vars
-----------------------------------------------------------------------------
\* Whether the next connection to open d rolls it back, and to what.
RollsBack(d) == Exists(d) /\ ~Cold(d)
Contents(d) == IF RollsBack(d) THEN jrnl[d].orig ELSE file[d]

\* If everything stopped now: a transaction over several files is in all of them
\* or in none, though each file decides for itself by the master journal that its
\* own journal names.
AllOrNone ==
    \A t \in Txn : \A d, e \in members[t] : t \in Contents(d) => t \in Contents(e)

\* No file that is half written is left without its journal.
NothingTorn == \A d \in DB : dirty[d] => RollsBack(d)

\* A transaction whose master journal has been deleted stays in every file, through
\* power losses, stray journals and the rollback of later transactions.
CommittedStays == \A t \in committed : \A d \in members[t] : t \in Contents(d)
=============================================================================
