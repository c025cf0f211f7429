---------------------------- MODULE Connections ----------------------------
(***************************************************************************)
(* The SQLite connections of the processes that share a database file.     *)
(* A QueryCLI process holds the global connection db, the connection of    *)
(* its FMQuery and, inside BuildTree, the one of BuildSubTree; a Worker     *)
(* holds the same three and exits.  No busy handler is installed anywhere: *)
(* a lock that is refused exits the program (the DIE after every call).    *)
(*                                                                         *)
(* FlowTree says what is read and stored.  Here a look-up meets "full", a  *)
(* "miss" (no such row) or "empty": a row without entries, which           *)
(* LoadToDevice returns for before it finalizes its SELECT.  A file may or *)
(* may not hold rows of the last kind.                                     *)
(***************************************************************************)
EXTENDS Integers, FiniteSets

CONSTANTS
  Cli, Worker,  \* the processes
  BufferSize,   \* TRANSACTION_BUFFER_SIZE
  MaxReads,     \* bound: look-ups of one command
  MaxStores     \* bound: rows stored by one build

ASSUME ConnectionsAssumption ==
  /\ Cli \cap Worker = {}
  /\ BufferSize \in Nat \ {0} /\ MaxReads \in Nat /\ MaxStores \in Nat

Proc == Cli \cup Worker

Slots == {"db", "query", "build"}

(* A connection: statements left unfinalized keep sqlite3_close from       *)
(* closing it; one that stands on a row also keeps its SHARED lock.        *)
Connection == [open : BOOLEAN, unfinalized : BOOLEAN, shared : BOOLEAN]
Closed == [open |-> FALSE, unfinalized |-> FALSE, shared |-> FALSE]
Fresh == [open |-> TRUE, unfinalized |-> FALSE, shared |-> FALSE]

VARIABLES
  kinds,    \* what a look-up may meet in this file
  pc,       \* pc[p]: where p is in its command
  cmd,      \* cmd[p]: the command
  conn,     \* conn[p][s]: p's connections
  leaked,   \* leaked[p]: a connection p can no longer reach holds SHARED
  active,   \* active[p]: the connection whose statement is being stepped
  reads,    \* reads[p]: look-ups of this command
  commit,   \* commit[p]: the transaction p's build is committing
  buffered, \* buffered[p]: buffer_idx
  stored,   \* stored[p]: rows this build has stored
  written,  \* written[p]: rows this build has committed
  outcome   \* outcome[p]: how the last command ended

connVars == <<kinds, pc, cmd, conn, leaked, active, reads, commit, buffered, stored,
              written, outcome>>
buildVars == <<buffered, stored, written>>

TypeOK ==
  /\ kinds \subseteq {"full", "miss", "empty"}
  /\ pc \in [Proc -> {"exited", "idle", "openDb", "openQuery", "openBuild",
                      "read", "build", "closing", "reopenDb", "refused"}]
  /\ cmd \in [Proc -> {"none", "WorkOn", "PrepareQuery", "Query", "MultiplyTwo", "Worker"}]
  /\ conn \in [Proc -> [Slots -> Connection]]
  /\ leaked \in [Proc -> BOOLEAN]
  /\ active \in [Proc -> Slots \cup {"none"}]
  /\ reads \in [Proc -> 0..MaxReads]
  /\ commit \in [Proc -> {"none", "reserved", "pending", "exclusive"}]
  /\ buffered \in [Proc -> 0..BufferSize]
  /\ stored \in [Proc -> 0..MaxStores]
  /\ written \in [Proc -> 0..MaxStores]
  /\ outcome \in [Proc -> {"none", "done", "refused"}]

Init ==
  /\ kinds \in {{"full", "miss"}, {"full", "miss", "empty"}}
  /\ pc = [p \in Proc |-> "exited"]
  /\ cmd = [p \in Proc |-> "none"]
  /\ conn = [p \in Proc |-> [s \in Slots |-> Closed]]
  /\ leaked = [p \in Proc |-> FALSE]
  /\ active = [p \in Proc |-> "none"]
  /\ reads = [p \in Proc |-> 0]
  /\ commit = [p \in Proc |-> "none"]
  /\ buffered = [p \in Proc |-> 0]
  /\ stored = [p \in Proc |-> 0]
  /\ written = [p \in Proc |-> 0]
  /\ outcome = [p \in Proc |-> "none"]

-----------------------------------------------------------------------------
(* SQLite's locks on a file (external; rollback journal, no busy timeout)  *)

(* p's connection s holds SHARED: it is stepping a SELECT or was left on a row. *)
Holds(p, s) == conn[p][s].shared \/ active[p] = s

(* A commit needs EXCLUSIVE: no other connection may hold SHARED, those of *)
(* the same process and those it has lost included.                        *)
OthersRead(p) ==
  \/ leaked[p]
  \/ \E s \in Slots \ {"build"} : Holds(p, s)
  \/ \E q \in Proc \ {p} : leaked[q] \/ \E s \in Slots : Holds(q, s)

(* A SELECT needs SHARED, which is refused under PENDING and EXCLUSIVE.    *)
ReadBlocked(p) == \E q \in Proc \ {p} : commit[q] \in {"pending", "exclusive"}

(* An INSERT needs RESERVED, which one connection at a time can have.      *)
WriteBlocked(p) == \E q \in Proc \ {p} : commit[q] # "none"

-----------------------------------------------------------------------------
(* Statements *)

Goto(p, l) == pc' = [pc EXCEPT ![p] = l]

(* The message of the DIE is printed; the locks go with the process.       *)
Refused(p) == Goto(p, "refused") /\ UNCHANGED active

(* Which connection the next statement of p runs on, if it runs one.       *)
StatementSlot(p) ==
  CASE pc[p] \in {"openDb", "reopenDb"} -> "db"
    [] pc[p] = "openQuery" -> "query"
    [] pc[p] = "openBuild" -> "build"
    [] pc[p] = "build" -> "build"
    [] pc[p] = "read" /\ cmd[p] = "Query" -> "query"
    [] pc[p] = "read" /\ cmd[p] = "MultiplyTwo" -> "db"
    [] OTHER -> "none"

Opening == {"openDb", "openQuery", "openBuild", "reopenDb"}

(* Step a SELECT, or the CREATE TABLE IF NOT EXISTS of a constructor, which *)
(* reads the schema.                                                       *)
StartStatement(p) ==
  /\ StatementSlot(p) # "none" /\ active[p] = "none" /\ commit[p] = "none"
  /\ pc[p] \notin Opening => reads[p] < MaxReads
  /\ pc[p] = "build" => buffered[p] < BufferSize
  /\ IF ReadBlocked(p)
     THEN Refused(p)
     ELSE active' = [active EXCEPT ![p] = StatementSlot(p)] /\ UNCHANGED pc
  /\ reads' = [reads EXCEPT ![p] = IF pc[p] \in Opening THEN @ ELSE @ + 1]
  /\ UNCHANGED <<cmd, conn, leaked, commit, buffered, stored, written, outcome>>

(* A slip: the SELECT of a row that is found is not finalized either.      *)
AfterLookUp_NeverFinalized(c, kind) ==
  [c EXCEPT !.unfinalized = TRUE, !.shared = @ \/ kind # "miss"]

(* What a look-up leaves of its statement: only the path to the end of     *)
(* LoadToDevice finalizes it.                                              *)
AfterLookUp(c, kind) ==
  [c EXCEPT !.unfinalized = @ \/ kind # "full", !.shared = @ \/ kind = "empty"]

(* LoadToDevice returns.  MultiplyTwo dereferences the result of a miss.   *)
LoadToDevice(p) ==
  /\ pc[p] \in {"read", "build"} /\ active[p] # "none"
  /\ \E kind \in kinds :
       /\ ~(cmd[p] = "MultiplyTwo" /\ kind = "miss")
       /\ conn' = [conn EXCEPT ![p][active[p]] = AfterLookUp(@, kind)]
  /\ active' = [active EXCEPT ![p] = "none"]
  /\ UNCHANGED <<pc, cmd, leaked, reads, commit, buffered, stored, written, outcome>>

-----------------------------------------------------------------------------
(* Commands of the CLI *)

NewCommand(p, c, at) ==
  /\ cmd' = [cmd EXCEPT ![p] = c]
  /\ reads' = [reads EXCEPT ![p] = 0]
  /\ outcome' = [outcome EXCEPT ![p] = "none"]
  /\ Goto(p, at)

(* sqlite3_close refuses a connection with unfinalized statements, and a   *)
(* pointer that is dropped does not close at all: the lock stays.          *)
Lost(p, slots) == \E s \in slots : conn[p][s].shared

(* InitQueryRange: a query is deleted, which closes its connection, and    *)
(* with it the pointer to the global connection is set to NULL.            *)
InitQueryRange(p, c) ==
  /\ pc[p] = "idle" /\ c \in {"WorkOn", "PrepareQuery"}
  /\ IF conn[p]["query"].open
     THEN /\ conn' = [conn EXCEPT ![p]["query"] = Closed, ![p]["db"] = Closed]
          /\ leaked' = [leaked EXCEPT ![p] = @ \/ Lost(p, {"query", "db"})]
          /\ NewCommand(p, c, "openDb")
     ELSE /\ UNCHANGED <<conn, leaked>>
          /\ NewCommand(p, c, "openQuery")
  /\ UNCHANGED <<active, commit, buffered, stored, written>>

(* The commands that look rows up on a connection that stays open.         *)
Query(p) ==
  /\ pc[p] = "idle" /\ conn[p]["query"].open
  /\ NewCommand(p, "Query", "read")
  /\ UNCHANGED <<conn, leaked, active, commit, buffered, stored, written>>

MultiplyTwo(p) ==
  /\ pc[p] = "idle" /\ conn[p]["query"].open /\ conn[p]["db"].open
  /\ NewCommand(p, "MultiplyTwo", "read")
  /\ UNCHANGED <<conn, leaked, active, commit, buffered, stored, written>>

FinishReading(p) ==
  /\ pc[p] = "read" /\ active[p] = "none" /\ reads[p] > 0
  /\ Goto(p, "idle")
  /\ outcome' = [outcome EXCEPT ![p] = "done"]
  /\ UNCHANGED <<cmd, conn, leaked, active, reads, commit, buffered, stored, written>>

(* A constructor returns.  PrepareQuery deletes the global connection      *)
(* before it builds and opens it again after; a Worker keeps its own.      *)
Opened(p) ==
  /\ pc[p] \in Opening /\ active[p] # "none"
  /\ active' = [active EXCEPT ![p] = "none"]
  /\ LET opened == [conn[p] EXCEPT ![active[p]] = Fresh]
         builds == pc[p] = "openQuery" /\ cmd[p] \in {"PrepareQuery", "Worker"}
     IN  /\ conn' = [conn EXCEPT ![p] =
                       IF builds /\ cmd[p] = "PrepareQuery"
                       THEN [opened EXCEPT !["db"] = Closed] ELSE opened]
         /\ leaked' = [leaked EXCEPT ![p] =
                         @ \/ (builds /\ cmd[p] = "PrepareQuery" /\ Lost(p, {"db"}))]
         /\ Goto(p, CASE pc[p] = "openDb" -> "openQuery"
                      [] builds -> "openBuild"
                      [] pc[p] = "openBuild" -> "build"
                      [] OTHER -> "idle")
         /\ outcome' = [outcome EXCEPT ![p] =
                          IF builds \/ pc[p] \in {"openDb", "openBuild"} THEN @ ELSE "done"]
         /\ IF pc[p] = "openBuild"
            THEN stored' = [stored EXCEPT ![p] = 0] /\ written' = [written EXCEPT ![p] = 0]
            ELSE UNCHANGED <<stored, written>>
  /\ UNCHANGED <<cmd, reads, commit, buffered>>

-----------------------------------------------------------------------------
(* BuildSubTree and its transactions *)

(* A slip: the buffer is not asked whether it is full.                     *)
StoreFromDevice_Overfills(p) ==
  /\ pc[p] = "build" /\ active[p] = "none" /\ commit[p] = "none"
  /\ stored[p] < MaxStores
  /\ buffered' = [buffered EXCEPT ![p] = @ + 1]
  /\ stored' = [stored EXCEPT ![p] = @ + 1]
  /\ UNCHANGED <<pc, cmd, conn, leaked, active, reads, commit, written, outcome>>

StoreFromDevice(p) ==
  /\ pc[p] = "build" /\ active[p] = "none" /\ commit[p] = "none"
  /\ buffered[p] < BufferSize /\ stored[p] < MaxStores
  /\ buffered' = [buffered EXCEPT ![p] = @ + 1]
  /\ stored' = [stored EXCEPT ![p] = @ + 1]
  /\ UNCHANGED <<pc, cmd, conn, leaked, active, reads, commit, written, outcome>>

(* The recursion is over: the destructor of DBCore runs.                   *)
EndBuild(p) ==
  /\ pc[p] = "build" /\ active[p] = "none" /\ commit[p] = "none"
  /\ buffered[p] < BufferSize
  /\ Goto(p, "closing")
  /\ UNCHANGED <<cmd, conn, leaked, active, reads, commit, buffered, stored, written, outcome>>

(* BEGIN takes no lock; the first INSERT takes RESERVED or is refused.     *)
BeginCommit(p) ==
  /\ pc[p] \in {"build", "closing"} /\ active[p] = "none" /\ commit[p] = "none"
  /\ buffered[p] = BufferSize \/ (pc[p] = "closing" /\ buffered[p] > 0)
  /\ IF WriteBlocked(p)
     THEN Goto(p, "refused") /\ UNCHANGED commit
     ELSE commit' = [commit EXCEPT ![p] = "reserved"] /\ UNCHANGED pc
  /\ UNCHANGED <<cmd, conn, leaked, active, reads, buffered, stored, written, outcome>>

(* A slip: the result of END TRANSACTION is not looked at.                 *)
EndCommit_Unchecked(p) ==
  /\ commit[p] = "reserved"
  /\ commit' = [commit EXCEPT ![p] = IF OthersRead(p) THEN "none" ELSE "exclusive"]
  /\ buffered' = [buffered EXCEPT ![p] = IF OthersRead(p) THEN 0 ELSE @]
  /\ UNCHANGED <<pc, cmd, conn, leaked, active, reads, stored, written, outcome>>

(* A slip: END TRANSACTION is tried until it succeeds.                     *)
EndCommit_Retries(p) ==
  /\ commit[p] = "reserved" /\ ~OthersRead(p)
  /\ commit' = [commit EXCEPT ![p] = "exclusive"]
  /\ UNCHANGED <<pc, cmd, conn, leaked, active, reads, buffered, stored, written, outcome>>

(* END TRANSACTION takes PENDING, and EXCLUSIVE if nobody else reads.      *)
EndCommit(p) ==
  /\ commit[p] = "reserved"
  /\ IF OthersRead(p)
     THEN commit' = [commit EXCEPT ![p] = "pending"] /\ Goto(p, "refused")
     ELSE commit' = [commit EXCEPT ![p] = "exclusive"] /\ UNCHANGED pc
  /\ UNCHANGED <<cmd, conn, leaked, active, reads, buffered, stored, written, outcome>>

(* The pages are written and the lock is released.  The INSERTs of a       *)
(* transaction are not finalized (Store with isTranscation).               *)
Committed(p) ==
  /\ commit[p] = "exclusive"
  /\ commit' = [commit EXCEPT ![p] = "none"]
  /\ written' = [written EXCEPT ![p] = @ + buffered[p]]
  /\ buffered' = [buffered EXCEPT ![p] = 0]
  /\ conn' = [conn EXCEPT ![p]["build"].unfinalized = TRUE]
  /\ UNCHANGED <<pc, cmd, leaked, active, reads, stored, outcome>>

(* The build's connection is deleted.  A Worker exits.                     *)
CloseBuild(p) ==
  /\ pc[p] = "closing" /\ buffered[p] = 0 /\ commit[p] = "none"
  /\ leaked' = [leaked EXCEPT ![p] = cmd[p] # "Worker" /\ (@ \/ Lost(p, {"build"}))]
  /\ conn' = [conn EXCEPT ![p] = IF cmd[p] = "Worker" THEN [s \in Slots |-> Closed]
                                 ELSE [@ EXCEPT !["build"] = Closed]]
  /\ Goto(p, IF cmd[p] = "Worker" THEN "exited" ELSE "reopenDb")
  /\ outcome' = [outcome EXCEPT ![p] = IF cmd[p] = "Worker" THEN "done" ELSE @]
  /\ UNCHANGED <<cmd, active, reads, commit, buffered, stored, written>>

-----------------------------------------------------------------------------
(* Processes *)

(* main: a CLI opens the file (no statement is run); a Worker goes on.     *)
Start(p) ==
  /\ pc[p] = "exited"
  /\ NewCommand(p, IF p \in Worker THEN "Worker" ELSE "none",
                   IF p \in Worker THEN "openDb" ELSE "idle")
  /\ conn' = [conn EXCEPT ![p]["db"] = IF p \in Worker THEN Closed ELSE Fresh]
  /\ UNCHANGED <<leaked, active, commit, buffered, stored, written>>

(* The operating system drops all locks; an open transaction rolls back.   *)
Exit(p, how) ==
  /\ Goto(p, "exited")
  /\ conn' = [conn EXCEPT ![p] = [s \in Slots |-> Closed]]
  /\ leaked' = [leaked EXCEPT ![p] = FALSE]
  /\ active' = [active EXCEPT ![p] = "none"]
  /\ commit' = [commit EXCEPT ![p] = "none"]
  /\ buffered' = [buffered EXCEPT ![p] = 0]
  /\ outcome' = [outcome EXCEPT ![p] = how]
  /\ UNCHANGED <<cmd, reads, stored, written>>

Die(p) == pc[p] = "refused" /\ Exit(p, "refused")

Crash(p) == pc[p] \notin {"exited", "refused"} /\ Exit(p, "none")

(* A command that has been given keeps running.                            *)
Run(p) ==
  \/ StartStatement(p) \/ LoadToDevice(p) \/ FinishReading(p) \/ Opened(p)
  \/ StoreFromDevice(p) \/ EndBuild(p)
  \/ BeginCommit(p) \/ EndCommit(p) \/ Committed(p) \/ CloseBuild(p)
  \/ Die(p)

Give(p) ==
  \/ Start(p)
  \/ \E c \in {"WorkOn", "PrepareQuery"} : InitQueryRange(p, c)
  \/ Query(p) \/ MultiplyTwo(p)

Next == UNCHANGED kinds /\ \E p \in Proc : Give(p) \/ Run(p) \/ Crash(p)

Spec == Init /\ [][Next]_connVars

FairSpec == Spec /\ \A p \in Proc : WF_connVars(UNCHANGED kinds /\ Run(p))
-----------------------------------------------------------------------------
(* Properties *)

(* LossIsBounded: a build that returned has every row it stored in the     *)
(* table: a lock that was refused on the way is never passed over (the     *)
(* checks of Commit, which FlowTree relies on).  Any other build loses at  *)
(* most one transaction (TRANSACTION_BUFFER_SIZE rows of work).            *)
LossIsBounded ==
  \A p \in Proc :
    /\ stored[p] - written[p] \in 0..BufferSize
    /\ cmd[p] \in {"PrepareQuery", "Worker"} /\ outcome[p] = "done"
       => written[p] = stored[p]

(* RefusedByOthers: a lock is only refused to a process (which exits it,   *)
(* the DIE of every call of DBCore.cpp) while another process is in a      *)
(* command: what is at the prompt holds no lock, and the three connections *)
(* of one process never stand in each other's way.  A file with rows       *)
(* without entries is the exception: its locks outlive their commands.     *)
RefusedByOthers ==
  [][\A p \in Proc : pc[p] # "refused" /\ pc'[p] = "refused" =>
       "empty" \in kinds \/ \E q \in Proc \ {p} : pc[q] \notin {"exited", "idle"}]_connVars

(* CommandsEnd: every command returns or exits: no process waits for the   *)
(* locks of another one.                                                   *)
CommandsEnd ==
  \A p \in Proc : pc[p] \notin {"exited", "idle"} ~> pc[p] \in {"exited", "idle"}
=============================================================================
