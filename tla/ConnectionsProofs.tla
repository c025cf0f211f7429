-------------------------- MODULE ConnectionsProofs --------------------------
(***************************************************************************)
(* The locks of Connections for any number of CLI and Worker processes and *)
(* every size of the buffer: a build loses at most one transaction and     *)
(* never says that it is done with rows missing, and a process that is     *)
(* refused a lock is refused it because another one is in a command.       *)
(***************************************************************************)
EXTENDS Connections, TLAPS

(* The rows of p's build: stored, buffered and written agree while it      *)
(* runs, and a command ends as done only when they are all written.        *)
Books(p) ==
  /\ pc[p] \in {"build", "closing"} => stored[p] = written[p] + buffered[p]
  /\ stored[p] - written[p] \in 0..BufferSize
  /\ buffered[p] # 0 => pc[p] \in {"build", "closing", "refused"}
  /\ pc[p] = "reopenDb" => written[p] = stored[p]
  /\ pc[p] = "read" => cmd[p] \in {"Query", "MultiplyTwo"}
  /\ outcome[p] = "done" =>
       /\ pc[p] \in {"idle", "exited"}
       /\ cmd[p] \in {"PrepareQuery", "Worker"} => written[p] = stored[p]

(* The locks of p: only a command that is running holds any, and not of    *)
(* two kinds at once, unless rows without entries leave some behind.       *)
Locks(p) ==
  /\ commit[p] \in {"reserved", "exclusive"} => pc[p] \in {"build", "closing"}
  /\ commit[p] = "pending" => pc[p] = "refused"
  /\ commit[p] # "none" \/ pc[p] \in {"exited", "idle", "closing"} => active[p] = "none"
  /\ "empty" \notin kinds => ~leaked[p] /\ \A s \in Slots : ~conn[p][s].shared

IInv == TypeOK /\ \A p \in Proc : Books(p) /\ Locks(p)

(* A step of p leaves the state of the other processes alone.              *)
OnlyOf(p) ==
  \A q \in Proc \ {p} :
    /\ pc'[q] = pc[q] /\ cmd'[q] = cmd[q] /\ conn'[q] = conn[q]
    /\ leaked'[q] = leaked[q] /\ active'[q] = active[q] /\ commit'[q] = commit[q]
    /\ buffered'[q] = buffered[q] /\ stored'[q] = stored[q]
    /\ written'[q] = written[q] /\ outcome'[q] = outcome[q]

(* What a step of p establishes.                                           *)
Kept(p) == TypeOK' /\ OnlyOf(p) /\ Books(p)' /\ Locks(p)'

LEMMA KeptIsEnough ==
  ASSUME IInv, UNCHANGED kinds, NEW p \in Proc, Kept(p)
  PROVE  IInv'
<1> SUFFICES ASSUME NEW q \in Proc, q # p PROVE Books(q)' /\ Locks(q)'
  BY DEF IInv, Kept
<1>1. Books(q) /\ Locks(q)
  BY DEF IInv
<1>2. Books(q)'
  BY <1>1 DEF Books, Kept, OnlyOf
<1>3. Locks(q)'
  BY <1>1 DEF Locks, Kept, OnlyOf
<1> QED
  BY <1>2, <1>3
-----------------------------------------------------------------------------
(* Statements *)

LEMMA StartStatementKept ==
  ASSUME IInv, UNCHANGED kinds, NEW p \in Proc, StartStatement(p)
  PROVE  Kept(p)
<1> USE DEF StartStatement
<1>1. StatementSlot(p) \in Slots /\ pc[p] \notin {"exited", "idle", "closing", "refused"}
  BY DEF StatementSlot, Slots, IInv, TypeOK
<1>2. TypeOK'
  BY <1>1, ConnectionsAssumption DEF IInv, TypeOK, Refused, Goto, Opening
<1>3. OnlyOf(p)
  BY DEF OnlyOf, IInv, TypeOK, Refused, Goto
<1>4. Books(p)'
  BY <1>1 DEF Books, IInv, TypeOK, Refused, Goto, Opening
<1>5. Locks(p)'
  BY <1>1 DEF Locks, IInv, TypeOK, Refused, Goto
<1> QED
  BY <1>2, <1>3, <1>4, <1>5 DEF Kept

LEMMA LoadToDeviceKept ==
  ASSUME IInv, UNCHANGED kinds, NEW p \in Proc, LoadToDevice(p)
  PROVE  Kept(p)
<1> USE DEF LoadToDevice
<1>1. PICK kind \in kinds : conn' = [conn EXCEPT ![p][active[p]] = AfterLookUp(@, kind)]
  OBVIOUS
<1>2. active[p] \in Slots
  BY DEF IInv, TypeOK
<1>3. conn[p][active[p]] \in Connection
  BY <1>2 DEF IInv, TypeOK
<1>4. AfterLookUp(conn[p][active[p]], kind) \in Connection
  BY <1>3 DEF AfterLookUp, Connection
<1>5. conn'[p] = [conn[p] EXCEPT ![active[p]] = AfterLookUp(conn[p][active[p]], kind)]
  BY <1>1 DEF IInv, TypeOK
<1>6. conn'[p] \in [Slots -> Connection]
  BY <1>2, <1>4, <1>5 DEF IInv, TypeOK
<1>7. conn' \in [Proc -> [Slots -> Connection]]
  BY <1>1, <1>5, <1>6 DEF IInv, TypeOK
<1>8. TypeOK'
  BY <1>7 DEF IInv, TypeOK
<1>9. OnlyOf(p)
  BY <1>1 DEF OnlyOf, IInv, TypeOK
<1>10. Books(p)'
  BY DEF Books, IInv
<1>11. ASSUME "empty" \notin kinds, NEW s \in Slots PROVE ~conn'[p][s].shared
  <2>1. kind # "empty" /\ ~conn[p][s].shared /\ ~conn[p][active[p]].shared
    BY <1>2, <1>11 DEF IInv, Locks
  <2>2. CASE s = active[p]
    <3>1. conn'[p][s] = AfterLookUp(conn[p][s], kind)
      BY <1>2, <1>5, <2>2 DEF IInv, TypeOK
    <3> QED
      BY <1>3, <2>1, <2>2, <3>1 DEF AfterLookUp, Connection
  <2>3. CASE s # active[p]
    BY <1>5, <2>1, <2>3 DEF IInv, TypeOK
  <2> QED
    BY <2>2, <2>3
<1>12. Locks(p)'
  BY <1>11 DEF Locks, IInv, TypeOK
<1> QED
  BY <1>8, <1>9, <1>10, <1>12 DEF Kept

LEMMA FinishReadingKept ==
  ASSUME IInv, UNCHANGED kinds, NEW p \in Proc, FinishReading(p)
  PROVE  Kept(p)
<1> USE DEF FinishReading, Goto
<1>1. TypeOK'
  BY DEF IInv, TypeOK
<1>2. OnlyOf(p)
  BY DEF OnlyOf, IInv, TypeOK
<1>3. Books(p)'
  BY DEF Books, IInv, TypeOK
<1>4. Locks(p)'
  BY DEF Locks, IInv, TypeOK
<1> QED
  BY <1>1, <1>2, <1>3, <1>4 DEF Kept

LEMMA OpenedKept ==
  ASSUME IInv, UNCHANGED kinds, NEW p \in Proc, Opened(p)
  PROVE  Kept(p)
<1> DEFINE opened == [conn[p] EXCEPT ![active[p]] = Fresh]
           builds == pc[p] = "openQuery" /\ cmd[p] \in {"PrepareQuery", "Worker"}
           closes == builds /\ cmd[p] = "PrepareQuery"
           conns == IF closes THEN [opened EXCEPT !["db"] = Closed] ELSE opened
           at == CASE pc[p] = "openDb" -> "openQuery"
                   [] builds -> "openBuild"
                   [] pc[p] = "openBuild" -> "build"
                   [] OTHER -> "idle"
<1>1. /\ pc[p] \in Opening /\ active[p] # "none"
      /\ active' = [active EXCEPT ![p] = "none"]
      /\ conn' = [conn EXCEPT ![p] = conns]
      /\ leaked' = [leaked EXCEPT ![p] = @ \/ (closes /\ Lost(p, {"db"}))]
      /\ pc' = [pc EXCEPT ![p] = at]
      /\ outcome' = [outcome EXCEPT ![p] =
                       IF builds \/ pc[p] \in {"openDb", "openBuild"} THEN @ ELSE "done"]
      /\ IF pc[p] = "openBuild"
         THEN stored' = [stored EXCEPT ![p] = 0] /\ written' = [written EXCEPT ![p] = 0]
         ELSE UNCHANGED <<stored, written>>
      /\ UNCHANGED <<cmd, reads, commit, buffered>>
  BY DEF Opened, Goto
<1>2. /\ active[p] \in Slots /\ conn[p] \in [Slots -> Connection]
      /\ Fresh \in Connection /\ Closed \in Connection /\ "db" \in Slots
      /\ ~Fresh.shared /\ ~Closed.shared
  BY <1>1 DEF IInv, TypeOK, Fresh, Closed, Connection, Slots
<1>3. conns \in [Slots -> Connection]
  <2>1. opened \in [Slots -> Connection]
    BY <1>2
  <2> HIDE DEF opened
  <2> QED
    BY <1>2, <2>1
<1>4. at \in {"openQuery", "openBuild", "build", "idle"}
  OBVIOUS
<1>5. ASSUME "empty" \notin kinds
      PROVE  ~(closes /\ Lost(p, {"db"})) /\ \A s \in Slots : ~conns[s].shared
  <2>1. \A s \in Slots : ~conn[p][s].shared
    BY <1>5 DEF IInv, Locks
  <2>2. ~Lost(p, {"db"})
    BY <1>2, <2>1 DEF Lost
  <2>3. \A s \in Slots : ~opened[s].shared
    BY <1>2, <2>1
  <2>4. \A s \in Slots : ~conns[s].shared
    <3>1. opened \in [Slots -> Connection]
      BY <1>2
    <3> HIDE DEF opened
    <3> QED
      BY <1>2, <2>3, <3>1
  <2> QED
    BY <2>2, <2>4
<1>6. TypeOK'
  <2> DEFINE lost == leaked[p] \/ (closes /\ Lost(p, {"db"}))
  <2>1. lost \in BOOLEAN
    OBVIOUS
  <2>2. leaked' = [leaked EXCEPT ![p] = lost]
    BY <1>1
  <2> HIDE DEF conns, at, closes, lost
  <2>3. leaked' \in [Proc -> BOOLEAN]
    BY <2>1, <2>2 DEF IInv, TypeOK
  <2>4. conn' \in [Proc -> [Slots -> Connection]]
    BY <1>1, <1>3 DEF IInv, TypeOK
  <2>5. stored' \in [Proc -> 0..MaxStores] /\ written' \in [Proc -> 0..MaxStores]
    BY <1>1, ConnectionsAssumption DEF IInv, TypeOK
  <2>6. outcome' \in [Proc -> {"none", "done", "refused"}]
    BY <1>1 DEF IInv, TypeOK
  <2> QED
    BY <1>1, <1>4, <2>3, <2>4, <2>5, <2>6 DEF IInv, TypeOK
<1>7. OnlyOf(p)
  <2> HIDE DEF conns, at, closes
  <2> QED
    BY <1>1 DEF OnlyOf, IInv, TypeOK
<1>8. Books(p)'
  <2>1. pc'[p] = at /\ cmd' = cmd /\ buffered' = buffered
    BY <1>1 DEF IInv, TypeOK
  <2>2. buffered[p] = 0 /\ buffered[p] \in Nat
    BY <1>1, ConnectionsAssumption, SMTT(30) DEF IInv, TypeOK, Books, Opening
  <2>3. CASE pc[p] = "openBuild"
    <3>1. stored'[p] = 0 /\ written'[p] = 0 /\ at = "build" /\ outcome'[p] = outcome[p]
      BY <1>1, <2>3 DEF IInv, TypeOK
    <3>2. outcome[p] # "done"
      BY <2>3 DEF IInv, Books
    <3> QED
      BY <2>1, <2>2, <3>1, <3>2, ConnectionsAssumption DEF Books
  <2>4. CASE pc[p] # "openBuild"
    <3>1. stored' = stored /\ written' = written /\ at \in {"openQuery", "openBuild", "idle"}
      BY <1>1, <2>4
    <3>2. outcome[p] # "done" /\ stored[p] - written[p] \in 0..BufferSize
      BY <1>1 DEF IInv, Books, Opening
    <3>3. outcome'[p] = "done" => at = "idle"
      BY <1>1, <2>4, <3>2 DEF IInv, TypeOK, Opening
    <3>4. at = "idle" /\ cmd[p] \in {"PrepareQuery", "Worker"} => pc[p] = "reopenDb"
      BY <1>1, <2>4 DEF Opening
    <3>5. pc[p] = "reopenDb" => written[p] = stored[p]
      BY DEF IInv, Books
    <3> HIDE DEF at
    <3> QED
      BY <2>1, <2>2, <3>1, <3>2, <3>3, <3>4, <3>5 DEF Books
  <2> QED
    BY <2>3, <2>4
<1>9. Locks(p)'
  <2>1. commit[p] = "none"
    BY <1>1, <1>2 DEF IInv, TypeOK, Locks
  <2>2. active'[p] = "none" /\ conn'[p] = conns /\ commit' = commit
    <3> HIDE DEF conns
    <3> QED
      BY <1>1 DEF IInv, TypeOK
  <2>3. leaked'[p] = (leaked[p] \/ (closes /\ Lost(p, {"db"})))
    <3> HIDE DEF closes
    <3> QED
      BY <1>1 DEF IInv, TypeOK
  <2> HIDE DEF conns, at, closes
  <2> QED
    BY <1>5, <2>1, <2>2, <2>3 DEF Locks, IInv
<1> QED
  BY <1>6, <1>7, <1>8, <1>9 DEF Kept
-----------------------------------------------------------------------------
(* Commands of the CLI *)

LEMMA InitQueryRangeKept ==
  ASSUME IInv, UNCHANGED kinds, NEW p \in Proc, NEW c, InitQueryRange(p, c)
  PROVE  Kept(p)
<1>1. /\ pc[p] = "idle" /\ c \in {"WorkOn", "PrepareQuery"}
      /\ cmd' = [cmd EXCEPT ![p] = c] /\ reads' = [reads EXCEPT ![p] = 0]
      /\ outcome' = [outcome EXCEPT ![p] = "none"]
      /\ UNCHANGED <<active, commit, buffered, stored, written>>
  BY DEF InitQueryRange, NewCommand
<1>2. commit[p] = "none" /\ active[p] = "none" /\ buffered[p] = 0
  BY <1>1 DEF IInv, TypeOK, Locks, Books
<1>3. PICK at \in {"openDb", "openQuery"} : pc' = [pc EXCEPT ![p] = at]
  BY DEF InitQueryRange, NewCommand, Goto
<1>4. /\ conn' \in [Proc -> [Slots -> Connection]] /\ leaked' \in [Proc -> BOOLEAN]
      /\ \A q \in Proc \ {p} : conn'[q] = conn[q] /\ leaked'[q] = leaked[q]
      /\ "empty" \notin kinds => ~leaked'[p] /\ \A s \in Slots : ~conn'[p][s].shared
  <2>1. CASE ~conn[p]["query"].open
    BY <2>1 DEF InitQueryRange, IInv, TypeOK, Locks
  <2>2. CASE conn[p]["query"].open
    <3> DEFINE left == [conn[p] EXCEPT !["query"] = Closed, !["db"] = Closed]
               lost == leaked[p] \/ Lost(p, {"query", "db"})
    <3>1. leaked' = [leaked EXCEPT ![p] = lost] /\ conn' = [conn EXCEPT ![p] = left]
      BY <2>2 DEF InitQueryRange, IInv, TypeOK
    <3>2. Closed \in Connection /\ ~Closed.shared /\ conn[p] \in [Slots -> Connection]
      BY DEF Closed, Connection, IInv, TypeOK
    <3>3. left \in [Slots -> Connection] /\ lost \in BOOLEAN
      BY <3>2
    <3>4. "empty" \notin kinds => ~lost /\ \A s \in Slots : ~left[s].shared
      BY <3>2 DEF IInv, Locks, Lost, Slots
    <3> HIDE DEF left, lost
    <3> QED
      BY <3>1, <3>3, <3>4 DEF IInv, TypeOK
  <2> QED
    BY <2>1, <2>2
<1>5. TypeOK'
  <2>1. cmd' \in [Proc -> {"none", "WorkOn", "PrepareQuery", "Query", "MultiplyTwo",
                          "Worker"}]
    BY <1>1 DEF IInv, TypeOK
  <2>2. reads' \in [Proc -> 0..MaxReads]
    BY <1>1, ConnectionsAssumption DEF IInv, TypeOK
  <2>3. /\ pc' \in [Proc -> {"exited", "idle", "openDb", "openQuery", "openBuild",
                            "read", "build", "closing", "reopenDb", "refused"}]
        /\ outcome' \in [Proc -> {"none", "done", "refused"}]
    BY <1>1, <1>3 DEF IInv, TypeOK
  <2> QED
    BY <1>1, <1>4, <2>1, <2>2, <2>3 DEF IInv, TypeOK
<1>6. OnlyOf(p)
  BY <1>1, <1>3, <1>4 DEF OnlyOf, IInv, TypeOK
<1>7. Books(p)'
  BY <1>1, <1>2, <1>3 DEF Books, IInv, TypeOK
<1>8. Locks(p)'
  BY <1>1, <1>2, <1>3, <1>4 DEF Locks, IInv, TypeOK
<1> QED
  BY <1>5, <1>6, <1>7, <1>8 DEF Kept

(* The two commands that look rows up and leave their connections alone.   *)
LEMMA ReadingKept ==
  ASSUME IInv, UNCHANGED kinds, NEW p \in Proc, Query(p) \/ MultiplyTwo(p)
  PROVE  Kept(p)
<1>1. PICK c \in {"Query", "MultiplyTwo"} : NewCommand(p, c, "read")
  BY DEF Query, MultiplyTwo
<1>2. /\ pc[p] = "idle"
      /\ UNCHANGED <<conn, leaked, active, commit, buffered, stored, written>>
  BY DEF Query, MultiplyTwo
<1> USE <1>1, <1>2 DEF NewCommand, Goto
<1>3. TypeOK'
  BY ConnectionsAssumption DEF IInv, TypeOK
<1>4. OnlyOf(p)
  BY DEF OnlyOf, IInv, TypeOK
<1>5. Books(p)'
  BY DEF Books, IInv, TypeOK
<1>6. Locks(p)'
  BY DEF Locks, IInv, TypeOK
<1> QED
  BY <1>3, <1>4, <1>5, <1>6 DEF Kept
-----------------------------------------------------------------------------
(* Builds and their transactions *)

LEMMA StoreFromDeviceKept ==
  ASSUME IInv, UNCHANGED kinds, NEW p \in Proc, StoreFromDevice(p)
  PROVE  Kept(p)
<1> USE DEF StoreFromDevice
<1>1. TypeOK'
  BY ConnectionsAssumption DEF IInv, TypeOK
<1>2. OnlyOf(p)
  BY DEF OnlyOf, IInv, TypeOK
<1>3. Books(p)'
  <2>1. /\ stored[p] = written[p] + buffered[p] /\ outcome[p] # "done"
        /\ stored[p] \in Nat /\ written[p] \in Nat /\ buffered[p] \in Nat
        /\ buffered[p] < BufferSize
    BY ConnectionsAssumption DEF IInv, TypeOK, Books
  <2>2. stored'[p] = stored[p] + 1 /\ buffered'[p] = buffered[p] + 1
    BY DEF IInv, TypeOK
  <2> QED
    BY <2>1, <2>2, ConnectionsAssumption DEF Books
<1>4. Locks(p)'
  BY DEF Locks, IInv
<1> QED
  BY <1>1, <1>2, <1>3, <1>4 DEF Kept

LEMMA EndBuildKept ==
  ASSUME IInv, UNCHANGED kinds, NEW p \in Proc, EndBuild(p)
  PROVE  Kept(p)
<1> USE DEF EndBuild, Goto
<1>1. TypeOK'
  BY DEF IInv, TypeOK
<1>2. OnlyOf(p)
  BY DEF OnlyOf, IInv, TypeOK
<1>3. Books(p)'
  BY DEF Books, IInv, TypeOK
<1>4. Locks(p)'
  BY DEF Locks, IInv, TypeOK
<1> QED
  BY <1>1, <1>2, <1>3, <1>4 DEF Kept

LEMMA BeginCommitKept ==
  ASSUME IInv, UNCHANGED kinds, NEW p \in Proc, BeginCommit(p)
  PROVE  Kept(p)
<1> USE DEF BeginCommit, Goto
<1>1. TypeOK'
  BY DEF IInv, TypeOK
<1>2. OnlyOf(p)
  BY DEF OnlyOf, IInv, TypeOK
<1>3. Books(p)'
  BY DEF Books, IInv, TypeOK
<1>4. Locks(p)'
  BY DEF Locks, IInv, TypeOK
<1> QED
  BY <1>1, <1>2, <1>3, <1>4 DEF Kept

LEMMA EndCommitKept ==
  ASSUME IInv, UNCHANGED kinds, NEW p \in Proc, EndCommit(p)
  PROVE  Kept(p)
<1> USE DEF EndCommit, Goto
<1>1. TypeOK'
  BY DEF IInv, TypeOK
<1>2. OnlyOf(p)
  BY DEF OnlyOf, IInv, TypeOK
<1>3. Books(p)'
  BY DEF Books, Locks, IInv, TypeOK
<1>4. Locks(p)'
  BY DEF Locks, IInv, TypeOK
<1> QED
  BY <1>1, <1>2, <1>3, <1>4 DEF Kept

LEMMA CommittedKept ==
  ASSUME IInv, UNCHANGED kinds, NEW p \in Proc, Committed(p)
  PROVE  Kept(p)
<1> DEFINE c == [conn[p]["build"] EXCEPT !.unfinalized = TRUE]
           left == [conn[p] EXCEPT !["build"] = c]
<1>1. /\ commit[p] = "exclusive" /\ commit' = [commit EXCEPT ![p] = "none"]
      /\ written' = [written EXCEPT ![p] = written[p] + buffered[p]]
      /\ buffered' = [buffered EXCEPT ![p] = 0]
      /\ conn' = [conn EXCEPT ![p] = left]
      /\ UNCHANGED <<pc, cmd, leaked, active, reads, stored, outcome>>
  BY DEF Committed, IInv, TypeOK
<1>2. /\ conn[p] \in [Slots -> Connection] /\ "build" \in Slots
      /\ conn[p]["build"] \in Connection
  BY DEF IInv, TypeOK, Slots
<1>3. c \in Connection /\ c.shared = conn[p]["build"].shared
  BY <1>2 DEF Connection
<1>4. left \in [Slots -> Connection]
  <2> HIDE DEF c
  <2> QED
    BY <1>2, <1>3
<1>5. ASSUME "empty" \notin kinds, NEW s \in Slots PROVE ~left[s].shared
  <2>1. ~conn[p][s].shared /\ ~conn[p]["build"].shared
    BY <1>2, <1>5 DEF IInv, Locks
  <2> HIDE DEF c
  <2> QED
    BY <1>2, <1>3, <2>1
<1> HIDE DEF c, left
<1>6. /\ pc[p] \in {"build", "closing"} /\ outcome[p] # "done"
      /\ stored[p] = written[p] + buffered[p]
      /\ stored[p] \in 0..MaxStores /\ written[p] \in Nat /\ buffered[p] \in Nat
      /\ active[p] = "none"
  BY <1>1, ConnectionsAssumption DEF IInv, TypeOK, Locks, Books
<1>7. TypeOK'
  <2>1. written' \in [Proc -> 0..MaxStores]
    BY <1>1, <1>6 DEF IInv, TypeOK
  <2> QED
    BY <1>1, <1>4, <2>1, ConnectionsAssumption DEF IInv, TypeOK
<1>8. OnlyOf(p)
  BY <1>1 DEF OnlyOf, IInv, TypeOK
<1>9. Books(p)'
  <2>1. written'[p] = stored[p] /\ buffered'[p] = 0
    BY <1>1, <1>6 DEF IInv, TypeOK
  <2> QED
    BY <1>1, <1>6, <2>1, ConnectionsAssumption DEF Books
<1>10. Locks(p)'
  <2>1. commit'[p] = "none" /\ conn'[p] = left
    BY <1>1 DEF IInv, TypeOK
  <2> QED
    BY <1>1, <1>5, <1>6, <2>1 DEF IInv, Locks
<1> QED
  BY <1>7, <1>8, <1>9, <1>10 DEF Kept

LEMMA CloseBuildKept ==
  ASSUME IInv, UNCHANGED kinds, NEW p \in Proc, CloseBuild(p)
  PROVE  Kept(p)
<1> DEFINE worker == cmd[p] = "Worker"
           left == IF worker THEN [s \in Slots |-> Closed]
                   ELSE [conn[p] EXCEPT !["build"] = Closed]
           lost == ~worker /\ (leaked[p] \/ Lost(p, {"build"}))
           at == IF worker THEN "exited" ELSE "reopenDb"
<1>1. /\ pc[p] = "closing" /\ buffered[p] = 0 /\ commit[p] = "none"
      /\ leaked' = [leaked EXCEPT ![p] = lost]
      /\ conn' = [conn EXCEPT ![p] = left]
      /\ pc' = [pc EXCEPT ![p] = at]
      /\ outcome' = [outcome EXCEPT ![p] = IF worker THEN "done" ELSE @]
      /\ UNCHANGED <<cmd, active, reads, commit, buffered, stored, written>>
  BY DEF CloseBuild, Goto, IInv, TypeOK
<1>2. /\ conn[p] \in [Slots -> Connection] /\ "build" \in Slots
      /\ Closed \in Connection /\ ~Closed.shared
  BY DEF IInv, TypeOK, Slots, Closed, Connection
<1>3. left \in [Slots -> Connection] /\ lost \in BOOLEAN
  BY <1>2
<1>4. "empty" \notin kinds => ~lost /\ \A s \in Slots : ~left[s].shared
  BY <1>2 DEF IInv, Locks, Lost
<1>5. at \in {"exited", "reopenDb"} /\ (at = "exited" <=> worker)
  OBVIOUS
<1>6. /\ written[p] = stored[p] /\ outcome[p] # "done" /\ active[p] = "none"
      /\ stored[p] \in Nat
  <2>1. Books(p) /\ Locks(p)
    BY DEF IInv
  <2>2. outcome[p] # "done" /\ active[p] = "none"
    BY <1>1, <2>1 DEF Books, Locks
  <2>3. stored[p] \in Nat /\ written[p] \in Nat
    BY ConnectionsAssumption DEF IInv, TypeOK
  <2>4. stored[p] = written[p] + buffered[p]
    BY <1>1, <2>1 DEF Books
  <2> QED
    BY <1>1, <2>2, <2>3, <2>4
<1> HIDE DEF left, lost, at, worker
<1>7. TypeOK'
  BY <1>1, <1>3, <1>5 DEF IInv, TypeOK
<1>8. OnlyOf(p)
  BY <1>1 DEF OnlyOf, IInv, TypeOK
<1>9. Books(p)'
  BY <1>1, <1>5, <1>6, ConnectionsAssumption DEF IInv, TypeOK, Books
<1>10. Locks(p)'
  BY <1>1, <1>4, <1>5, <1>6 DEF IInv, TypeOK, Locks
<1> QED
  BY <1>7, <1>8, <1>9, <1>10 DEF Kept
-----------------------------------------------------------------------------
(* Processes *)

LEMMA StartKept ==
  ASSUME IInv, UNCHANGED kinds, NEW p \in Proc, Start(p)
  PROVE  Kept(p)
<1> DEFINE new == IF p \in Worker THEN Closed ELSE Fresh
           left == [conn[p] EXCEPT !["db"] = new]
           at == IF p \in Worker THEN "openDb" ELSE "idle"
           c == IF p \in Worker THEN "Worker" ELSE "none"
<1>1. /\ pc[p] = "exited" /\ pc' = [pc EXCEPT ![p] = at]
      /\ cmd' = [cmd EXCEPT ![p] = c] /\ reads' = [reads EXCEPT ![p] = 0]
      /\ outcome' = [outcome EXCEPT ![p] = "none"]
      /\ conn' = [conn EXCEPT ![p] = left]
      /\ UNCHANGED <<leaked, active, commit, buffered, stored, written>>
  BY DEF Start, NewCommand, Goto, IInv, TypeOK
<1>2. /\ conn[p] \in [Slots -> Connection] /\ "db" \in Slots
      /\ new \in Connection /\ ~new.shared
  BY DEF IInv, TypeOK, Slots, Closed, Fresh, Connection
<1> HIDE DEF new
<1>3. left \in [Slots -> Connection]
  BY <1>2
<1>4. "empty" \notin kinds => \A s \in Slots : ~left[s].shared
  BY <1>2 DEF IInv, Locks
<1>5. at \in {"openDb", "idle"} /\ c \in {"Worker", "none"}
  OBVIOUS
<1> HIDE DEF left, at, c
<1>6. TypeOK'
  BY <1>1, <1>3, <1>5, ConnectionsAssumption DEF IInv, TypeOK
<1>7. OnlyOf(p)
  BY <1>1 DEF OnlyOf, IInv, TypeOK
<1>8. Books(p)'
  BY <1>1, <1>5 DEF IInv, TypeOK, Books
<1>9. Locks(p)'
  BY <1>1, <1>4, <1>5 DEF IInv, TypeOK, Locks
<1> QED
  BY <1>6, <1>7, <1>8, <1>9 DEF Kept

LEMMA ExitKept ==
  ASSUME IInv, UNCHANGED kinds, NEW p \in Proc, NEW how \in {"none", "refused"},
         Exit(p, how)
  PROVE  Kept(p)
<1> DEFINE left == [s \in Slots |-> Closed]
<1>1. left \in [Slots -> Connection] /\ \A s \in Slots : ~left[s].shared
  BY DEF Closed, Connection
<1>2. /\ pc' = [pc EXCEPT ![p] = "exited"] /\ conn' = [conn EXCEPT ![p] = left]
      /\ leaked' = [leaked EXCEPT ![p] = FALSE]
      /\ active' = [active EXCEPT ![p] = "none"]
      /\ commit' = [commit EXCEPT ![p] = "none"]
      /\ buffered' = [buffered EXCEPT ![p] = 0]
      /\ outcome' = [outcome EXCEPT ![p] = how]
      /\ UNCHANGED <<cmd, reads, stored, written>>
  BY DEF Exit, Goto
<1> HIDE DEF left
<1>3. TypeOK'
  BY <1>1, <1>2, ConnectionsAssumption DEF IInv, TypeOK
<1>4. OnlyOf(p)
  BY <1>2 DEF OnlyOf, IInv, TypeOK
<1>5. Books(p)'
  BY <1>2 DEF IInv, TypeOK, Books
<1>6. Locks(p)'
  BY <1>1, <1>2 DEF IInv, TypeOK, Locks
<1> QED
  BY <1>3, <1>4, <1>5, <1>6 DEF Kept
-----------------------------------------------------------------------------
(* The theorems *)

LEMMA InitIInv == Init => IInv
<1> SUFFICES ASSUME Init PROVE IInv
  OBVIOUS
<1>1. Closed \in Connection /\ ~Closed.shared
  BY DEF Closed, Connection
<1>2. TypeOK
  BY <1>1, ConnectionsAssumption DEF Init, TypeOK
<1>3. ASSUME NEW p \in Proc PROVE Books(p) /\ Locks(p)
  BY <1>1, ConnectionsAssumption DEF Init, Books, Locks
<1> QED
  BY <1>2, <1>3 DEF IInv

LEMMA StepKept ==
  ASSUME IInv, UNCHANGED kinds, NEW p \in Proc, Give(p) \/ Run(p) \/ Crash(p)
  PROVE  Kept(p)
<1>1. CASE Start(p)
  BY <1>1, StartKept
<1>2. CASE \E c \in {"WorkOn", "PrepareQuery"} : InitQueryRange(p, c)
  <2>1. PICK c \in {"WorkOn", "PrepareQuery"} : InitQueryRange(p, c)
    BY <1>2
  <2> QED
    BY <2>1, InitQueryRangeKept
<1>3. CASE Query(p) \/ MultiplyTwo(p)
  BY <1>3, ReadingKept
<1>4. CASE StartStatement(p)
  BY <1>4, StartStatementKept
<1>5. CASE LoadToDevice(p)
  BY <1>5, LoadToDeviceKept
<1>6. CASE FinishReading(p)
  BY <1>6, FinishReadingKept
<1>7. CASE Opened(p)
  BY <1>7, OpenedKept
<1>8. CASE StoreFromDevice(p)
  BY <1>8, StoreFromDeviceKept
<1>9. CASE EndBuild(p)
  BY <1>9, EndBuildKept
<1>10. CASE BeginCommit(p)
  BY <1>10, BeginCommitKept
<1>11. CASE EndCommit(p)
  BY <1>11, EndCommitKept
<1>12. CASE Committed(p)
  BY <1>12, CommittedKept
<1>13. CASE CloseBuild(p)
  BY <1>13, CloseBuildKept
<1>14. CASE Die(p) \/ Crash(p)
  <2>1. PICK how \in {"none", "refused"} : Exit(p, how)
    BY <1>14 DEF Die, Crash
  <2> QED
    BY <2>1, ExitKept
<1> QED
  BY <1>1, <1>2, <1>3, <1>4, <1>5, <1>6, <1>7, <1>8, <1>9, <1>10, <1>11, <1>12, <1>13,
     <1>14 DEF Give, Run

LEMMA NextIInv == IInv /\ [Next]_connVars => IInv'
<1> SUFFICES ASSUME IInv, [Next]_connVars PROVE IInv'
  OBVIOUS
<1>1. CASE UNCHANGED connVars
  BY <1>1 DEF connVars, IInv, TypeOK, Books, Locks
<1>2. CASE Next
  <2>1. PICK p \in Proc : Give(p) \/ Run(p) \/ Crash(p)
    BY <1>2 DEF Next
  <2>2. UNCHANGED kinds
    BY <1>2 DEF Next
  <2>3. Kept(p)
    BY <2>1, <2>2, StepKept
  <2> QED
    BY <2>2, <2>3, KeptIsEnough
<1> QED
  BY <1>1, <1>2

LEMMA Inductive == Spec => []IInv
  BY InitIInv, NextIInv, PTL DEF Spec

(* No number of processes takes a connection or a transaction out of its   *)
(* states: the buffer of a transaction is never overrun.                   *)
THEOREM ConnectionsTypeOK == Spec => []TypeOK
<1>1. IInv => TypeOK
  BY DEF IInv
<1> QED
  BY <1>1, Inductive, PTL

(* A build that returns has committed all that it has stored, and one that *)
(* is killed or refused loses at most one transaction, whoever else reads  *)
(* or writes the file: Commit checks every statement that takes a lock.    *)
THEOREM LossStaysBounded == Spec => []LossIsBounded
<1>1. IInv => LossIsBounded
  BY DEF IInv, Books, LossIsBounded
<1> QED
  BY <1>1, Inductive, PTL

(* Nobody stands in the way of a lock but another process that is in a     *)
(* command: the SHARED lock of a SELECT, or the transaction of a build.    *)
LEMMA RefusalHasCause ==
  ASSUME IInv, UNCHANGED kinds, NEW p \in Proc, pc[p] # "refused", pc'[p] = "refused",
         Give(p) \/ Run(p) \/ Crash(p), "empty" \notin kinds
  PROVE  \E q \in Proc \ {p} : pc[q] \notin {"exited", "idle"}
<1>1. \A q \in Proc : commit[q] # "none" => pc[q] \in {"build", "closing", "refused"}
  BY DEF IInv, TypeOK, Locks
<1>2. \A q \in Proc, s \in Slots :
        active[q] = s => pc[q] \notin {"exited", "idle"} /\ commit[q] = "none"
  BY DEF IInv, Locks, Slots
<1>3. \A q \in Proc : ~leaked[q] /\ \A s \in Slots : ~conn[q][s].shared
  BY DEF IInv, Locks
<1>4. CASE StartStatement(p)
  <2>1. ReadBlocked(p)
    BY <1>4 DEF StartStatement
  <2> QED
    BY <1>1, <2>1 DEF ReadBlocked
<1>5. CASE BeginCommit(p)
  <2>1. WriteBlocked(p)
    BY <1>5 DEF BeginCommit
  <2> QED
    BY <1>1, <2>1 DEF WriteBlocked
<1>6. CASE EndCommit(p)
  <2>1. OthersRead(p) /\ commit[p] = "reserved"
    BY <1>6 DEF EndCommit
  <2>2. \A s \in Slots : ~Holds(p, s)
    BY <1>2, <1>3, <2>1 DEF Holds
  <2>3. PICK q \in Proc \ {p}, s \in Slots : Holds(q, s)
    BY <1>3, <2>1, <2>2 DEF OthersRead
  <2>4. active[q] = s
    BY <1>3, <2>3 DEF Holds
  <2> QED
    BY <1>2, <2>4
<1>7. StartStatement(p) \/ BeginCommit(p) \/ EndCommit(p)
  <2>1. p \in DOMAIN pc
    BY DEF IInv, TypeOK
  <2>2. ~Give(p)
    BY <2>1 DEF Give, Start, InitQueryRange, Query, MultiplyTwo, NewCommand, Goto
  <2>3. ~Crash(p) /\ ~Die(p)
    BY <2>1 DEF Crash, Die, Exit, Goto
  <2>4. ~(LoadToDevice(p) \/ StoreFromDevice(p) \/ Committed(p))
    BY DEF LoadToDevice, StoreFromDevice, Committed
  <2>5. ~(FinishReading(p) \/ EndBuild(p) \/ CloseBuild(p))
    BY <2>1 DEF FinishReading, EndBuild, CloseBuild, Goto
  <2>6. ~Opened(p)
    BY <2>1 DEF Opened, Goto
  <2> QED
    BY <2>2, <2>3, <2>4, <2>5, <2>6 DEF Run
<1> QED
  BY <1>4, <1>5, <1>6, <1>7

(* With any number of processes, a lock is only refused to one while       *)
(* another one is in a command, in a file without rows of no entries: the  *)
(* connections of one session do not lock each other out.                  *)
THEOREM RefusalsHaveCauses == Spec => RefusedByOthers
<1> DEFINE A == \A p \in Proc : pc[p] # "refused" /\ pc'[p] = "refused" =>
                  "empty" \in kinds \/ \E q \in Proc \ {p} : pc[q] \notin {"exited", "idle"}
<1>1. IInv /\ [Next]_connVars => [A]_connVars
  <2> SUFFICES ASSUME IInv, Next, NEW p \in Proc, pc[p] # "refused", pc'[p] = "refused",
                      "empty" \notin kinds
               PROVE  \E q \in Proc \ {p} : pc[q] \notin {"exited", "idle"}
    OBVIOUS
  <2>1. UNCHANGED kinds /\ \E r \in Proc : Give(r) \/ Run(r) \/ Crash(r)
    BY DEF Next
  <2>2. PICK r \in Proc : Give(r) \/ Run(r) \/ Crash(r)
    BY <2>1
  <2>3. CASE r = p
    BY <2>1, <2>2, <2>3, RefusalHasCause
  <2>4. CASE r # p
    <3>1. Kept(r)
      BY <2>1, <2>2, StepKept
    <3> QED
      BY <2>4, <3>1 DEF Kept, OnlyOf
  <2> QED
    BY <2>3, <2>4
<1> QED
  BY <1>1, Inductive, PTL DEF Spec, RefusedByOthers
=============================================================================
