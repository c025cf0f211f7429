------------------------------ MODULE Session ------------------------------
(***************************************************************************)
(* A session of QueryCLI.  The commands share global variables: the path   *)
(* of the database and the name of the trace, a connection db that names   *)
(* the variables of answers and finds the instructions to ask about, and a *)
(* query object that has a path, a trace and a connection of its own.  One *)
(* action is one command; a command may end the program, by DIE (an SQL    *)
(* error, a query out of range) or by using a NULL pointer.                *)
(***************************************************************************)
EXTENDS Integers, FiniteSets

CONSTANTS
  Path,    \* database files
  Name,    \* names of traces
  Loaded,  \* Loaded[f]: the traces in file f, with their number of instructions
  Sizes,   \* the numbers of instructions to try as ends of ranges
  Levels,  \* arguments of SetStorageLevel
  Limits   \* arguments of SetProcessLimit

ASSUME SessionAssumption ==
  /\ DOMAIN Loaded = Path
  /\ \A f \in Path : /\ DOMAIN Loaded[f] \subseteq Name
                     /\ \A n \in DOMAIN Loaded[f] : Loaded[f][n] \in Nat \ {0}
  /\ Sizes \subseteq Nat /\ Levels \subseteq Int /\ Limits \subseteq Int
  /\ "" \notin Path \cup Name

VARIABLES
  running,       \* the program is at its prompt
  dbPath, traceName, db, query, lastResult, process_limit, storageLevel,
  tables,        \* tables[f]: the traces of file f, with their sizes
  built,         \* the ranges whose trees have been built
  said           \* what the last command told the user, or how it ended

settings == <<process_limit, storageLevel>>
sessionVars == <<running, dbPath, traceName, db, query, lastResult, settings,
                 tables, built, said>>

Indices == UNION {1..n : n \in Sizes \cup {1}}

(* A pointer is the set of what it points to: at most one thing.           *)
NULL == {}
DBCore == [path : Path, table_name : Name \cup {""}]
FMQuery == [path : Path, trace : Name, startPos : Nat, endPos : Nat]
Result == [path : Path, trace : Name, left : Nat, right : Nat]

Kinds == {"nothing", "ok", "noDB", "noTrace", "noQuery", "invalidRange", "notFound",
          "badArguments", "noneSelected", "exception", "answers", "Done", "die", "null"}

(* names and flows: where the answers' names and their matrix came from.   *)
Say(kind) == [kind |-> kind, names |-> {}, flows |-> {}]

TypeOK ==
  /\ running \in BOOLEAN
  /\ dbPath \in Path \cup {""} /\ traceName \in Name \cup {""}
  /\ db \in SUBSET DBCore /\ Cardinality(db) <= 1
  /\ query \in SUBSET FMQuery /\ Cardinality(query) <= 1
  /\ lastResult \in SUBSET Result /\ Cardinality(lastResult) <= 1
  /\ process_limit \in 1..16 /\ storageLevel \in Int
  /\ \A f \in Path : DOMAIN tables[f] \subseteq Name
  /\ built \subseteq FMQuery
  /\ said \in [kind : Kinds, names : SUBSET DBCore, flows : SUBSET FMQuery]

Init ==
  /\ running = FALSE
  /\ dbPath = "" /\ traceName = ""
  /\ db = NULL /\ query = NULL /\ lastResult = NULL
  /\ process_limit = 1 /\ storageLevel = 1
  /\ tables = Loaded
  /\ built = {}
  /\ said = Say("nothing")

-----------------------------------------------------------------------------
(* The database *)

(* DBCore(path, name) runs CREATE TABLE IF NOT EXISTS.                     *)
Create(file, name) ==
  IF name \in DOMAIN tables[file] THEN tables
  ELSE [tables EXCEPT ![file] = [n \in DOMAIN @ \cup {name} |-> IF n = name THEN 0 ELSE @[n]]]

(* An SQL statement on a table that does not exist, or on "", is an error. *)
Readable(d, files) == d.table_name \in DOMAIN files[d.path]

TheDb == CHOOSE d \in db : TRUE
TheQuery == CHOOSE q \in query : TRUE

(* _Check_DB: open the file at dbPath if there is no connection.           *)
CheckedDB ==
  IF db = NULL /\ dbPath # "" THEN {[path |-> dbPath, table_name |-> ""]} ELSE db

Dies(kind) == running' = FALSE /\ said' = Say(kind)

Prints(message) == running' = TRUE /\ said' = message

-----------------------------------------------------------------------------
(* InitQueryRange *)

(* A slip: the end is not compared with the length.                        *)
OutOfRange_NoEnd(start, to, trace_len) == start > to \/ start <= 0

OutOfRange(start, to, trace_len) == start > to \/ start <= 0 \/ to > trace_len

(* What the function leaves behind, called with db = d, query = q and      *)
(* traceName = name.                                                       *)
InitQueryRange(d, q, name, start, end) ==
  LET reopen == d = NULL \/ q # NULL
      refused == IF dbPath = "" THEN "noDB" ELSE IF name = "" THEN "noTrace" ELSE "no"
      files == IF reopen THEN Create(dbPath, name) ELSE tables
      opened == IF reopen THEN [path |-> dbPath, table_name |-> name]
                ELSE CHOOSE x \in d : TRUE
      trace_len == files[opened.path][opened.table_name]
      to == IF end <= 0 THEN trace_len ELSE end
      new == [path |-> dbPath, trace |-> name, startPos |-> start, endPos |-> to]
  IN  IF reopen /\ refused # "no"
      THEN [how |-> refused, db |-> NULL, query |-> NULL, tables |-> tables]
      ELSE IF ~Readable(opened, files)
      THEN [how |-> "die", db |-> {opened}, query |-> NULL, tables |-> files]
      ELSE IF OutOfRange(start, to, trace_len)
      THEN [how |-> "invalidRange", db |-> {opened}, query |-> NULL, tables |-> files]
      ELSE [how |-> "ok", db |-> {opened}, query |-> {new}, tables |-> Create(dbPath, name)]

Become(r) == db' = r.db /\ query' = r.query /\ tables' = r.tables

-----------------------------------------------------------------------------
(* Commands *)

(* main, with or without a path on the command line.                       *)
Start ==
  /\ ~running /\ running' = TRUE
  /\ traceName' = "" /\ query' = NULL /\ lastResult' = NULL
  /\ process_limit' = 1 /\ storageLevel' = 1
  /\ \E p \in Path \cup {""} :
       /\ dbPath' = p
       /\ db' = IF p = "" THEN NULL ELSE {[path |-> p, table_name |-> ""]}
  /\ said' = Say("nothing")
  /\ UNCHANGED <<tables, built>>

(* A slip: the new connection is for the current trace.                    *)
SetDB_KeepsTrace(p) ==
  /\ running
  /\ dbPath' = p
  /\ db' = {[path |-> p, table_name |-> traceName]}
  /\ tables' = IF traceName = "" THEN tables ELSE Create(p, traceName)
  /\ Prints(Say("ok"))
  /\ UNCHANGED <<traceName, query, lastResult, settings, built>>

(* A slip: the next command will open the new path.                        *)
SetDB_PathOnly(p) ==
  /\ running
  /\ dbPath' = p
  /\ Prints(Say("ok"))
  /\ UNCHANGED <<traceName, db, query, lastResult, settings, tables, built>>

(* The query and its connection stay what they were.                       *)
SetDB(p) ==
  /\ running
  /\ dbPath' = p
  /\ db' = {[path |-> p, table_name |-> ""]}
  /\ Prints(Say("ok"))
  /\ UNCHANGED <<traceName, query, lastResult, settings, tables, built>>

SetStorageLevel(l) ==
  /\ running
  /\ storageLevel' = l
  /\ Prints(Say("ok"))
  /\ UNCHANGED <<dbPath, traceName, db, query, lastResult, process_limit, tables, built>>

(* A slip: any number will do.                                             *)
SetProcessLimit_Unclamped(k) ==
  /\ running
  /\ process_limit' = k
  /\ Prints(Say("ok"))
  /\ UNCHANGED <<dbPath, traceName, db, query, lastResult, storageLevel, tables, built>>

(* Between 1 and 16 workers.                                               *)
SetProcessLimit(k) ==
  /\ running
  /\ process_limit' = IF k < 1 THEN 1 ELSE IF k > 16 THEN 16 ELSE k
  /\ Prints(Say("ok"))
  /\ UNCHANGED <<dbPath, traceName, db, query, lastResult, storageLevel, tables, built>>

ListTraces ==
  /\ running
  /\ db' = CheckedDB
  /\ Prints(Say(IF db' = NULL THEN "noDB" ELSE "ok"))
  /\ UNCHANGED <<dbPath, traceName, query, lastResult, settings, tables, built>>

(* The list of traces is searched for the OLD name, as a substring ("" is  *)
(* always found); then the size of db's table is asked for, whatever was   *)
(* found, and the query is made for the whole trace.                       *)
WorkOn(n) ==
  /\ running
  /\ LET found == CheckedDB # NULL /\
                  (traceName = "" \/ \E d \in CheckedDB : traceName \in DOMAIN tables[d.path])
         d == IF found THEN {[x EXCEPT !.table_name = n] : x \in CheckedDB} ELSE CheckedDB
         name == IF found THEN n ELSE traceName
         message == Say(IF found THEN "ok" ELSE "notFound")
         size == LET x == CHOOSE y \in d : TRUE IN tables[x.path][x.table_name]
         r == InitQueryRange(d, query, name, 1, size)
     IN  /\ traceName' = name
         /\ IF d = NULL \/ \E x \in d : ~Readable(x, tables)
            THEN /\ Dies(IF d = NULL THEN "null" ELSE "die")
                 /\ db' = d /\ UNCHANGED <<query, tables>>
            ELSE /\ Become(r)
                 /\ IF r.how = "die" THEN Dies("die")
                    ELSE Prints(IF r.how = "ok" THEN message ELSE Say(r.how))
  /\ UNCHANGED <<dbPath, lastResult, settings, built>>

(* The menu's command: InitQueryRange, then PrepareQuery.  A build may end *)
(* the program (see FlowTree and Connections).  With more than one process *)
(* the program forks, both go on, and nothing is built.                    *)
PrepareQuery(start, end) ==
  /\ running
  /\ LET r == InitQueryRange(db, query, traceName, start, end) IN
     /\ query' = r.query /\ tables' = r.tables
     /\ IF r.how = "die"
        THEN Dies("die") /\ db' = r.db /\ UNCHANGED built
        ELSE IF r.query = NULL
        THEN Prints(Say("noQuery")) /\ db' = r.db /\ UNCHANGED built
        ELSE /\ db' = {[path |-> dbPath, table_name |-> traceName]}
             /\ \/ /\ built' = IF process_limit = 1 THEN built \cup r.query ELSE built
                   /\ Prints(Say("Done"))
                \/ /\ process_limit = 1
                   /\ Dies("die") /\ UNCHANGED built
  /\ UNCHANGED <<dbPath, traceName, lastResult, settings>>

(* TraceSize, TracePrint, TracePrintRange, SyscallPrintAll, SyscallPrint.  *)
PrintTraceData ==
  /\ running
  /\ db' = CheckedDB
  /\ CASE db' = NULL -> Prints(Say("noDB"))
       [] db' # NULL /\ traceName = "" -> Prints(Say("noTrace"))
       [] OTHER -> IF \A d \in db' : Readable(d, tables)
                   THEN Prints(Say("ok")) ELSE Dies("die")
  /\ UNCHANGED <<dbPath, traceName, query, lastResult, settings, tables, built>>

(* PrintOne and MultiplyTwo use db and query without a check; a row that   *)
(* is not there is a NULL matrix.  An empty result is an assertion.        *)
PrintSingleInstr(i) ==
  /\ running
  /\ CASE query = NULL \/ db = NULL -> Dies("null")
       [] OTHER -> IF ~Readable(TheDb, tables) THEN Dies("die")
                   ELSE IF i > tables[TheDb.path][TheDb.table_name]
                   THEN Dies("null")
                   ELSE Prints(Say("ok")) \/ Dies("die")
  /\ UNCHANGED <<dbPath, traceName, db, query, lastResult, settings, tables, built>>

-----------------------------------------------------------------------------
(* Query and QueryInRange *)

(* Legal ranges are parts of the query's.                                  *)
QueryRefused(kind) ==
  /\ running
  /\ query = NULL <=> kind = "noQuery"
  /\ kind \in {"noQuery", "badArguments", "exception"}
  /\ lastResult' = IF kind = "noQuery" THEN lastResult ELSE NULL
  /\ Prints(Say(kind))
  /\ UNCHANGED <<dbPath, traceName, db, query, settings, tables, built>>

(* ParseVars looks instructions up with db: those found by name are in the *)
(* range, those given by their index are only looked up.                   *)
Selectable == {i \in Indices : i <= tables[TheDb.path][TheDb.table_name]}

(* The pairs of the two loops that are asked: source before sink.          *)
Asked(sources, sinks) == {w \in sources \X sinks : w[1] < w[2]}

(* The source's own effect is skipped.                                     *)
RangeOf(w) == <<w[1] + 1, w[2]>>

InSpan(r) == TheQuery.startPos <= r[1] /\ r[2] <= TheQuery.endPos

QueryInRange(sources, sinks) ==
  /\ running /\ query # NULL
  /\ IF ~Readable(TheDb, tables)
     THEN Dies("die") /\ lastResult' = NULL
     ELSE LET asked == {RangeOf(w) : w \in Asked(sources, sinks)}
              one == \E i \in sources, j \in sinks : sources = {i} /\ sinks = {j}
          IN  /\ sources \cup sinks \subseteq Selectable
              /\ CASE sources = {} \/ sinks = {} ->
                        Prints(Say("noneSelected")) /\ lastResult' = NULL
                   [] sources # {} /\ sinks # {} ->
                        \/ /\ \A r \in asked : InSpan(r)
                           /\ Prints([Say("answers") EXCEPT !.names = db, !.flows = query])
                           /\ lastResult' =
                                IF one THEN {[path |-> TheQuery.path, trace |-> TheQuery.trace,
                                              left |-> r[1], right |-> r[2]] : r \in asked}
                                ELSE NULL
                        \/ /\ asked # {}
                           /\ Dies("die") /\ lastResult' = NULL
  /\ UNCHANGED <<dbPath, traceName, db, query, settings, tables, built>>

-----------------------------------------------------------------------------
Quit == running /\ running' = FALSE /\ UNCHANGED <<dbPath, traceName, db, query,
          lastResult, settings, tables, built, said>>

Next ==
  \/ Start \/ Quit
  \/ \E p \in Path : SetDB(p)
  \/ \E l \in Levels : SetStorageLevel(l)
  \/ \E k \in Limits : SetProcessLimit(k)
  \/ ListTraces \/ PrintTraceData
  \/ \E n \in Name : WorkOn(n)
  \/ \E s, e \in Sizes : PrepareQuery(s, e)
  \/ \E i \in Indices : PrintSingleInstr(i)
  \/ \E k \in Kinds : QueryRefused(k)
  \/ \E S, T \in SUBSET Indices : QueryInRange(S, T)

Spec == Init /\ [][Next]_sessionVars
-----------------------------------------------------------------------------
(* Properties *)

(* OneTrace: the flows an answer reports and the names it gives to their   *)
(* ends come from the same trace of the same file, although they are read  *)
(* on two connections that commands replace one at a time (SetDB, WorkOn). *)
OneTrace ==
  said.kind = "answers" =>
    \A d \in said.names, q \in said.flows : d.path = q.path /\ d.table_name = q.trace

(* DbFollowsPath: the global connection is open exactly when a path is     *)
(* set, and it is open on that path (_Check_DB, InitQueryRange).           *)
DbFollowsPath ==
  running => (db = NULL <=> dbPath = "") /\ \A d \in db : d.path = dbPath

(* SpanInTrace: a query is for a part of its trace as loaded: what FlowTree *)
(* takes for granted of every BuildTree and Query.                         *)
SpanInTrace ==
  running => \A q \in query :
    1 <= q.startPos /\ q.startPos <= q.endPos /\ q.endPos <= tables[q.path][q.trace]

(* PreparedIsBuilt: when one process at a time is allowed and PrepareQuery *)
(* has said Done, the tree of the range has been built.  (With more than   *)
(* one it forks, says Done and builds nothing.)                            *)
PreparedIsBuilt ==
  said.kind = "Done" /\ ~(process_limit > 1) => query # NULL /\ query \subseteq built
=============================================================================
