---------------------------- MODULE SessionProofs ----------------------------
(***************************************************************************)
(* Whatever commands a user gives, over any files and traces: the global   *)
(* connection and the query, which commands replace one at a time, never   *)
(* disagree in an answer, and a query is for a part of its trace.          *)
(***************************************************************************)
EXTENDS Session, FiniteSetTheorems, TLAPS

(* The name of no trace, and the path of no file.                          *)
None == ""

(* Tables of numbers of instructions, one for each trace of a file.        *)
IsTables(files) ==
  /\ DOMAIN files = Path
  /\ \A f \in Path : /\ DOMAIN files[f] \subseteq Name
                     /\ \A n \in DOMAIN files[f] : files[f][n] \in Nat

AtMostOne(S) == \A x, y \in S : x = y

Types ==
  /\ running \in BOOLEAN
  /\ dbPath \in Path \cup {None} /\ traceName \in Name \cup {None}
  /\ db \subseteq DBCore /\ AtMostOne(db)
  /\ query \subseteq FMQuery /\ AtMostOne(query)
  /\ IsTables(tables)
  /\ process_limit \in 1..16

(* The span of q lies in its trace, according to files.                    *)
Within(q, files) ==
  /\ q.trace \in DOMAIN files[q.path]
  /\ 1 <= q.startPos /\ q.startPos <= q.endPos /\ q.endPos <= files[q.path][q.trace]

(* d is open on the path and has the name of the trace, or none.           *)
Follows(d, name) ==
  /\ d = NULL <=> dbPath = None
  /\ \A x \in d : x.path = dbPath /\ x.table_name \in {None, name}

(* Connections d that have a name have that of the query.                  *)
Agree(d, q) ==
  \A x \in d, y \in q : x.table_name # None => x.path = y.path /\ x.table_name = y.trace

Together ==
  /\ Follows(db, traceName)
  /\ Agree(db, query)
  /\ \A q \in query : Within(q, tables)
  /\ query # NULL => traceName # None /\ dbPath # None

IInv ==
  /\ Types
  /\ running = TRUE => Together
  /\ OneTrace
  /\ PreparedIsBuilt
-----------------------------------------------------------------------------
(* Tables and connections *)

LEMMA NoneIsNew ==
  /\ None \notin Path /\ None \notin Name
  /\ DBCore = [path : Path, table_name : Name \cup {None}]
  BY SessionAssumption, Zenon DEF None, DBCore

LEMMA Creates ==
  ASSUME NEW f \in Path, NEW n \in Name, IsTables(tables)
  PROVE  /\ IsTables(Create(f, n))
         /\ n \in DOMAIN Create(f, n)[f]
         /\ \A q : q.path \in Path /\ Within(q, tables) => Within(q, Create(f, n))
         /\ n \in DOMAIN tables[f] => Create(f, n) = tables
<1>1. CASE n \in DOMAIN tables[f]
  BY <1>1 DEF Create
<1>2. CASE n \notin DOMAIN tables[f]
  <2> DEFINE more == [m \in DOMAIN tables[f] \cup {n} |-> IF m = n THEN 0 ELSE tables[f][m]]
  <2>1. Create(f, n) = [tables EXCEPT ![f] = more]
    BY <1>2 DEF Create
  <2>2. /\ DOMAIN Create(f, n) = Path /\ Create(f, n)[f] = more
        /\ \A g \in Path : g # f => Create(f, n)[g] = tables[g]
    <3> HIDE DEF more
    <3> QED
      BY <2>1 DEF IsTables
  <2>3. /\ DOMAIN more = DOMAIN tables[f] \cup {n}
        /\ \A m \in DOMAIN tables[f] : more[m] = tables[f][m]
        /\ more[n] = 0
    BY <1>2
  <2> HIDE DEF more
  <2>4. IsTables(Create(f, n))
    BY <2>2, <2>3 DEF IsTables
  <2>5. ASSUME NEW q, q.path \in Path, Within(q, tables) PROVE Within(q, Create(f, n))
    <3>1. CASE q.path = f
      BY <2>2, <2>3, <2>5, <3>1 DEF Within
    <3>2. CASE q.path # f
      BY <2>2, <2>5, <3>2 DEF Within
    <3> QED
      BY <3>1, <3>2
  <2> QED
    BY <1>2, <2>2, <2>3, <2>4, <2>5
<1> QED
  BY <1>1, <1>2

(* _Check_DB opens the file at dbPath, for no trace yet.                   *)
LEMMA CheckedFollows ==
  ASSUME Types, Together
  PROVE  /\ CheckedDB = db
         /\ Follows(CheckedDB, traceName)
<1>1. CheckedDB = IF db = NULL /\ dbPath # None THEN {[path |-> dbPath, table_name |-> None]}
                  ELSE db
  BY Zenon DEF CheckedDB, None
<1> QED
  BY <1>1 DEF Together, Follows

(* The one element of a pointer that is not NULL.                          *)
LEMMA TheOnly ==
  ASSUME NEW S, S # NULL, AtMostOne(S)
  PROVE  /\ (CHOOSE x \in S : TRUE) \in S
         /\ S = {CHOOSE x \in S : TRUE}
  BY DEF AtMostOne, NULL

(* What InitQueryRange leaves behind if it does not end the program: a     *)
(* connection and a query for the same trace, and a span of that.          *)
Leaves(r, name) ==
  /\ r.db \subseteq DBCore /\ AtMostOne(r.db)
  /\ r.query \subseteq FMQuery /\ AtMostOne(r.query)
  /\ IsTables(r.tables)
  /\ r.how # "die" =>
       /\ Follows(r.db, name)
       /\ Agree(r.db, r.query)
       /\ \A x \in r.query : /\ Within(x, r.tables)
                             /\ x.path = dbPath /\ x.trace = name
       /\ r.query # NULL => name # None /\ dbPath # None

LEMMA InitLeavesTogether ==
  ASSUME Types, NEW d, NEW q, NEW name \in Name \cup {None},
         NEW start \in Int, NEW end \in Int,
         d \subseteq DBCore, AtMostOne(d), q # NULL => name # None /\ dbPath # None,
         Follows(d, name)
  PROVE  Leaves(InitQueryRange(d, q, name, start, end), name)
<1>0. SUFFICES ASSUME NEW r, r = InitQueryRange(d, q, name, start, end)
             PROVE  Leaves(r, name)
  OBVIOUS
<1> DEFINE reopen == d = NULL \/ q # NULL
           refused == IF dbPath = None THEN "noDB" ELSE IF name = None THEN "noTrace" ELSE "no"
           files == IF reopen THEN Create(dbPath, name) ELSE tables
           opened == IF reopen THEN [path |-> dbPath, table_name |-> name]
                     ELSE CHOOSE x \in d : TRUE
           trace_len == files[opened.path][opened.table_name]
           to == IF end <= 0 THEN trace_len ELSE end
           new == [path |-> dbPath, trace |-> name, startPos |-> start, endPos |-> to]
<1>1. r = IF reopen /\ refused # "no"
          THEN [how |-> refused, db |-> NULL, query |-> NULL, tables |-> tables]
          ELSE IF ~Readable(opened, files)
          THEN [how |-> "die", db |-> {opened}, query |-> NULL, tables |-> files]
          ELSE IF OutOfRange(start, to, trace_len)
          THEN [how |-> "invalidRange", db |-> {opened}, query |-> NULL, tables |-> files]
          ELSE [how |-> "ok", db |-> {opened}, query |-> {new}, tables |-> Create(dbPath, name)]
  BY <1>0, Zenon DEF InitQueryRange, None
<1>2. refused \in {"noDB", "noTrace", "no"}
  OBVIOUS
<1>3. /\ IsTables(tables) /\ dbPath \in Path \cup {None}
      /\ \A S : AtMostOne({S}) /\ AtMostOne(NULL)
      /\ None \notin Path \cup Name
  BY NoneIsNew DEF Types, AtMostOne, NULL
<1>4. CASE reopen /\ refused # "no"
  <2>1. r = [how |-> refused, db |-> NULL, query |-> NULL, tables |-> tables]
    BY <1>1, <1>4
  <2>2. dbPath = None
    BY <1>4 DEF Follows
  <2> HIDE DEF refused, reopen
  <2>3. /\ r.how \notin {"die", "ok"} /\ r.db = {} /\ r.query = {} /\ r.tables = tables
    BY <1>2, <1>4, <2>1 DEF NULL
  <2> QED
    BY <1>3, <2>2, <2>3 DEF Leaves, Follows, Agree, NULL
<1>5. CASE ~(reopen /\ refused # "no")
  <2>1. /\ opened \in DBCore /\ opened.path = dbPath /\ dbPath \in Path
        /\ opened.table_name \in {None, name} /\ IsTables(files)
    <3>1. CASE reopen
      <4>1. dbPath \in Path /\ name \in Name
        BY <1>3, <1>5, <3>1
      <4>2. opened = [path |-> dbPath, table_name |-> name] /\ files = Create(dbPath, name)
        BY <3>1
      <4> HIDE DEF opened, files, reopen
      <4>3. opened.path = dbPath /\ opened.table_name = name /\ opened \in DBCore
        BY <4>1, <4>2, NoneIsNew
      <4>4. IsTables(Create(dbPath, name))
        BY <1>3, <4>1, Creates
      <4> QED
        BY <4>1, <4>2, <4>3, <4>4
    <3>2. CASE ~reopen
      <4>1. opened \in d /\ files = tables
        BY <3>2, TheOnly
      <4> QED
        BY <1>3, <4>1, NoneIsNew DEF Follows, NULL
    <3> QED
      BY <3>1, <3>2
  <2>2. Readable(opened, files) => opened.table_name = name /\ name \in Name
    BY <1>3, <2>1 DEF Readable, IsTables
  <2> HIDE DEF opened, files, reopen, refused
  <2>3. Follows({opened}, name)
    BY <1>3, <2>1 DEF Follows, NULL
  <2>4. CASE ~Readable(opened, files)
    <3>1. /\ r.how = "die" /\ r.db = {opened} /\ r.query = {} /\ r.tables = files
      BY <1>1, <1>5, <2>4 DEF NULL
    <3> QED
      BY <1>3, <2>1, <3>1 DEF Leaves, NULL
  <2>5. CASE Readable(opened, files) /\ OutOfRange(start, to, trace_len)
    <3>1. /\ r.how = "invalidRange" /\ r.db = {opened} /\ r.query = {} /\ r.tables = files
      <4> HIDE DEF to, trace_len
      <4> QED
        BY <1>1, <1>5, <2>5 DEF NULL
    <3> QED
      BY <1>3, <2>1, <2>3, <3>1 DEF Leaves, NULL, Agree
  <2>6. CASE Readable(opened, files) /\ ~OutOfRange(start, to, trace_len)
    <3>1. /\ r.how = "ok" /\ r.db = {opened} /\ r.query = {new}
          /\ r.tables = Create(dbPath, name)
      <4> HIDE DEF to, trace_len, new
      <4> QED
        BY <1>1, <1>5, <2>6
    <3>2. opened.table_name = name /\ name \in Name /\ dbPath \in Path
      BY <2>1, <2>2, <2>6
    <3>3. name \in DOMAIN files[dbPath] /\ trace_len = files[dbPath][name]
      BY <2>1, <2>6, <3>2 DEF Readable
    <3>4. Create(dbPath, name) = files
      BY <1>3, <3>2, <3>3, Creates DEF files
    <3>5. trace_len \in Nat
      BY <2>1, <3>2, <3>3 DEF IsTables
    <3>6. 1 <= start /\ start <= to /\ to <= trace_len /\ to \in Nat /\ start \in Nat
      <4> HIDE DEF trace_len
      <4>1. to = trace_len \/ to = end
        OBVIOUS
      <4> HIDE DEF to
      <4>2. start \in Int /\ to \in Int /\ trace_len \in Nat
        BY <3>5, <4>1
      <4>3. start <= to /\ start > 0 /\ to <= trace_len
        BY <2>6, <4>2 DEF OutOfRange
      <4> QED
        BY <4>2, <4>3
    <3>7. new.path = dbPath /\ new.trace = name /\ new.startPos = start /\ new.endPos = to
      OBVIOUS
    <3>8. new \in FMQuery
      <4> HIDE DEF to
      <4> QED
        BY <3>2, <3>6 DEF FMQuery
    <3> HIDE DEF new, to
    <3>9. Within(new, files)
      BY <3>3, <3>6, <3>7 DEF Within
    <3> QED
      BY <1>3, <2>1, <2>3, <3>1, <3>2, <3>4, <3>7, <3>8, <3>9 DEF Leaves, NULL, Agree
  <2> QED
    BY <2>4, <2>5, <2>6
<1> QED
  BY <1>4, <1>5
LEMMA InitEnds ==
  ASSUME NEW d, NEW q, NEW name, NEW start, NEW end
  PROVE  InitQueryRange(d, q, name, start, end).how
           \in {"noDB", "noTrace", "die", "invalidRange", "ok"}
<1> DEFINE reopen == d = NULL \/ q # NULL
           refused == IF dbPath = None THEN "noDB" ELSE IF name = None THEN "noTrace" ELSE "no"
           files == IF reopen THEN Create(dbPath, name) ELSE tables
           opened == IF reopen THEN [path |-> dbPath, table_name |-> name]
                     ELSE CHOOSE x \in d : TRUE
           trace_len == files[opened.path][opened.table_name]
           to == IF end <= 0 THEN trace_len ELSE end
           new == [path |-> dbPath, trace |-> name, startPos |-> start, endPos |-> to]
<1>1. InitQueryRange(d, q, name, start, end) =
        IF reopen /\ refused # "no"
        THEN [how |-> refused, db |-> NULL, query |-> NULL, tables |-> tables]
        ELSE IF ~Readable(opened, files)
        THEN [how |-> "die", db |-> {opened}, query |-> NULL, tables |-> files]
        ELSE IF OutOfRange(start, to, trace_len)
        THEN [how |-> "invalidRange", db |-> {opened}, query |-> NULL, tables |-> files]
        ELSE [how |-> "ok", db |-> {opened}, query |-> {new}, tables |-> Create(dbPath, name)]
  BY Zenon DEF InitQueryRange, None
<1>2. refused \in {"noDB", "noTrace", "no"}
  OBVIOUS
<1> HIDE DEF refused, files, opened, trace_len, to, new, reopen
<1> QED
  BY <1>1, <1>2
-----------------------------------------------------------------------------
(* The commands *)

(* A command that leaves the connection, the query and the tables alone,   *)
(* and says nothing of flows.                                              *)
LEMMA OthersKeep ==
  ASSUME IInv, UNCHANGED <<dbPath, traceName, db, query, tables>>,
         running' \in BOOLEAN, running = TRUE, process_limit' \in 1..16,
         said'.kind # "answers", said'.kind # "Done"
  PROVE  IInv'
<1>1. Types'
  BY DEF IInv, Types
<1>2. Together'
  BY DEF IInv, Together, Follows, Agree
<1> QED
  BY <1>1, <1>2 DEF IInv, OneTrace, PreparedIsBuilt

(* A connection that has just been opened, for no trace yet.               *)
LEMMA FollowsFresh ==
  ASSUME dbPath' # None, db' = {[path |-> dbPath', table_name |-> None]}
  PROVE  Follows(db, traceName)'
<1> DEFINE fresh == [path |-> dbPath', table_name |-> None]
<1>1. fresh.path = dbPath' /\ fresh.table_name = None
  OBVIOUS
<1>2. db' = {fresh}
  OBVIOUS
<1> HIDE DEF fresh
<1>3. db' # NULL
  BY <1>2 DEF NULL
<1>4. \A x \in db' : x = fresh
  BY <1>2
<1> QED
  BY <1>1, <1>3, <1>4 DEF Follows

LEMMA StartKeeps == ASSUME IInv, Start PROVE IInv'
<1>1. PICK p \in Path \cup {None} :
        dbPath' = p /\ db' = IF p = None THEN NULL ELSE {[path |-> p, table_name |-> None]}
  BY Zenon DEF Start, None
<1>2. /\ running' = TRUE /\ traceName' = None /\ query' = NULL
      /\ said' = Say("nothing") /\ tables' = tables /\ process_limit' = 1
  BY Zenon DEF Start, None
<1>3. said'.kind = "nothing"
  BY <1>2 DEF Say
<1>4. Types'
  BY <1>1, <1>2, NoneIsNew DEF IInv, Types, AtMostOne, NULL
<1>5. Together'
  <2>1. query' = {}
    BY <1>2 DEF NULL
  <2>2. Follows(db, traceName)'
    <3>1. CASE p = None
      BY <1>1, <3>1 DEF Follows, NULL
    <3>2. CASE p # None
      BY <1>1, <3>2, FollowsFresh
    <3> QED
      BY <3>1, <3>2
  <2> QED
    BY <2>1, <2>2 DEF Together, Agree, NULL
<1> QED
  BY <1>3, <1>4, <1>5 DEF IInv, OneTrace, PreparedIsBuilt

LEMMA SetDBKeeps == ASSUME IInv, NEW p \in Path, SetDB(p) PROVE IInv'
<1>1. /\ running = TRUE /\ running' = TRUE /\ dbPath' = p
      /\ db' = {[path |-> p, table_name |-> None]}
      /\ said' = Say("ok")
      /\ UNCHANGED <<traceName, query, tables, process_limit>>
  <2>1. running /\ running' = TRUE /\ said' = Say("ok")
    BY Zenon DEF SetDB, Prints
  <2>2. running = TRUE
    BY <2>1, Zenon DEF IInv, Types
  <2> QED
    BY <2>1, <2>2, Zenon DEF SetDB, None, settings
<1>2. said'.kind = "ok"
  BY <1>1 DEF Say
<1>3. Types'
  BY <1>1, NoneIsNew DEF IInv, Types, AtMostOne
<1>4. Together'
  <2>1. Together
    BY <1>1 DEF IInv
  <2>2. dbPath' # None
    BY <1>1, NoneIsNew
  <2>3. Follows(db, traceName)'
    BY <1>1, <2>2, FollowsFresh
  <2>4. Agree(db, query)'
    BY <1>1 DEF Agree
  <2> QED
    BY <1>1, <2>1, <2>2, <2>3, <2>4 DEF Together
<1> QED
  BY <1>2, <1>3, <1>4 DEF IInv, OneTrace, PreparedIsBuilt

LEMMA SettingsKeep ==
  ASSUME IInv, NEW k \in Int, SetStorageLevel(k) \/ SetProcessLimit(k) PROVE IInv'
<1>1. running = TRUE
  BY Zenon DEF SetStorageLevel, SetProcessLimit, IInv, Types
<1>2. /\ running' = TRUE /\ said' = Say("ok")
      /\ UNCHANGED <<dbPath, traceName, db, query, tables>>
  BY Zenon DEF SetStorageLevel, SetProcessLimit, Prints
<1>3. said'.kind = "ok"
  BY <1>2 DEF Say
<1>4. process_limit' \in 1..16
  <2>1. CASE SetStorageLevel(k)
    <3>1. process_limit' = process_limit
      BY <2>1, Zenon DEF SetStorageLevel
    <3> QED
      BY <3>1 DEF IInv, Types
  <2>2. CASE SetProcessLimit(k)
    <3>1. process_limit' = IF k < 1 THEN 1 ELSE IF k > 16 THEN 16 ELSE k
      BY <2>2, Zenon DEF SetProcessLimit
    <3> QED
      BY <3>1
  <2> QED
    BY <2>1, <2>2
<1> QED
  BY <1>1, <1>2, <1>3, <1>4, OthersKeep

(* The commands that print open a connection if there is none; with a path *)
(* there always is one.                                                    *)
LEMMA PrintingKeeps == ASSUME IInv, ListTraces \/ PrintTraceData PROVE IInv'
<1>1. running = TRUE
  BY Zenon DEF ListTraces, PrintTraceData, IInv, Types
<1>2. db' = db
  <2>1. db' = CheckedDB
    BY Zenon DEF ListTraces, PrintTraceData
  <2> QED
    BY <1>1, <2>1, CheckedFollows DEF IInv
<1>3. UNCHANGED <<dbPath, traceName, query, tables>> /\ process_limit' \in 1..16
  BY Zenon DEF ListTraces, PrintTraceData, settings, IInv, Types
<1>4. PICK kind \in {"noDB", "noTrace", "ok", "die"} :
        running' \in BOOLEAN /\ said' = Say(kind)
  <2>1. CASE ListTraces
    BY <2>1, Zenon DEF ListTraces, Prints
  <2>2. CASE PrintTraceData
    <3>1. \/ Prints(Say("noDB")) \/ Prints(Say("noTrace"))
          \/ Prints(Say("ok")) \/ Dies("die")
      BY <2>2, Zenon DEF PrintTraceData
    <3> QED
      BY <3>1, Zenon DEF Prints, Dies
  <2> QED
    BY <2>1, <2>2
<1>5. said'.kind \notin {"answers", "Done"}
  BY <1>4 DEF Say
<1> QED
  BY <1>1, <1>2, <1>3, <1>4, <1>5, OthersKeep

LEMMA PrintSingleInstrKeeps == ASSUME IInv, NEW i, PrintSingleInstr(i) PROVE IInv'
<1>1. running = TRUE
  BY Zenon DEF PrintSingleInstr, IInv, Types
<1>2. UNCHANGED <<dbPath, traceName, db, query, tables>> /\ process_limit' \in 1..16
  BY Zenon DEF PrintSingleInstr, settings, IInv, Types
<1>3. PICK kind \in {"null", "ok", "die"} : running' \in BOOLEAN /\ said' = Say(kind)
  <2>1. Dies("null") \/ Dies("die") \/ Prints(Say("ok"))
    BY Zenon DEF PrintSingleInstr
  <2> QED
    BY <2>1, Zenon DEF Prints, Dies
<1>4. said'.kind \notin {"answers", "Done"}
  BY <1>3 DEF Say
<1> QED
  BY <1>1, <1>2, <1>3, <1>4, OthersKeep

LEMMA QueryRefusedKeeps == ASSUME IInv, NEW kind, QueryRefused(kind) PROVE IInv'
<1>1. running = TRUE
  BY Zenon DEF QueryRefused, IInv, Types
<1>2. /\ kind \in {"noQuery", "badArguments", "exception"}
      /\ running' = TRUE /\ said' = Say(kind)
      /\ UNCHANGED <<dbPath, traceName, db, query, tables>> /\ process_limit' \in 1..16
  BY Zenon DEF QueryRefused, Prints, settings, IInv, Types
<1>3. said'.kind \notin {"answers", "Done"}
  BY <1>2 DEF Say
<1> QED
  BY <1>1, <1>2, <1>3, OthersKeep

(* The answer: a connection that can be read is for the query's trace.     *)
LEMMA QueryInRangeKeeps ==
  ASSUME IInv, NEW sources, NEW sinks, QueryInRange(sources, sinks) PROVE IInv'
<1>1. running = TRUE
  BY Zenon DEF QueryInRange, IInv, Types
<1>2. /\ query # NULL /\ UNCHANGED <<dbPath, traceName, db, query, tables>>
      /\ process_limit' \in 1..16
  BY Zenon DEF QueryInRange, settings, IInv, Types
<1>3. \/ Dies("die") \/ Prints(Say("noneSelected"))
      \/ /\ Readable(TheDb, tables)
         /\ Prints([Say("answers") EXCEPT !.names = db, !.flows = query])
  BY Zenon DEF QueryInRange
<1>4. CASE Dies("die") \/ Prints(Say("noneSelected"))
  <2>1. PICK kind \in {"die", "noneSelected"} : running' \in BOOLEAN /\ said' = Say(kind)
    BY <1>4, Zenon DEF Dies, Prints
  <2>2. said'.kind \notin {"answers", "Done"}
    BY <2>1 DEF Say
  <2> QED
    BY <1>1, <1>2, <2>1, <2>2, OthersKeep
<1>5. CASE /\ Readable(TheDb, tables)
           /\ Prints([Say("answers") EXCEPT !.names = db, !.flows = query])
  <2>1. running' = TRUE /\ said' = [kind |-> "answers", names |-> db, flows |-> query]
    BY <1>5 DEF Prints, Say
  <2>2. Together /\ Types
    BY <1>1 DEF IInv
  <2>3. dbPath # None /\ db # NULL
    BY <1>2, <2>2 DEF Together, Follows
  <2>4. TheDb \in db /\ db = {TheDb}
    BY <2>2, <2>3, TheOnly DEF TheDb, Types
  <2>5. TheDb.table_name # None
    <3>1. TheDb.path \in Path
      BY <2>2, <2>4, NoneIsNew DEF Types
    <3> QED
      BY <1>5, <2>2, <3>1, NoneIsNew DEF Readable, Types, IsTables
  <2>6. \A q \in query : TheDb.path = q.path /\ TheDb.table_name = q.trace
    BY <2>2, <2>4, <2>5 DEF Together, Agree
  <2>7. OneTrace'
    BY <2>1, <2>4, <2>6 DEF OneTrace
  <2>8. Types' /\ Together'
    <3>1. Types'
      BY <1>2, <2>1, <2>2 DEF Types
    <3>2. Together'
      BY <1>2, <2>2 DEF Together, Follows, Agree
    <3> QED
      BY <3>1, <3>2
  <2> QED
    BY <2>1, <2>7, <2>8 DEF IInv, PreparedIsBuilt
<1> QED
  BY <1>3, <1>4, <1>5

(* WorkOn, for the name that is found or for the one in use.               *)
LEMMA WorkOnKeeps == ASSUME IInv, NEW n \in Name, WorkOn(n) PROVE IInv'
<1> DEFINE found == CheckedDB # NULL /\
                      (traceName = None \/ \E d \in CheckedDB : traceName \in DOMAIN tables[d.path])
           d == IF found THEN {[x EXCEPT !.table_name = n] : x \in CheckedDB} ELSE CheckedDB
           name == IF found THEN n ELSE traceName
           message == Say(IF found THEN "ok" ELSE "notFound")
           size == LET x == CHOOSE y \in d : TRUE IN tables[x.path][x.table_name]
           ends == d = NULL \/ \E x \in d : ~Readable(x, tables)
           r == InitQueryRange(d, query, name, 1, size)
<1>1. running = TRUE
  BY Zenon DEF WorkOn, IInv, Types
<1>2. CheckedDB = db /\ Types /\ Together
  BY <1>1, CheckedFollows DEF IInv
<1>3. /\ dbPath' = dbPath /\ traceName' = name /\ process_limit' = process_limit
      /\ ends => /\ Dies(IF d = NULL THEN "null" ELSE "die")
                 /\ db' = d /\ UNCHANGED <<query, tables>>
      /\ ~ends => /\ Become(r)
                  /\ IF r.how = "die" THEN Dies("die")
                     ELSE Prints(IF r.how = "ok" THEN message ELSE Say(r.how))
  BY Zenon DEF WorkOn, None, settings
<1>4. d \subseteq DBCore /\ AtMostOne(d) /\ Follows(d, name) /\ name \in Name \cup {None}
  <2>1. CASE ~found
    <3>1. d = db /\ name = traceName
      BY <1>2, <2>1
    <3> HIDE DEF d, name
    <3> QED
      BY <1>2, <3>1 DEF Types, Together
  <2>2. CASE found
    <3>1. name = n /\ d = {[x EXCEPT !.table_name = n] : x \in db} /\ db # NULL
      BY <1>2, <2>2
    <3>2. PICK c \in db : db = {c}
      BY <1>2, <3>1, TheOnly DEF Types
    <3>3. c \in [path : Path, table_name : Name \cup {None}] /\ c.path = dbPath
      BY <1>2, <3>2, NoneIsNew DEF Types, Together, Follows
    <3> DEFINE e == [c EXCEPT !.table_name = n]
    <3>4. e \in [path : Path, table_name : Name \cup {None}] /\ e.path = dbPath /\ e.table_name = n
      BY <3>3
    <3>5. d = {e}
      BY <3>1, <3>2
    <3> HIDE DEF e, d, name
    <3>6. dbPath # None
      BY <1>2, <3>1 DEF Together, Follows
    <3> QED
      BY <3>1, <3>4, <3>5, <3>6, NoneIsNew DEF AtMostOne, Follows, NULL
  <2> QED
    BY <2>1, <2>2
<1>5. query # NULL => name # None /\ dbPath # None
  BY <1>2, NoneIsNew DEF Together
<1>6. CASE ends
  <2>1. /\ running' = FALSE /\ db' = d /\ UNCHANGED <<query, tables>>
        /\ said' \in {Say("null"), Say("die")}
    BY <1>3, <1>6, Zenon DEF Dies
  <2>2. said'.kind \in {"null", "die"}
    BY <2>1 DEF Say
  <2> HIDE DEF d, name
  <2>3. Types'
    BY <1>2, <1>3, <1>4, <2>1 DEF Types
  <2> QED
    BY <2>1, <2>2, <2>3 DEF IInv, OneTrace, PreparedIsBuilt
<1>7. CASE ~ends
  <2>1. size \in Nat
    <3> DEFINE x == CHOOSE y \in d : TRUE
    <3>1. d # NULL
      BY <1>7
    <3>2. x \in d
      <4> HIDE DEF d
      <4> QED
        BY <1>4, <3>1, TheOnly
    <3>3. Readable(x, tables)
      BY <1>7, <3>2
    <3> HIDE DEF d
    <3>4. x.path \in Path /\ x.table_name \in DOMAIN tables[x.path]
      BY <1>4, <3>2, <3>3, NoneIsNew DEF Readable
    <3> QED
      BY <1>2, <3>4 DEF Types, IsTables
  <2>2. Leaves(r, name)
    <3> HIDE DEF d, name, size
    <3> QED
      BY <1>2, <1>4, <1>5, <2>1, InitLeavesTogether DEF Types
  <2>3. /\ db' = r.db /\ query' = r.query /\ tables' = r.tables
        /\ dbPath' = dbPath /\ traceName' = name /\ process_limit' = process_limit
        /\ r.how = "die" => running' = FALSE /\ said' = Say("die")
        /\ r.how # "die" =>
             running' = TRUE /\ said' = IF r.how = "ok" THEN message ELSE Say(r.how)
    BY <1>3, <1>7, Zenon DEF Become, Dies, Prints
  <2>4. said'.kind \notin {"answers", "Done"}
    <3>1. r.how \in {"noDB", "noTrace", "die", "invalidRange", "ok"}
      <4> HIDE DEF d, name, size
      <4> QED
        BY InitEnds
    <3> HIDE DEF r
    <3>2. said' \in {Say(kind) : kind \in {"noDB", "noTrace", "die", "invalidRange", "ok",
                                           "notFound"}}
      BY <2>3, <3>1
    <3> QED
      BY <3>2 DEF Say
  <2> HIDE DEF r, d, name, message
  <2>5. Types'
    <3>1. running' \in BOOLEAN
      BY <2>3
    <3> QED
      BY <1>2, <1>4, <2>2, <2>3, <3>1 DEF Types, Leaves
  <2>6. ASSUME running' = TRUE PROVE Together'
    <3>1. r.how # "die"
      BY <2>3, <2>6
    <3>2. Follows(r.db, name) /\ Agree(r.db, r.query)
      BY <2>2, <3>1 DEF Leaves
    <3>3. Follows(db, traceName)' /\ Agree(db, query)'
      BY <2>3, <3>2 DEF Follows, Agree
    <3>4. \A q \in query' : Within(q, tables')
      BY <2>2, <2>3, <3>1 DEF Leaves
    <3> QED
      BY <2>2, <2>3, <3>1, <3>3, <3>4 DEF Together, Leaves, Within
  <2> QED
    BY <2>4, <2>5, <2>6 DEF IInv, OneTrace, PreparedIsBuilt
<1> QED
  BY <1>6, <1>7

(* PrepareQuery, the global connection of which is opened after the build. *)
LEMMA PrepareQueryKeeps ==
  ASSUME IInv, NEW start \in Sizes, NEW end \in Sizes, PrepareQuery(start, end)
  PROVE  IInv'
<1> DEFINE r == InitQueryRange(db, query, traceName, start, end)
<1>1. running = TRUE
  BY Zenon DEF PrepareQuery, IInv, Types
<1>2. Types /\ Together
  BY <1>1 DEF IInv
<1>3. /\ query' = r.query /\ tables' = r.tables
      /\ UNCHANGED <<dbPath, traceName, process_limit>>
  BY Zenon DEF PrepareQuery, settings
<1>4. Leaves(r, traceName)
  <2>1. start \in Int /\ end \in Int
    <3>1. Sizes \subseteq Nat
      BY Zenon, SessionAssumption
    <3> QED
      BY <3>1
  <2> QED
    BY <1>2, <2>1, InitLeavesTogether DEF Types, Together
<1>5. \/ r.how = "die" /\ Dies("die") /\ db' = r.db
      \/ r.how # "die" /\ r.query = NULL /\ Prints(Say("noQuery")) /\ db' = r.db
      \/ /\ r.how # "die" /\ r.query # NULL
         /\ db' = {[path |-> dbPath, table_name |-> traceName]}
         /\ \/ /\ built' = IF process_limit = 1 THEN built \cup r.query ELSE built
               /\ Prints(Say("Done"))
            \/ Dies("die")
  BY Zenon DEF PrepareQuery
<1> HIDE DEF r
<1>6. CASE r.how = "die" /\ Dies("die") /\ db' = r.db
  <2>1. running' = FALSE /\ said' = Say("die")
    BY <1>6, Zenon DEF Dies
  <2>2. said'.kind = "die"
    BY <2>1 DEF Say
  <2>3. Types'
    BY <1>2, <1>3, <1>4, <1>6, <2>1 DEF Types, Leaves
  <2> QED
    BY <2>1, <2>2, <2>3 DEF IInv, OneTrace, PreparedIsBuilt
<1>7. CASE r.how # "die" /\ r.query = NULL /\ Prints(Say("noQuery")) /\ db' = r.db
  <2>1. running' = TRUE /\ said' = Say("noQuery")
    BY <1>7, Zenon DEF Prints
  <2>2. said'.kind = "noQuery"
    BY <2>1 DEF Say
  <2>3. Types'
    BY <1>2, <1>3, <1>4, <1>7, <2>1 DEF Types, Leaves
  <2>4. Follows(r.db, traceName)
    BY <1>4, <1>7 DEF Leaves
  <2>5. Together'
    BY <1>3, <1>7, <2>4 DEF Together, Follows, Agree, NULL
  <2> QED
    BY <2>2, <2>3, <2>5 DEF IInv, OneTrace, PreparedIsBuilt
<1>8. CASE /\ r.how # "die" /\ r.query # NULL
           /\ db' = {[path |-> dbPath, table_name |-> traceName]}
           /\ \/ /\ built' = IF process_limit = 1 THEN built \cup r.query ELSE built
                 /\ Prints(Say("Done"))
              \/ Dies("die")
  <2> DEFINE opened == [path |-> dbPath, table_name |-> traceName]
  <2>1. /\ Follows(r.db, traceName) /\ traceName # None /\ dbPath # None
        /\ \A x \in r.query : Within(x, r.tables) /\ x.path = dbPath /\ x.trace = traceName
    BY <1>4, <1>8 DEF Leaves
  <2>2. /\ opened \in DBCore /\ opened.path = dbPath /\ opened.table_name = traceName
        /\ db' = {opened}
    BY <1>2, <1>8, <2>1, NoneIsNew DEF Types
  <2> HIDE DEF opened
  <2>3. ASSUME running' \in BOOLEAN PROVE Types'
    BY <1>2, <1>3, <1>4, <2>2, <2>3 DEF Types, Leaves, AtMostOne
  <2>4. Together'
    <3>1. Follows(db, traceName)' /\ Agree(db, query)'
      BY <1>3, <2>1, <2>2 DEF Follows, Agree, NULL
    <3> QED
      BY <1>3, <2>1, <3>1 DEF Together, Within
  <2>5. CASE Dies("die")
    <3>1. running' = FALSE /\ said' = Say("die")
      BY <2>5, Zenon DEF Dies
    <3>2. said'.kind = "die"
      BY <3>1 DEF Say
    <3> QED
      BY <2>3, <2>4, <3>1, <3>2 DEF IInv, OneTrace, PreparedIsBuilt
  <2>6. CASE /\ built' = IF process_limit = 1 THEN built \cup r.query ELSE built
             /\ Prints(Say("Done"))
    <3>1. running' = TRUE /\ said' = Say("Done")
      BY <2>6, Zenon DEF Prints
    <3>2. said'.kind = "Done"
      BY <3>1 DEF Say
    <3>3. PreparedIsBuilt'
      BY <1>2, <1>3, <1>8, <2>6 DEF PreparedIsBuilt, Types
    <3> QED
      BY <2>3, <2>4, <3>1, <3>2, <3>3 DEF IInv, OneTrace
  <2> QED
    BY <1>8, <2>5, <2>6
<1> QED
  BY <1>5, <1>6, <1>7, <1>8

LEMMA QuitKeeps == ASSUME IInv, Quit PROVE IInv'
<1>1. running = TRUE
  BY Zenon DEF Quit, IInv, Types
<1>2. /\ running' = FALSE
      /\ UNCHANGED <<dbPath, traceName, db, query, tables, process_limit, built, said>>
  BY Zenon DEF Quit, settings
<1> QED
  BY <1>2 DEF IInv, Types, OneTrace, PreparedIsBuilt
-----------------------------------------------------------------------------
(* The theorems *)

LEMMA InitIInv == Init => IInv
<1> SUFFICES ASSUME Init PROVE IInv
  OBVIOUS
<1>1. /\ running = FALSE /\ dbPath = None /\ traceName = None
      /\ db = NULL /\ query = NULL /\ process_limit = 1 /\ tables = Loaded
      /\ said = Say("nothing")
  BY Zenon DEF Init, None
<1>2. said.kind = "nothing"
  BY <1>1 DEF Say
<1>3. IsTables(Loaded)
  <2>1. /\ DOMAIN Loaded = Path
        /\ \A f \in Path : /\ DOMAIN Loaded[f] \subseteq Name
                           /\ \A n \in DOMAIN Loaded[f] : Loaded[f][n] \in Nat \ {0}
    BY SessionAssumption, Zenon
  <2> QED
    BY <2>1 DEF IsTables
<1>4. Types
  <2>1. running \in BOOLEAN
    BY <1>1, Zenon
  <2>2. db = {} /\ query = {}
    BY <1>1 DEF NULL
  <2>3. process_limit \in 1..16
    BY <1>1
  <2> QED
    BY <1>1, <1>3, <2>1, <2>2, <2>3 DEF Types, AtMostOne
<1> QED
  BY <1>1, <1>2, <1>4 DEF IInv, OneTrace, PreparedIsBuilt

LEMMA NextIInv == IInv /\ [Next]_sessionVars => IInv'
<1> SUFFICES ASSUME IInv, [Next]_sessionVars PROVE IInv'
  OBVIOUS
<1>1. CASE UNCHANGED sessionVars
  <2>1. UNCHANGED <<running, dbPath, traceName, db, query, tables, process_limit, built,
                    said>>
    BY <1>1, Zenon DEF sessionVars, settings
  <2> QED
    BY <2>1 DEF IInv, Types, Together, Follows, Agree, OneTrace, PreparedIsBuilt
<1>2. ASSUME NEW p \in Path, SetDB(p) PROVE IInv'
  BY <1>2, SetDBKeeps
<1>3. ASSUME NEW n \in Name, WorkOn(n) PROVE IInv'
  BY <1>3, WorkOnKeeps
<1>4. ASSUME NEW k \in Levels \cup Limits, SetStorageLevel(k) \/ SetProcessLimit(k)
      PROVE  IInv'
  <2>1. Levels \subseteq Int /\ Limits \subseteq Int
    BY SessionAssumption, Zenon
  <2>2. k \in Int
    BY <2>1
  <2> QED
    BY <1>4, <2>2, SettingsKeep
<1>5. ASSUME NEW s \in Sizes, NEW e \in Sizes, PrepareQuery(s, e) PROVE IInv'
  BY <1>5, PrepareQueryKeeps
<1>6. ASSUME NEW i, PrintSingleInstr(i) PROVE IInv'
  BY <1>6, PrintSingleInstrKeeps
<1>7. ASSUME NEW k, QueryRefused(k) PROVE IInv'
  BY <1>7, QueryRefusedKeeps
<1>8. ASSUME NEW S, NEW T, QueryInRange(S, T) PROVE IInv'
  BY <1>8, QueryInRangeKeeps
<1>9. CASE Start \/ Quit \/ ListTraces \/ PrintTraceData
  BY <1>9, StartKeeps, QuitKeeps, PrintingKeeps
<1> QED
  BY <1>1, <1>2, <1>3, <1>4, <1>5, <1>6, <1>7, <1>8, <1>9 DEF Next

LEMMA Inductive == Spec => []IInv
  BY InitIInv, NextIInv, PTL DEF Spec

(* An answer takes its flows and its names from one trace of one file,     *)
(* whatever SetDB, WorkOn and PrepareQuery did to the two connections.     *)
THEOREM AnswersOfOneTrace == Spec => []OneTrace
<1>1. IInv => OneTrace
  BY DEF IInv
<1> QED
  BY <1>1, Inductive, PTL

(* The global connection is where SetDB or the command line said: the NULL *)
(* checks of _Check_DB and InitQueryRange are enough for that.             *)
THEOREM ConnectionFollowsPath == Spec => []DbFollowsPath
<1>1. IInv => DbFollowsPath
  <2> SUFFICES ASSUME IInv, running = TRUE
               PROVE  (db = NULL <=> dbPath = None) /\ \A d \in db : d.path = dbPath
    BY Zenon DEF DbFollowsPath, None, IInv, Types
  <2> QED
    BY DEF IInv, Together, Follows
<1> QED
  BY <1>1, Inductive, PTL

(* The range of every query lies within its trace: what the trees of       *)
(* FlowTree take for granted.                                              *)
THEOREM SpansStayInTrace == Spec => []SpanInTrace
<1>1. IInv => SpanInTrace
  <2> SUFFICES ASSUME IInv, running = TRUE, NEW q \in query
               PROVE  /\ 1 <= q.startPos /\ q.startPos <= q.endPos
                      /\ q.endPos <= tables[q.path][q.trace]
    BY Zenon DEF SpanInTrace, IInv, Types
  <2> QED
    BY DEF IInv, Together, Within
<1> QED
  BY <1>1, Inductive, PTL

(* "Done" means that the tree is there, if one process is allowed.         *)
THEOREM DoneMeansBuilt == Spec => []PreparedIsBuilt
<1>1. IInv => PreparedIsBuilt
  BY DEF IInv
<1> QED
  BY <1>1, Inductive, PTL
-----------------------------------------------------------------------------
(* What the invariant does not need: the result that is kept, the settings *)
(* and what has been built and said.                                       *)

Message == [kind : Kinds, names : SUBSET DBCore, flows : SUBSET FMQuery]

Rest ==
  /\ lastResult \subseteq Result /\ AtMostOne(lastResult)
  /\ storageLevel \in Int
  /\ built \subseteq FMQuery
  /\ said \in Message

LEMMA SayIs == \A kind \in Kinds : Say(kind) \in Message
  BY DEF Say, Message

LEMMA AnswerIs ==
  ASSUME NEW m \in Message, NEW d \in SUBSET DBCore, NEW q \in SUBSET FMQuery
  PROVE  [m EXCEPT !.names = d, !.flows = q] \in Message
  BY DEF Message

LEMMA NullIsNone == NULL \subseteq Result /\ AtMostOne(NULL) /\ NULL \subseteq FMQuery
  BY DEF NULL, AtMostOne

LEMMA RestKept ==
  ASSUME IInv, IInv', Rest, Next
  PROVE  Rest'
<1>1. CASE Start
  <2>1. lastResult' = NULL /\ storageLevel' = 1 /\ built' = built /\ said' = Say("nothing")
    BY <1>1, Zenon DEF Start
  <2>2. "nothing" \in Kinds
    BY DEF Kinds
  <2> QED
    BY <2>1, <2>2, SayIs, NullIsNone DEF Rest
<1>2. CASE Quit
  <2>1. UNCHANGED <<lastResult, storageLevel, built, said>>
    BY <1>2, Zenon DEF Quit, settings
  <2> QED
    BY <2>1 DEF Rest
<1>3. ASSUME NEW p \in Path, SetDB(p) PROVE Rest'
  <2>1. UNCHANGED <<lastResult, storageLevel, built>> /\ said' = Say("ok")
    BY <1>3, Zenon DEF SetDB, settings, Prints
  <2>2. "ok" \in Kinds
    BY DEF Kinds
  <2> QED
    BY <2>1, <2>2, SayIs DEF Rest
<1>4. ASSUME NEW k \in Levels \cup Limits,
             (k \in Levels /\ SetStorageLevel(k)) \/ SetProcessLimit(k)
      PROVE  Rest'
  <2>1. /\ UNCHANGED <<lastResult, built>> /\ said' = Say("ok")
        /\ storageLevel' = storageLevel \/ (k \in Levels /\ storageLevel' = k)
    BY <1>4, Zenon DEF SetStorageLevel, SetProcessLimit, settings, Prints
  <2>2. "ok" \in Kinds
    BY DEF Kinds
  <2>3. Levels \subseteq Int
    BY SessionAssumption, Zenon
  <2> QED
    BY <2>1, <2>2, <2>3, SayIs DEF Rest
<1>5. CASE ListTraces \/ PrintTraceData
  <2>1. UNCHANGED <<lastResult, storageLevel, built>>
    BY <1>5, Zenon DEF ListTraces, PrintTraceData, settings
  <2>2. PICK kind \in {"noDB", "noTrace", "ok", "die"} : said' = Say(kind)
    <3>1. CASE ListTraces
      BY <3>1, Zenon DEF ListTraces, Prints
    <3>2. CASE PrintTraceData
      <4>1. \/ Prints(Say("noDB")) \/ Prints(Say("noTrace"))
            \/ Prints(Say("ok")) \/ Dies("die")
        BY <3>2, Zenon DEF PrintTraceData
      <4> QED
        BY <4>1, Zenon DEF Prints, Dies
    <3> QED
      BY <1>5, <3>1, <3>2
  <2>3. kind \in Kinds
    BY DEF Kinds
  <2> QED
    BY <2>1, <2>2, <2>3, SayIs DEF Rest
<1>6. ASSUME NEW n \in Name, WorkOn(n) PROVE Rest'
  <2>1. UNCHANGED <<lastResult, storageLevel, built>>
    BY <1>6, Zenon DEF WorkOn, settings
  <2>2. \E kind \in {"null", "die", "ok", "notFound", "noDB", "noTrace", "invalidRange"} :
          said' = Say(kind)
    <3> DEFINE found == CheckedDB # NULL /\
                          (traceName = None \/ \E d \in CheckedDB : traceName \in DOMAIN tables[d.path])
               d == IF found THEN {[x EXCEPT !.table_name = n] : x \in CheckedDB} ELSE CheckedDB
               name == IF found THEN n ELSE traceName
               message == Say(IF found THEN "ok" ELSE "notFound")
               size == LET x == CHOOSE y \in d : TRUE IN tables[x.path][x.table_name]
               ends == d = NULL \/ \E x \in d : ~Readable(x, tables)
               r == InitQueryRange(d, query, name, 1, size)
    <3>1. /\ ends => Dies(IF d = NULL THEN "null" ELSE "die")
          /\ ~ends => IF r.how = "die" THEN Dies("die")
                      ELSE Prints(IF r.how = "ok" THEN message ELSE Say(r.how))
      BY <1>6, Zenon DEF WorkOn, None
    <3>2. r.how \in {"noDB", "noTrace", "die", "invalidRange", "ok"}
      BY InitEnds
    <3>3. \/ Dies("null") \/ Dies("die") \/ Prints(Say("ok")) \/ Prints(Say("notFound"))
          \/ Prints(Say(r.how))
      <4> HIDE DEF r, d, found, ends
      <4> QED
        BY <3>1, Zenon
    <3> HIDE DEF r
    <3>4. \/ said' = Say("null") \/ said' = Say("die") \/ said' = Say("ok")
          \/ said' = Say("notFound") \/ said' = Say(r.how)
      BY <3>3, Zenon DEF Dies, Prints
    <3> QED
      BY <3>2, <3>4
  <2>3. PICK kind \in {"null", "die", "ok", "notFound", "noDB", "noTrace", "invalidRange"} :
          said' = Say(kind)
    BY <2>2
  <2>4. kind \in Kinds
    BY DEF Kinds
  <2> QED
    BY <2>1, <2>3, <2>4, SayIs DEF Rest
<1>7. ASSUME NEW s \in Sizes, NEW e \in Sizes, PrepareQuery(s, e) PROVE Rest'
  <2>1. /\ UNCHANGED <<lastResult, storageLevel>>
        /\ built' = built \/ built' = built \cup query'
        /\ said' = Say("die") \/ said' = Say("noQuery") \/ said' = Say("Done")
    <3> DEFINE r == InitQueryRange(db, query, traceName, s, e)
    <3>1. /\ query' = r.query /\ UNCHANGED <<lastResult, storageLevel>>
          /\ built' = built \/ built' = built \cup r.query
          /\ Dies("die") \/ Prints(Say("noQuery")) \/ Prints(Say("Done"))
      BY <1>7, Zenon DEF PrepareQuery, settings
    <3> QED
      BY <3>1, Zenon DEF Dies, Prints
  <2>2. query' \subseteq FMQuery
    BY DEF IInv, Types
  <2>3. {"die", "noQuery", "Done"} \subseteq Kinds
    BY DEF Kinds
  <2> QED
    BY <2>1, <2>2, <2>3, SayIs DEF Rest
<1>8. ASSUME NEW i, PrintSingleInstr(i) PROVE Rest'
  <2>1. UNCHANGED <<lastResult, storageLevel, built>>
    BY <1>8, Zenon DEF PrintSingleInstr, settings
  <2>2. Dies("null") \/ Dies("die") \/ Prints(Say("ok"))
    BY <1>8, Zenon DEF PrintSingleInstr
  <2>3. said' = Say("null") \/ said' = Say("die") \/ said' = Say("ok")
    BY <2>2, Zenon DEF Dies, Prints
  <2>4. {"null", "die", "ok"} \subseteq Kinds
    BY DEF Kinds
  <2> QED
    BY <2>1, <2>3, <2>4, SayIs DEF Rest
<1>9. ASSUME NEW k \in Kinds, QueryRefused(k) PROVE Rest'
  <2>1. /\ lastResult' = lastResult \/ lastResult' = NULL
        /\ UNCHANGED <<storageLevel, built>> /\ said' = Say(k)
    BY <1>9, Zenon DEF QueryRefused, Prints, settings
  <2> QED
    BY <1>9, <2>1, SayIs, NullIsNone DEF Rest
<1>10. ASSUME NEW S \in SUBSET Indices, NEW T \in SUBSET Indices, QueryInRange(S, T)
       PROVE  Rest'
  <2> DEFINE asked == {RangeOf(w) : w \in Asked(S, T)}
             one == \E i \in S, j \in T : S = {i} /\ T = {j}
             results == {[path |-> TheQuery.path, trace |-> TheQuery.trace,
                          left |-> r[1], right |-> r[2]] : r \in asked}
  <2>1. /\ query # NULL /\ UNCHANGED <<storageLevel, built>>
        /\ lastResult' = NULL \/ (one /\ lastResult' = results)
        /\ \/ Dies("die") \/ Prints(Say("noneSelected"))
           \/ Prints([Say("answers") EXCEPT !.names = db, !.flows = query])
    <3>1. query # NULL /\ UNCHANGED <<storageLevel, built>>
      BY <1>10, Zenon DEF QueryInRange, settings
    <3>2. lastResult' = NULL \/ lastResult' = IF one THEN results ELSE NULL
      <4>1. CASE ~Readable(TheDb, tables)
        BY <1>10, <4>1, Zenon DEF QueryInRange
      <4>2. CASE S = {} \/ T = {}
        BY <1>10, <4>2, Zenon DEF QueryInRange
      <4>3. CASE Readable(TheDb, tables) /\ S # {} /\ T # {}
        BY <1>10, <4>3, Zenon DEF QueryInRange
      <4> QED
        BY <4>1, <4>2, <4>3
    <3>3. \/ Dies("die") \/ Prints(Say("noneSelected"))
          \/ Prints([Say("answers") EXCEPT !.names = db, !.flows = query])
      BY <1>10, Zenon DEF QueryInRange
    <3> HIDE DEF one, results
    <3> QED
      BY <3>1, <3>2, <3>3
  <2>2. said' \in Message
    <3>1. \/ said' = Say("die") \/ said' = Say("noneSelected")
          \/ said' = [Say("answers") EXCEPT !.names = db, !.flows = query]
      BY <2>1, Zenon DEF Dies, Prints
    <3>2. {"die", "noneSelected", "answers"} \subseteq Kinds
      BY DEF Kinds
    <3>3. db \subseteq DBCore /\ query \subseteq FMQuery
      BY DEF IInv, Types
    <3>4. [Say("answers") EXCEPT !.names = db, !.flows = query] \in Message
      BY <3>2, <3>3, SayIs, AnswerIs
    <3> QED
      BY <3>1, <3>2, <3>4, SayIs
  <2>3. ASSUME one
        PROVE  results \subseteq Result /\ AtMostOne(results)
    <3>1. PICK i \in S, j \in T : S = {i} /\ T = {j}
      BY <2>3
    <3>2. i \in Nat /\ j \in Nat
      BY DEF Indices
    <3>3. TheQuery \in FMQuery
      <4>1. TheQuery \in query
        BY <2>1 DEF TheQuery, NULL
      <4> QED
        BY <4>1 DEF IInv, Types
    <3>4. TheQuery.path \in Path /\ TheQuery.trace \in Name
      BY <3>3 DEF FMQuery
    <3>5. \A w \in Asked(S, T) : w = <<i, j>>
      BY <3>1 DEF Asked
    <3>6. ASSUME NEW r \in asked PROVE r[1] = i + 1 /\ r[2] = j
      <4>1. PICK w \in Asked(S, T) : r = RangeOf(w)
        OBVIOUS
      <4>2. w = <<i, j>>
        BY <3>5
      <4>3. r = <<w[1] + 1, w[2]>>
        BY <4>1 DEF RangeOf
      <4> QED
        BY <4>2, <4>3
    <3> DEFINE result == [path |-> TheQuery.path, trace |-> TheQuery.trace,
                          left |-> i + 1, right |-> j]
    <3>7. result \in Result
      BY <3>2, <3>4 DEF Result
    <3>8. \A x \in results : x = result
      BY <3>6
    <3> QED
      BY <3>7, <3>8 DEF AtMostOne
  <2> QED
    BY <2>1, <2>2, <2>3, NullIsNone DEF Rest
<1> QED
  BY <1>1, <1>2, <1>3, <1>4, <1>5, <1>6, <1>7, <1>8, <1>9, <1>10 DEF Next

LEMMA RestInductive == Spec => []Rest
<1>1. Init => Rest
  <2> SUFFICES ASSUME Init PROVE Rest
    OBVIOUS
  <2>1. lastResult = NULL /\ storageLevel = 1 /\ built = {} /\ said = Say("nothing")
    BY Zenon DEF Init
  <2>2. "nothing" \in Kinds
    BY DEF Kinds
  <2> QED
    BY <2>1, <2>2, SayIs, NullIsNone DEF Rest
<1>2. IInv /\ IInv' /\ Rest /\ [Next]_sessionVars => Rest'
  <2> SUFFICES ASSUME IInv, IInv', Rest, [Next]_sessionVars PROVE Rest'
    OBVIOUS
  <2>1. CASE UNCHANGED sessionVars
    <3>1. UNCHANGED <<lastResult, storageLevel, built, said>>
      BY <2>1, Zenon DEF sessionVars, settings
    <3> QED
      BY <3>1 DEF Rest
  <2> QED
    BY <2>1, RestKept
<1> QED
  BY <1>1, <1>2, Inductive, PTL DEF Spec

LEMMA AtMostOneCounts == ASSUME NEW S, AtMostOne(S) PROVE Cardinality(S) <= 1
<1>1. CASE S = {}
  BY <1>1, FS_EmptySet
<1>2. CASE S # {}
  <2>1. PICK x \in S : S = {x}
    BY <1>2 DEF AtMostOne
  <2> QED
    <3>1. Cardinality({x}) = 1
      BY FS_Singleton
    <3> QED
      BY <2>1, <3>1
<1> QED
  BY <1>1, <1>2

(* Whatever commands are given, each global pointer of the session points  *)
(* to one object or is NULL, and what the user is told is one of the       *)
(* messages of the commands, the two ways to die included.                 *)
THEOREM SessionTypeOK == Spec => []TypeOK
<1>1. IInv /\ Rest => TypeOK
  <2> SUFFICES ASSUME IInv, Rest PROVE TypeOK
    OBVIOUS
  <2>1. Cardinality(db) <= 1 /\ Cardinality(query) <= 1 /\ Cardinality(lastResult) <= 1
    BY AtMostOneCounts DEF IInv, Types, Rest
  <2>2. \A f \in Path : DOMAIN tables[f] \subseteq Name
    BY DEF IInv, Types, IsTables
  <2>3. /\ running \in BOOLEAN /\ dbPath \in Path \cup {None} /\ traceName \in Name \cup {None}
        /\ db \in SUBSET DBCore /\ query \in SUBSET FMQuery /\ process_limit \in 1..16
    BY DEF IInv, Types
  <2>4. /\ lastResult \in SUBSET Result /\ storageLevel \in Int /\ built \subseteq FMQuery
        /\ said \in [kind : Kinds, names : SUBSET DBCore, flows : SUBSET FMQuery]
    BY DEF Rest, Message
  <2> QED
    BY <2>1, <2>2, <2>3, <2>4, Zenon DEF TypeOK, None
<1> QED
  BY <1>1, Inductive, RestInductive, PTL
=============================================================================
