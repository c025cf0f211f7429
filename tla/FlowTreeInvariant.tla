------------------------- MODULE FlowTreeInvariant --------------------------
(* What holds between any two steps of the processes that share a trace.   *)
EXTENDS FlowTree

(***************************************************************************)
(* The inductive invariant.  Share(t, l, r) is the part of l..r that lies  *)
(* in the target t; a frame has accounted for the shares of the children   *)
(* that returned to it, and a frame that is done for its own.              *)
(***************************************************************************)
Share(t, l, r) == Flow(IF l < t[1] THEN t[1] ELSE l, IF t[2] < r THEN t[2] ELSE r)

(* Where a frame lies, and what it has accounted for where it is.          *)
FrameOK(f, t, n) ==
  /\ f.left <= f.right /\ f.right <= n
  /\ f.left <= t[2] /\ t[1] <= f.right
  /\ f.op = "build" => t[1] <= f.left /\ f.right <= t[2]
  /\ f.pc \notin {"load", "done"} => f.left < f.right
  /\ f.pc \in {"storeLeft", "storeRight"} => f.op = "build"
  /\ f.pc \in {"load", "callLeft", "left"} => f.lres = NoMatrix
  /\ f.pc \in {"load", "callLeft", "left", "callRight", "right"} => f.rres = NoMatrix
  /\ f.pc \in {"callRight", "right", "join", "storeLeft", "storeRight"} =>
       Meaning(f.lres) = Share(t, f.left, Mid(f.left, f.right) - 1)
  /\ f.pc \in {"join", "storeLeft", "storeRight"} =>
       Meaning(f.rres) = Share(t, Mid(f.left, f.right), f.right)
  /\ f.pc \in {"storeLeft", "storeRight", "done"} =>
       Meaning(f.res) = Share(t, f.left, f.right)
  /\ f.pc = "load" => f.res = NoMatrix

(* g is the call that f waits for. *)
Waits(f, g) ==
  \/ f.pc = "left" /\ g.left = f.left /\ g.right = Mid(f.left, f.right) - 1
  \/ f.pc = "right" /\ g.left = Mid(f.left, f.right) /\ g.right = f.right

(* Every frame but the last waits for the next; the first is the whole tree. *)
StackOK(s, w, t, n) ==
  /\ \A k \in 1..Len(s) : FrameOK(s[k], t, n)
  /\ \A k \in 1..(Len(s) - 1) : Waits(s[k], s[k + 1])
  /\ s[Len(s)].pc \notin {"left", "right"}
  /\ s[1].left = w[1] /\ s[1].right = w[2]

(* A row in the table or in a buffer. *)
RowOK(r, n) ==
  r.left <= r.right /\ r.right <= n /\ Meaning(r) = Flow(r.left, r.right)

TableOK ==
  /\ \A r \in db : RowOK(r, loaded)
  /\ \A i \in (1..loaded) \cap DOMAIN Rules : \E r \in db : r.left = i /\ r.right = i

ProcOK(p) ==
  /\ mode[p] \in {"idle", "closing"} <=> stack[p] = <<>>
  /\ mode[p] # "idle" => /\ span[p][1] <= target[p][1] /\ target[p][1] <= target[p][2]
                         /\ target[p][2] <= span[p][2] /\ span[p][2] <= loaded
  /\ mode[p] = "build" => target[p] = span[p]
  /\ stack[p] # <<>> => StackOK(stack[p], span[p], target[p], loaded)
  /\ \A i \in 1..Len(buffer[p]) : RowOK(buffer[p][i], loaded)
  /\ outcome[p] = "answered" =>
       mode[p] = "idle" /\ Meaning(reply[p]) = Flow(target[p][1], target[p][2])

(* IInv: what RecursiveBuildSubTree and RecursiveQuerySubTree keep true     *)
(* between any two steps of any processes: a frame holds the flow of the   *)
(* part of its range it has been through, and all rows, stored or waiting  *)
(* in a transaction buffer, are flows of their ranges.                     *)
IInv == TypeOK /\ TableOK /\ \A p \in Proc : ProcOK(p)

-----------------------------------------------------------------------------
(***************************************************************************)
(* What is in the table, and what a build still has to put there.          *)
(***************************************************************************)

(* The valid indices of a range: those of its rules.                       *)
Valid(l, r) == UNION {Rules[i].v : i \in (l..r) \cap DOMAIN Rules}

ShareValid(t, l, r) == Valid(IF l < t[1] THEN t[1] ELSE l, IF t[2] < r THEN t[2] ELSE r)

RowValid(r) == r.v = Valid(r.left, r.right)

FrameValid(f, t) ==
  /\ f.pc \in {"callRight", "right", "join", "storeLeft", "storeRight"} =>
       f.lres.v = ShareValid(t, f.left, Mid(f.left, f.right) - 1)
  /\ f.pc \in {"join", "storeLeft", "storeRight"} =>
       f.rres.v = ShareValid(t, Mid(f.left, f.right), f.right)
  /\ f.pc \in {"storeLeft", "storeRight", "done"} => f.res.v = ShareValid(t, f.left, f.right)

(* The keys that are in the table, or will be when p commits.              *)
Keys(rows) == {Key(r) : r \in rows}
Held(p) == Keys(db) \cup {Key(buffer[p][i]) : i \in 1..Len(buffer[p])}

LeftKey(l, r) == <<l, Mid(l, r) - 1>>
RightKey(l, r) == <<Mid(l, r), r>>

(* What CacheClosed wants in the table under a node.                       *)
Wanted(l, r) ==
  IF l < r /\ Branching(l, r) /\ StoresChildren(l, r, CoarsestLayer)
  THEN {k \in {LeftKey(l, r), RightKey(l, r)} : Branching(k[1], k[2])}
  ELSE {}

(* A is the result of the node l..r: it was found under that key, or what  *)
(* is wanted under it is held.                                             *)
ResultOK(A, l, r, table, held) ==
  /\ A.null \/ A.fromDB \/ l < r
  /\ Branching(l, r) => IF A.fromDB THEN <<l, r>> \in table ELSE Wanted(l, r) \subseteq held

(* A build has the results of its children, and then holds them.           *)
FrameHolds(f, table, held) ==
  LET m == Mid(f.left, f.right)
  IN  /\ f.op = "build"
      /\ f.pc \in {"callRight", "right", "join", "storeLeft"} =>
           ResultOK(f.lres, f.left, m - 1, table, held)
      /\ f.pc \in {"join", "storeLeft", "storeRight"} =>
           ResultOK(f.rres, m, f.right, table, held)
      /\ f.pc = "done" => ResultOK(f.res, f.left, f.right, table, held)
      /\ f.pc \in {"storeLeft", "storeRight"} =>
           ~f.res.fromDB /\ ~f.lres.null /\ ~f.rres.null
      /\ f.pc = "storeRight" => Wanted(f.left, f.right) \ {RightKey(f.left, f.right)} \subseteq held

(* The row r, which waits to be stored, is not what f is going to store.   *)
NotDue(f, r) ==
  LET m == Mid(f.left, f.right)
  IN  /\ r.right <= f.right /\ Key(r) # <<f.left, f.right>>
      /\ f.pc \in {"load", "callLeft"} => r.right < f.left
      /\ f.pc \in {"left", "callRight"} => r.right < m
      /\ f.pc \in {"left", "callRight", "right", "join", "storeLeft"} =>
           Key(r) # LeftKey(f.left, f.right)
      /\ f.pc \in {"left", "callRight", "right", "join", "storeLeft", "storeRight"} =>
           Key(r) # RightKey(f.left, f.right)

(* The calls above f are for parts of the child it waits for.              *)
Under(f, g) ==
  LET m == Mid(f.left, f.right)
  IN  \/ f.pc = "left" /\ f.left <= g.left /\ g.right < m
      \/ f.pc = "right" /\ m <= g.left /\ g.right <= f.right

Nested(s) == \A i, j \in 1..Len(s) : i < j => Under(s[i], s[j])

RowHeld(r, held) == r.left < r.right /\ Wanted(r.left, r.right) \subseteq held

RootHeld(w, layer, held) ==
  StoresRoot(w[1], w[2], layer) /\ Branching(w[1], w[2]) => w \in held

Waiting(p) == {buffer[p][i] : i \in 1..Len(buffer[p])}

(* A frame of a call with target t, in a process that is inside of call,   *)
(* sees table, and has rows waiting.                                       *)
FrameGood(f, t, call, table, held, rows) ==
  /\ FrameValid(f, t)
  /\ call = "build" => FrameHolds(f, table, held) /\ \A r \in rows : NotDue(f, r)

ProcHolds(p) ==
  /\ \A r \in Waiting(p) : RowValid(r) /\ RowHeld(r, Held(p))
  /\ \A i, j \in 1..Len(buffer[p]) : i # j => Key(buffer[p][i]) # Key(buffer[p][j])
  /\ Nested(stack[p])
  /\ \A k \in 1..Len(stack[p]) :
       FrameGood(stack[p][k], target[p], mode[p], Keys(db), Held(p), Waiting(p))
  /\ mode[p] \in {"build", "closing"} => level[p] \in {NotStoredLayer(l) : l \in Levels}
  /\ mode[p] = "closing" => RootHeld(span[p], level[p], Held(p))
  /\ outcome[p] = "built" => mode[p] = "idle" /\ RootHeld(span[p], level[p], Keys(db))
  /\ outcome[p] = "answered" => reply[p].v = Valid(target[p][1], target[p][2])

TableHolds ==
  \A r \in db : RowValid(r) /\ Wanted(r.left, r.right) \subseteq Keys(db)

(* CInv: the table is closed downwards because a build keeps account, from *)
(* frame to frame, of what is in the table and what waits in its buffer,   *)
(* and never has a node wait there that it will come to again.             *)
CInv == TableHolds /\ \A p \in Proc : ProcHolds(p)
=============================================================================
