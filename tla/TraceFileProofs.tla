-------------------------- MODULE TraceFileProofs --------------------------
(***************************************************************************)
(* Whatever the size of the buffers and however many frames are written:   *)
(* the halves of the frames lie in the file, in stdio and in the buffer of *)
(* a handle one after the other, each in the place that its number gives   *)
(* it; the reader takes them from there in order.                          *)
(***************************************************************************)
EXTENDS TraceFile, TLAPS

(* The j-th half of a file.                                                *)
Half(j) == <<(j + 1) \div 2, j % 2>>

(* Halves that have their places behind the first c halves of a file, and  *)
(* frames whose numbers follow c.                                          *)
Placed(s, c) == \A j \in 1..Len(s) : s[j] = Half(c + j)
Counts(s, c) == \A i \in 1..Len(s) : s[i] = c + i

Waits(list, k) == \E i \in 1..Len(list) : list[i] = k

Types ==
  /\ exists \subseteq Kind /\ ended \subseteq Kind
  /\ tracer \in {"none", "create", "write", "close", "done"}
  /\ loader \in {"none", "read", "close"}
  /\ todo \in [Process -> Seq(Kind)] /\ live \in [Process -> SUBSET Kind]
  /\ freed \in [Process -> [Kind -> Nat]]
  /\ sent \in [Kind -> Nat] /\ \A k \in Kind : sent[k] <= MaxFrames[k]
  /\ disk \in [Kind -> Seq(Nat \X {0, 1})] /\ stdio \in [Kind -> Seq(Nat \X {0, 1})]
  /\ buffer \in [Kind -> Seq(Nat)] /\ frames \in [Kind -> Seq(Nat)]
  /\ got \in [Kind -> Seq(Nat)]
  /\ pos \in [Kind -> Nat] /\ eof \in [Kind -> BOOLEAN]
  /\ \A k \in Kind : /\ Len(buffer[k]) < BUFFER_SIZE /\ Len(frames[k]) <= BUFFER_SIZE
                     /\ pos[k] <= 2 * MaxFrames[k]

(* The handles of a process: what is open has still to be closed, what is  *)
(* not open has been deleted once.                                         *)
Handles ==
  /\ tracer \in {"none", "done"} => live["tracer"] = {}
  /\ tracer = "create" => /\ todo["tracer"] # <<>>
                          /\ \A k \in Kind : k \in live["tracer"] \/ Waits(todo["tracer"], k)
                          /\ \A k \in Kind : stdio[k] = <<>> /\ buffer[k] = <<>>
  /\ tracer = "write" => live["tracer"] = Kind
  /\ tracer = "close" => \A k \in live["tracer"] : Waits(todo["tracer"], k)
  /\ loader = "none" => live["loader"] = {}
  /\ loader = "read" => live["loader"] = Kind
  /\ loader = "close" => \A k \in live["loader"] : Waits(todo["loader"], k)
  /\ \A p \in Process, k \in Kind : freed[p][k] <= IF k \in live[p] THEN 0 ELSE 1
  /\ tracer \in {"close", "done"} =>
       \A k \in Kind : k \notin live["tracer"] => freed["tracer"][k] = 1

(* The number of halves that file k and stdio have.                        *)
Passed(k) == Len(disk[k]) + Len(stdio[k])

(* What file k has is in its place, with what waits for it behind.         *)
Numbered(k) ==
  /\ Placed(disk[k], 0) /\ Placed(stdio[k], Len(disk[k]))
  /\ Counts(buffer[k], sent[k] - Len(buffer[k]))
  /\ Len(disk[k]) <= 2 * sent[k]
  /\ k \in live["tracer"] => Passed(k) = 2 * (sent[k] - Len(buffer[k]))
  /\ k \notin live["tracer"] => stdio[k] = <<>> /\ buffer[k] = <<>>
  /\ tracer \in {"close", "done"} /\ k \notin live["tracer"] => Len(disk[k]) = 2 * sent[k]

(* What the reader has of file k.                                          *)
Taken(k) == Len(got[k]) + Len(frames[k])

Follows(k) ==
  /\ Counts(got[k], 0) /\ Counts(frames[k], Len(got[k]))
  /\ pos[k] <= Len(disk[k])
  /\ 2 * Taken(k) <= pos[k] /\ pos[k] <= 2 * Taken(k) + (IF eof[k] THEN 1 ELSE 0)
  /\ k \in ended => frames[k] = <<>>

IInv ==
  /\ Types /\ Handles
  /\ \A k \in Kind : Numbered(k)
  /\ loader # "none" => tracer # "create" /\ \A k \in Kind : Follows(k)
-----------------------------------------------------------------------------
(* Sequences of halves and of frames *)

Cell == Nat \X {0, 1}

LEMMA HalfIs ==
  /\ \A j \in Nat : Half(j) \in Cell
  /\ \A m \in Nat : \A j \in 1..(2 * m) : Half(j) \in (1..m) \X {0, 1}
  BY DEF Half, Cell

LEMMA HalvesPlaced ==
  ASSUME NEW s \in Seq(Nat), NEW c \in Nat, Counts(s, c)
  PROVE  /\ Halves(s) \in Seq(Cell) /\ Len(Halves(s)) = 2 * Len(s)
         /\ Placed(Halves(s), 2 * c)
<1>1. Len(s) \in Nat /\ \A i \in 1..Len(s) : s[i] \in Nat
  OBVIOUS
<1>2. ASSUME NEW j \in 1..(2 * Len(s))
      PROVE  /\ (j + 1) \div 2 \in 1..Len(s) /\ j % 2 \in {0, 1}
             /\ (2 * c + j + 1) \div 2 = c + ((j + 1) \div 2)
             /\ (2 * c + j) % 2 = j % 2
  BY <1>1
<1>3. Len(Halves(s)) = 2 * Len(s) /\ \A j \in 1..(2 * Len(s)) : Halves(s)[j] = <<s[(j + 1) \div 2], j % 2>>
  BY <1>1 DEF Halves
<1>4. ASSUME NEW j \in 1..(2 * Len(s))
      PROVE  Halves(s)[j] = Half(2 * c + j) /\ Halves(s)[j] \in Cell
  <2>1. s[(j + 1) \div 2] = c + ((j + 1) \div 2)
    BY <1>2 DEF Counts
  <2>2. Halves(s)[j] = Half(2 * c + j)
    BY <1>2, <1>3, <2>1 DEF Half
  <2> DEFINE h == (j + 1) \div 2
             e == j % 2
  <2>3. s[h] \in Nat /\ e \in {0, 1} /\ Halves(s)[j] = <<s[h], e>>
    BY <1>1, <1>2, <1>3
  <2> HIDE DEF h, e
  <2>4. Halves(s)[j] \in Cell
    BY <2>3 DEF Cell
  <2> QED
    BY <2>2, <2>4
<1>5. Halves(s) \in Seq(Cell)
  BY <1>1, <1>4 DEF Halves
<1> QED
  BY <1>3, <1>4, <1>5 DEF Placed

LEMMA PlacedConcat ==
  ASSUME NEW s \in Seq(Cell), NEW t \in Seq(Cell), NEW c \in Nat,
         Placed(s, c), Placed(t, c + Len(s))
  PROVE  /\ s \o t \in Seq(Cell) /\ Len(s \o t) = Len(s) + Len(t)
         /\ Placed(s \o t, c)
<1>1. Len(s) \in Nat /\ Len(t) \in Nat /\ s \o t \in Seq(Cell) /\ Len(s \o t) = Len(s) + Len(t)
  OBVIOUS
<1>2. ASSUME NEW j \in 1..(Len(s) + Len(t)) PROVE (s \o t)[j] = Half(c + j)
  <2>1. CASE j <= Len(s)
    BY <1>1, <2>1 DEF Placed
  <2>2. CASE j > Len(s)
    <3>1. j - Len(s) \in 1..Len(t) /\ (s \o t)[j] = t[j - Len(s)]
      BY <1>1, <2>2
    <3>2. c + Len(s) + (j - Len(s)) = c + j
      BY <1>1
    <3>3. t[j - Len(s)] = Half(c + Len(s) + (j - Len(s)))
      BY <3>1 DEF Placed
    <3> QED
      BY <3>1, <3>2, <3>3
  <2> QED
    BY <1>1, <2>1, <2>2
<1> QED
  BY <1>1, <1>2 DEF Placed

LEMMA PlacedCut ==
  ASSUME NEW s \in Seq(Cell), NEW c \in Nat, Placed(s, c), NEW n \in 1..Len(s)
  PROVE  /\ SubSeq(s, 1, n) \in Seq(Cell) /\ Len(SubSeq(s, 1, n)) = n
         /\ Placed(SubSeq(s, 1, n), c)
         /\ SubSeq(s, n + 1, Len(s)) \in Seq(Cell)
         /\ Len(SubSeq(s, n + 1, Len(s))) = Len(s) - n
         /\ Placed(SubSeq(s, n + 1, Len(s)), c + n)
<1> DEFINE front == SubSeq(s, 1, n)
           back == SubSeq(s, n + 1, Len(s))
<1>1. /\ Len(s) \in Nat /\ n \in Nat
      /\ front \in Seq(Cell) /\ Len(front) = n /\ \A j \in 1..n : front[j] = s[j]
      /\ back \in Seq(Cell) /\ Len(back) = Len(s) - n
      /\ \A j \in 1..(Len(s) - n) : back[j] = s[n + j]
  OBVIOUS
<1> HIDE DEF front, back
<1>2. Placed(front, c)
  <2>1. \A j \in 1..n : j \in 1..Len(s)
    BY <1>1
  <2>2. \A j \in 1..n : front[j] = Half(c + j)
    BY <1>1, <2>1 DEF Placed
  <2> QED
    BY <1>1, <2>2 DEF Placed
<1>3. ASSUME NEW j \in 1..(Len(s) - n) PROVE back[j] = Half(c + n + j)
  <2>1. n + j \in 1..Len(s) /\ c + (n + j) = c + n + j
    BY <1>1
  <2>2. s[n + j] = Half(c + (n + j))
    BY <2>1 DEF Placed
  <2> QED
    BY <1>1, <2>1, <2>2
<1> QED
  BY <1>1, <1>2, <1>3 DEF Placed, front, back

LEMMA CountsAppend ==
  ASSUME NEW s \in Seq(Nat), NEW c \in Nat, Counts(s, c), NEW x \in Nat, x = c + Len(s) + 1
  PROVE  Append(s, x) \in Seq(Nat) /\ Len(Append(s, x)) = Len(s) + 1 /\ Counts(Append(s, x), c)
  BY DEF Counts

LEMMA CountsTail ==
  ASSUME NEW s \in Seq(Nat), NEW c \in Nat, Counts(s, c), s # <<>>
  PROVE  /\ Head(s) = c + 1 /\ Tail(s) \in Seq(Nat) /\ Len(Tail(s)) = Len(s) - 1
         /\ Counts(Tail(s), c + 1)
<1>1. /\ Len(s) \in Nat \ {0} /\ Head(s) = s[1] /\ Tail(s) \in Seq(Nat)
      /\ Len(Tail(s)) = Len(s) - 1 /\ \A i \in 1..(Len(s) - 1) : Tail(s)[i] = s[i + 1]
  OBVIOUS
<1>2. \A i \in 1..(Len(s) - 1) : i + 1 \in 1..Len(s) /\ c + (i + 1) = c + 1 + i
  BY <1>1
<1> QED
  BY <1>1, <1>2 DEF Counts

LEMMA EmptyIs == \A c : Placed(<<>>, c) /\ Counts(<<>>, c)
  BY DEF Placed, Counts

(* Two halves in their places, read from an even position, are a frame.    *)
LEMMA FramesRead ==
  ASSUME NEW d \in Seq(Cell), Placed(d, 0), NEW g \in Nat, NEW n \in Nat,
         2 * g + 2 * n <= Len(d)
  PROVE  LET r == [i \in 1..n |-> Frame(d[2 * g + 2 * i - 1], d[2 * g + 2 * i])]
         IN  r \in Seq(Nat) /\ Len(r) = n /\ Counts(r, g)
<1> DEFINE r == [i \in 1..n |-> Frame(d[2 * g + 2 * i - 1], d[2 * g + 2 * i])]
<1>1. Len(d) \in Nat
  OBVIOUS
<1>2. ASSUME NEW i \in 1..n PROVE r[i] = g + i
  <2>1. /\ 2 * g + 2 * i - 1 \in 1..Len(d) /\ 2 * g + 2 * i \in 1..Len(d)
        /\ (2 * g + 2 * i - 1 + 1) \div 2 = g + i /\ (2 * g + 2 * i - 1) % 2 = 1
        /\ (2 * g + 2 * i + 1) \div 2 = g + i
    BY <1>1
  <2>2. /\ d[2 * g + 2 * i - 1] = Half(2 * g + 2 * i - 1)
        /\ d[2 * g + 2 * i] = Half(2 * g + 2 * i)
    BY <2>1 DEF Placed
  <2>3. d[2 * g + 2 * i - 1] = <<g + i, 1>> /\ d[2 * g + 2 * i][1] = g + i
    BY <2>1, <2>2 DEF Half
  <2> QED
    BY <2>3 DEF Frame
<1>3. DOMAIN r = 1..n
  OBVIOUS
<1> HIDE DEF r
<1>4. r \in Seq(Nat) /\ Len(r) = n
  <2>1. \A i \in 1..n : r[i] \in Nat
    BY <1>2
  <2>2. r = [i \in 1..n |-> r[i]]
    BY <1>3 DEF r
  <2> QED
    BY <2>1, <2>2
<1> QED
  BY <1>2, <1>4 DEF Counts, r
-----------------------------------------------------------------------------
(* Lists of handles *)

LEMMA ProcessIs ==
  /\ Process = {"tracer", "loader"} /\ "tracer" # "loader"
  /\ "tracer" \in Process /\ "loader" \in Process
  BY DEF Process

LEMMA WaitsTail ==
  ASSUME NEW list \in Seq(Kind), list # <<>>
  PROVE  /\ Head(list) \in Kind /\ Tail(list) \in Seq(Kind)
         /\ \A k : Waits(list, k) /\ k # Head(list) => Waits(Tail(list), k)
<1>1. /\ Len(list) \in Nat \ {0} /\ Head(list) = list[1] /\ Head(list) \in Kind
      /\ Tail(list) \in Seq(Kind) /\ Len(Tail(list)) = Len(list) - 1
      /\ \A i \in 1..(Len(list) - 1) : Tail(list)[i] = list[i + 1]
  OBVIOUS
<1>2. ASSUME NEW k, Waits(list, k), k # Head(list)
      PROVE  Waits(Tail(list), k)
  <2>1. PICK i \in 1..Len(list) : list[i] = k
    BY <1>2 DEF Waits
  <2>2. i - 1 \in 1..(Len(list) - 1) /\ (i - 1) + 1 = i
    BY <1>1, <1>2, <2>1
  <2>3. Tail(list)[i - 1] = k
    BY <1>1, <2>1, <2>2
  <2> QED
    BY <1>1, <2>2, <2>3 DEF Waits
<1> QED
  BY <1>1, <1>2

LEMMA OrdersAre ==
  LET creation == <<"instr", "sys", "mem_ref">>
  IN  /\ creation \in Seq(Kind) /\ creation # <<>> /\ \A k \in Kind : Waits(creation, k)
      /\ ClosingOrder \in Seq(Kind) /\ ClosingOrder # <<>>
      /\ \A k \in Kind : Waits(ClosingOrder, k)
<1> DEFINE creation == <<"instr", "sys", "mem_ref">>
<1>1. /\ creation \in Seq(Kind) /\ Len(creation) = 3
      /\ creation[1] = "instr" /\ creation[2] = "sys" /\ creation[3] = "mem_ref"
  BY DEF Kind
<1>2. /\ ClosingOrder \in Seq(Kind) /\ Len(ClosingOrder) = 5
      /\ ClosingOrder[1] = "instr" /\ ClosingOrder[2] = "sys" /\ ClosingOrder[3] = "mem_ref"
  BY DEF Kind, ClosingOrder
<1> HIDE DEF creation
<1>3. \A k \in Kind : Waits(creation, k) /\ Waits(ClosingOrder, k)
  <2>1. 1 \in 1..3 /\ 2 \in 1..3 /\ 3 \in 1..3 /\ 1 \in 1..5 /\ 2 \in 1..5 /\ 3 \in 1..5
    OBVIOUS
  <2> QED
    BY <1>1, <1>2, <2>1 DEF Kind, Waits
<1>4. creation # <<>> /\ ClosingOrder # <<>>
  <2>1. Len(<<>>) = 0 /\ 3 # 0 /\ 5 # 0
    OBVIOUS
  <2> QED
    BY <1>1, <1>2, <2>1, Zenon
<1> QED
  BY <1>1, <1>2, <1>3, <1>4 DEF creation
-----------------------------------------------------------------------------
(* The tracer *)

LEMMA InitIInv == Init => IInv
<1> SUFFICES ASSUME Init PROVE IInv
  OBVIOUS
<1>1. BUFFER_SIZE \in Nat \ {0} /\ \A k \in Kind : MaxFrames[k] \in Nat
  BY TraceFileAssumption
<1>2. /\ disk = Empty /\ stdio = Empty /\ buffer = Empty /\ frames = Empty /\ got = Empty
      /\ sent = Zero /\ pos = Zero /\ tracer = "none" /\ loader = "none"
      /\ live = [p \in Process |-> {}] /\ freed = [p \in Process |-> Zero]
      /\ todo = [p \in Process |-> <<>>] /\ eof = [k \in Kind |-> FALSE]
      /\ exists = {} /\ ended = {}
  BY DEF Init
<1>3. \A k \in Kind : Empty[k] = <<>> /\ Zero[k] = 0
  BY DEF Empty, Zero
<1>4. /\ Zero \in [Kind -> Nat] /\ \A S : Empty \in [Kind -> Seq(S)]
      /\ \A S : [p \in Process |-> <<>>] \in [Process -> Seq(S)]
  BY DEF Empty, Zero
<1>5. Types
  BY <1>1, <1>2, <1>3, <1>4 DEF Types
<1>6. Handles
  BY <1>2, <1>3, ProcessIs DEF Handles
<1>7. ASSUME NEW k \in Kind PROVE Numbered(k)
  <2>1. disk[k] = <<>> /\ stdio[k] = <<>> /\ buffer[k] = <<>> /\ sent[k] = 0
        /\ live["tracer"] = {} /\ tracer = "none"
    BY <1>2, <1>3, ProcessIs
  <2> QED
    BY <2>1, EmptyIs DEF Numbered, Passed
<1> QED
  BY <1>2, <1>5, <1>6, <1>7 DEF IInv

LEMMA CreateTraceKeeps == ASSUME IInv, CreateTrace PROVE IInv'
<1>1. /\ tracer \in {"none", "done"} /\ loader = "none" /\ tracer' = "create" /\ loader' = loader
      /\ todo' = [todo EXCEPT !["tracer"] = <<"instr", "sys", "mem_ref">>]
      /\ UNCHANGED <<disk, exists, live, freed, sent, buffer, stdio, frames, pos, eof, got, ended>>
  BY DEF CreateTrace, loaderVars
<1>2. Types /\ Handles /\ \A k \in Kind : Numbered(k)
  BY DEF IInv
<1>3. /\ todo' \in [Process -> Seq(Kind)] /\ todo'["tracer"] # <<>>
      /\ \A k \in Kind : Waits(todo'["tracer"], k)
  BY <1>1, <1>2, OrdersAre, ProcessIs DEF Types
<1>4. Types'
  BY <1>1, <1>2, <1>3 DEF Types
<1>5. \A k \in Kind : stdio[k] = <<>> /\ buffer[k] = <<>>
  BY <1>1, <1>2 DEF Handles, Numbered
<1>6. Handles'
  BY <1>1, <1>2, <1>3, <1>5 DEF Handles
<1>7. \A k \in Kind : Numbered(k)'
  BY <1>1, <1>2 DEF Numbered, Passed
<1> QED
  BY <1>1, <1>4, <1>6, <1>7 DEF IInv

LEMMA OpenForWritingKeeps == ASSUME IInv, OpenForWriting PROVE IInv'
<1> DEFINE k == Head(todo["tracer"])
<1>1. /\ tracer = "create" /\ loader = "none" /\ loader' = loader
      /\ disk' = [disk EXCEPT ![k] = <<>>] /\ exists' = exists \cup {k}
      /\ sent' = [sent EXCEPT ![k] = 0]
      /\ buffer' = [buffer EXCEPT ![k] = <<>>]
      /\ live' = [live EXCEPT !["tracer"] = live["tracer"] \cup {k}]
      /\ freed' = [freed EXCEPT !["tracer"][k] = 0]
      /\ todo' = [todo EXCEPT !["tracer"] = Tail(todo["tracer"])]
      /\ tracer' = IF todo'["tracer"] = <<>> THEN "write" ELSE "create"
      /\ UNCHANGED <<stdio, frames, pos, eof, got, ended>>
  BY DEF OpenForWriting, loaderVars
<1>2. Types /\ Handles /\ \A l \in Kind : Numbered(l)
  BY DEF IInv
<1>3. todo["tracer"] \in Seq(Kind) /\ todo["tracer"] # <<>>
  BY <1>1, <1>2, ProcessIs DEF Types, Handles
<1>4. /\ k \in Kind /\ Tail(todo["tracer"]) \in Seq(Kind)
      /\ \A l : Waits(todo["tracer"], l) /\ l # k => Waits(Tail(todo["tracer"]), l)
  BY <1>3, WaitsTail
<1> HIDE DEF k
<1>5. /\ todo' \in [Process -> Seq(Kind)] /\ todo'["tracer"] = Tail(todo["tracer"])
      /\ live' \in [Process -> SUBSET Kind] /\ live'["tracer"] = live["tracer"] \cup {k}
      /\ live'["loader"] = live["loader"]
  BY <1>1, <1>2, <1>4, ProcessIs DEF Types
<1>6. /\ disk'[k] = <<>> /\ sent'[k] = 0 /\ buffer'[k] = <<>>
      /\ \A l \in Kind : l # k => disk'[l] = disk[l] /\ sent'[l] = sent[l] /\ buffer'[l] = buffer[l]
  BY <1>1, <1>2, <1>4 DEF Types
<1>7. /\ freed' \in [Process -> [Kind -> Nat]] /\ freed'["tracer"][k] = 0
      /\ \A p \in Process, l \in Kind : freed'[p][l] = freed[p][l] \/ (p = "tracer" /\ l = k)
  BY <1>1, <1>2, <1>4, ProcessIs DEF Types
<1>8. Types'
  <2>1. /\ disk' \in [Kind -> Seq(Nat \X {0, 1})] /\ buffer' \in [Kind -> Seq(Nat)]
        /\ sent' \in [Kind -> Nat]
    <3>1. <<>> \in Seq(Nat \X {0, 1}) /\ <<>> \in Seq(Nat) /\ 0 \in Nat
      OBVIOUS
    <3> QED
      BY <1>1, <1>2, <1>4, <3>1 DEF Types
  <2>2. \A l \in Kind : sent'[l] <= MaxFrames[l] /\ Len(buffer'[l]) < BUFFER_SIZE
    <3>1. Len(<<>>) = 0 /\ BUFFER_SIZE \in Nat \ {0} /\ \A l \in Kind : MaxFrames[l] \in Nat
      BY TraceFileAssumption
    <3>2. 0 <= MaxFrames[k] /\ 0 < BUFFER_SIZE
      BY <1>4, <3>1
    <3>3. sent'[k] <= MaxFrames[k] /\ Len(buffer'[k]) < BUFFER_SIZE
      BY <1>6, <3>1, <3>2
    <3> QED
      BY <1>2, <1>6, <3>3 DEF Types
  <2>3. /\ tracer' \in {"none", "create", "write", "close", "done"} /\ exists' \subseteq Kind
    BY <1>1, <1>2, <1>4 DEF Types
  <2> QED
    BY <1>1, <1>2, <1>5, <1>7, <2>1, <2>2, <2>3 DEF Types
<1>9. Handles'
  <2>1. \A l \in Kind : l \in live'["tracer"] \/ Waits(todo'["tracer"], l)
    BY <1>1, <1>2, <1>4, <1>5 DEF Handles
  <2>2. tracer' = "write" => live'["tracer"] = Kind
    <3>1. \A l : ~Waits(<<>>, l)
      BY DEF Waits
    <3>2. tracer' = "write" => todo'["tracer"] = <<>>
      BY <1>1
    <3>3. live'["tracer"] \subseteq Kind
      BY <1>5, ProcessIs
    <3> QED
      BY <2>1, <3>1, <3>2, <3>3
  <2>3. \A l \in Kind : stdio'[l] = <<>> /\ buffer'[l] = <<>>
    BY <1>1, <1>2, <1>6 DEF Handles
  <2>4. \A p \in Process, l \in Kind : freed'[p][l] <= IF l \in live'[p] THEN 0 ELSE 1
    BY <1>2, <1>5, <1>7, ProcessIs DEF Handles
  <2> QED
    BY <1>1, <1>2, <1>5, <2>1, <2>2, <2>3, <2>4 DEF Handles
<1>10. ASSUME NEW l \in Kind PROVE Numbered(l)'
  <2>1. stdio'[l] = <<>> /\ stdio[l] = <<>> /\ buffer'[l] = <<>> /\ buffer[l] = <<>>
    BY <1>1, <1>2, <1>6 DEF Handles
  <2>2. CASE l = k
    BY <1>1, <1>6, <2>1, <2>2, EmptyIs, <1>5 DEF Numbered, Passed
  <2>3. CASE l # k
    <3>1. Numbered(l) /\ disk'[l] = disk[l] /\ sent'[l] = sent[l]
          /\ (l \in live'["tracer"] <=> l \in live["tracer"]) /\ tracer' \in {"create", "write"}
      BY <1>1, <1>2, <1>5, <1>6, <2>3
    <3> QED
      BY <2>1, <3>1 DEF Numbered, Passed
  <2> QED
    BY <2>2, <2>3
<1> QED
  BY <1>1, <1>8, <1>9, <1>10 DEF IInv

(* Halves in a file (x) and in stdio (y), frames sent and in the buffer.   *)
LEMMA Sums ==
  ASSUME NEW x \in Nat, NEW y \in Nat, NEW all \in Nat, NEW held \in Nat,
         x + y = 2 * (all - held)
  PROVE  /\ all - held \in Nat /\ all + 1 = (all - held) + held + 1 /\ all + 1 \in Nat
         /\ y + 2 * (held + 1) \in Nat /\ x + (y + 2 * (held + 1)) = 2 * (all + 1)
         /\ all - held = (all + 1) - (held + 1)
         /\ all + 1 - 0 = all + 1
         /\ \A n \in 1..y : /\ x + n + (y - n) = 2 * (all - held)
                            /\ x + n <= 2 * all /\ x <= x + n /\ x + n \in Nat
  OBVIOUS

LEMMA WriteTraceKeeps == ASSUME IInv, NEW k \in Kind, WriteTrace(k) PROVE IInv'
<1> DEFINE n == sent[k] + 1
           filled == Append(buffer[k], n)
           flush == Full(filled)
           left == IF flush THEN <<>> ELSE filled
           waiting == IF flush THEN stdio[k] \o Halves(filled) ELSE stdio[k]
<1>1. /\ tracer = "write" /\ sent[k] < MaxFrames[k]
      /\ sent' = [sent EXCEPT ![k] = n]
      /\ UNCHANGED <<disk, exists, todo, live, freed, tracer, loader, frames, pos, eof, got, ended>>
  BY DEF WriteTrace, loaderVars
<1>2. Types /\ Handles /\ \A l \in Kind : Numbered(l)
  BY DEF IInv
<1>3. /\ sent'[k] = n /\ \A l \in Kind : l # k => sent'[l] = sent[l]
  BY <1>1, <1>2 DEF Types
<1>4. /\ buffer' = [buffer EXCEPT ![k] = left]
      /\ stdio' = [stdio EXCEPT ![k] = waiting]
  <2> DEFINE f == Append(buffer[k], sent'[k])
  <2>1. /\ buffer' = [buffer EXCEPT ![k] = IF Full(f) THEN <<>> ELSE f]
        /\ stdio' = [stdio EXCEPT ![k] = IF Full(f) THEN stdio[k] \o Halves(f) ELSE stdio[k]]
    BY DEF WriteTrace
  <2>2. f = filled
    BY <1>3
  <2> HIDE DEF f, filled
  <2> QED
    BY <2>1, <2>2
<1>5. /\ live["tracer"] = Kind /\ Numbered(k)
      /\ buffer[k] \in Seq(Nat) /\ stdio[k] \in Seq(Cell) /\ disk[k] \in Seq(Cell)
      /\ sent[k] \in Nat /\ MaxFrames[k] \in Nat /\ BUFFER_SIZE \in Nat \ {0}
      /\ Len(buffer[k]) \in Nat /\ Len(stdio[k]) \in Nat /\ Len(disk[k]) \in Nat
      /\ Len(buffer[k]) < BUFFER_SIZE
  <2>1. /\ buffer[k] \in Seq(Nat) /\ stdio[k] \in Seq(Cell) /\ disk[k] \in Seq(Cell)
        /\ sent[k] \in Nat /\ Len(buffer[k]) < BUFFER_SIZE
    BY <1>2 DEF Types, Cell
  <2>2. MaxFrames[k] \in Nat /\ BUFFER_SIZE \in Nat \ {0}
    BY TraceFileAssumption
  <2>3. live["tracer"] = Kind /\ Numbered(k)
    BY <1>1, <1>2 DEF Handles
  <2> QED
    BY <2>1, <2>2, <2>3
<1> DEFINE c == sent[k] - Len(buffer[k])
<1>6. /\ Placed(disk[k], 0) /\ Placed(stdio[k], Len(disk[k])) /\ Counts(buffer[k], c)
      /\ Len(disk[k]) + Len(stdio[k]) = 2 * c /\ Len(disk[k]) <= 2 * sent[k]
  BY <1>5 DEF Numbered, Passed
<1>7. /\ c \in Nat /\ n \in Nat /\ n = c + Len(buffer[k]) + 1 /\ n - 0 = n
      /\ c = n - (Len(buffer[k]) + 1)
      /\ Len(stdio[k]) + 2 * (Len(buffer[k]) + 1) \in Nat
      /\ Len(disk[k]) + (Len(stdio[k]) + 2 * (Len(buffer[k]) + 1)) = 2 * n
  <2> DEFINE x == Len(disk[k])
             y == Len(stdio[k])
             held == Len(buffer[k])
             all == sent[k]
  <2>1. x \in Nat /\ y \in Nat /\ held \in Nat /\ all \in Nat /\ x + y = 2 * (all - held)
    BY <1>5, <1>6
  <2> HIDE DEF x, y, held, all
  <2>2. /\ all - held \in Nat /\ all + 1 = (all - held) + held + 1 /\ all + 1 \in Nat
        /\ y + 2 * (held + 1) \in Nat /\ x + (y + 2 * (held + 1)) = 2 * (all + 1)
        /\ all - held = (all + 1) - (held + 1)
        /\ all + 1 - 0 = all + 1
    BY <2>1, Sums
  <2>3. n = all + 1 /\ c = all - held
    BY DEF all, held
  <2> HIDE DEF n, c
  <2>4. /\ c \in Nat /\ n \in Nat /\ n = c + held + 1 /\ n - 0 = n /\ c = n - (held + 1)
        /\ y + 2 * (held + 1) \in Nat /\ x + (y + 2 * (held + 1)) = 2 * n
    BY <2>2, <2>3
  <2> QED
    BY <2>4 DEF x, y, held
<1> HIDE DEF c, n
<1>8. filled \in Seq(Nat) /\ Len(filled) = Len(buffer[k]) + 1 /\ Counts(filled, c)
  BY <1>5, <1>6, <1>7, CountsAppend
<1> HIDE DEF filled
<1>9. /\ left \in Seq(Nat) /\ Len(left) \in Nat /\ Len(left) < BUFFER_SIZE
      /\ waiting \in Seq(Cell) /\ Len(waiting) \in Nat
      /\ Placed(waiting, Len(disk[k])) /\ Counts(left, n - Len(left))
      /\ Len(disk[k]) + Len(waiting) = 2 * (n - Len(left))
  <2>1. CASE flush
    <3>1. left = <<>> /\ waiting = stdio[k] \o Halves(filled) /\ Len(left) = 0
      BY <2>1
    <3>2. /\ Halves(filled) \in Seq(Cell) /\ Len(Halves(filled)) = 2 * Len(filled)
          /\ Placed(Halves(filled), 2 * c)
      BY <1>7, <1>8, HalvesPlaced
    <3>3. 2 * c = Len(disk[k]) + Len(stdio[k])
      BY <1>6
    <3>4. /\ waiting \in Seq(Cell) /\ Len(waiting) = Len(stdio[k]) + Len(Halves(filled))
          /\ Placed(waiting, Len(disk[k]))
      BY <1>5, <1>6, <3>1, <3>2, <3>3, PlacedConcat
    <3> HIDE DEF left, waiting
    <3>5. Len(disk[k]) + Len(waiting) = 2 * n /\ Len(waiting) \in Nat
      <4>1. Len(waiting) = Len(stdio[k]) + 2 * (Len(buffer[k]) + 1)
        BY <1>8, <3>2, <3>4
      <4> QED
        BY <1>7, <4>1
    <3>6. left \in Seq(Nat) /\ Len(left) < BUFFER_SIZE /\ Counts(left, n - Len(left))
      <4>1. left \in Seq(Nat) /\ Len(left) < BUFFER_SIZE
        BY <1>5, <3>1
      <4> QED
        BY <3>1, <4>1, EmptyIs
    <3>7. Len(left) \in Nat /\ n - Len(left) = n
      BY <1>7, <3>1
    <3> QED
      BY <3>4, <3>5, <3>6, <3>7
  <2>2. CASE ~flush
    <3>1. left = filled /\ waiting = stdio[k]
      BY <2>2
    <3>2. Len(filled) < BUFFER_SIZE
      BY <1>5, <1>8, <2>2 DEF Full
    <3> HIDE DEF left, waiting
    <3>3. c = n - Len(filled)
      BY <1>7, <1>8
    <3>4. /\ left \in Seq(Nat) /\ Len(left) \in Nat /\ Len(left) < BUFFER_SIZE
          /\ Counts(left, n - Len(left))
      BY <1>8, <3>1, <3>2, <3>3
    <3>5. /\ waiting \in Seq(Cell) /\ Len(waiting) \in Nat /\ Placed(waiting, Len(disk[k]))
          /\ Len(disk[k]) + Len(waiting) = 2 * (n - Len(left))
      BY <1>5, <1>6, <3>1, <3>3
    <3> QED
      BY <3>4, <3>5
  <2> QED
    BY <2>1, <2>2
<1> HIDE DEF left, waiting
<1>10. /\ buffer' \in [Kind -> Seq(Nat)] /\ stdio' \in [Kind -> Seq(Cell)] /\ sent' \in [Kind -> Nat]
       /\ buffer'[k] = left /\ stdio'[k] = waiting
       /\ \A l \in Kind : l # k => buffer'[l] = buffer[l] /\ stdio'[l] = stdio[l]
  <2>1. buffer \in [Kind -> Seq(Nat)] /\ stdio \in [Kind -> Seq(Cell)] /\ sent \in [Kind -> Nat]
    BY <1>2 DEF Types, Cell
  <2>2. buffer' \in [Kind -> Seq(Nat)] /\ stdio' \in [Kind -> Seq(Cell)]
    BY <1>4, <1>9, <2>1
  <2>3. sent' \in [Kind -> Nat]
    BY <1>1, <1>7, <2>1
  <2> QED
    BY <1>4, <2>1, <2>2, <2>3
<1>11. Types'
  <2>1. \A l \in Kind : sent'[l] <= MaxFrames[l]
    <3>1. n <= MaxFrames[k]
      BY <1>1, <1>5 DEF n
    <3> QED
      BY <1>2, <1>3, <3>1 DEF Types
  <2>2. \A l \in Kind : Len(buffer'[l]) < BUFFER_SIZE
    BY <1>2, <1>9, <1>10 DEF Types
  <2> QED
    BY <1>1, <1>2, <1>10, <2>1, <2>2 DEF Types, Cell
<1>12. Handles'
  BY <1>1, <1>2 DEF Handles
<1>13. ASSUME NEW l \in Kind PROVE Numbered(l)'
  <2>1. CASE l = k
    <3>1. Len(disk[k]) <= 2 * n
      BY <1>5, <1>6 DEF n
    <3> QED
      BY <1>1, <1>3, <1>5, <1>6, <1>9, <1>10, <2>1, <3>1 DEF Numbered, Passed
  <2>2. CASE l # k
    BY <1>1, <1>2, <1>3, <1>10, <2>2 DEF Numbered, Passed
  <2> QED
    BY <2>1, <2>2
<1>14. loader # "none" => \A l \in Kind : Follows(l)'
  BY <1>1 DEF IInv, Follows, Taken
<1> QED
  BY <1>1, <1>11, <1>12, <1>13, <1>14 DEF IInv

LEMMA StdioWritesKeeps == ASSUME IInv, NEW k \in Kind, StdioWrites(k) PROVE IInv'
<1>1. PICK n \in 1..Len(stdio[k]) :
        /\ disk' = [disk EXCEPT ![k] = disk[k] \o SubSeq(stdio[k], 1, n)]
        /\ stdio' = [stdio EXCEPT ![k] = SubSeq(stdio[k], n + 1, Len(stdio[k]))]
  BY DEF StdioWrites
<1>2. UNCHANGED <<exists, todo, live, freed, sent, tracer, buffer, loader, frames, pos, eof, got, ended>>
  BY DEF StdioWrites, loaderVars
<1>3. Types /\ Handles /\ \A l \in Kind : Numbered(l)
  BY DEF IInv
<1>4. /\ stdio[k] \in Seq(Cell) /\ disk[k] \in Seq(Cell) /\ sent[k] \in Nat
      /\ Len(stdio[k]) \in Nat /\ Len(disk[k]) \in Nat /\ Len(buffer[k]) \in Nat
      /\ buffer[k] \in Seq(Nat) /\ n \in Nat
  BY <1>3 DEF Types, Cell
<1> DEFINE front == SubSeq(stdio[k], 1, n)
           back == SubSeq(stdio[k], n + 1, Len(stdio[k]))
           d == disk[k] \o front
<1>5. Placed(disk[k], 0) /\ Placed(stdio[k], Len(disk[k]))
  BY <1>3 DEF Numbered
<1>6. /\ front \in Seq(Cell) /\ Len(front) = n /\ Placed(front, Len(disk[k]))
      /\ back \in Seq(Cell) /\ Len(back) = Len(stdio[k]) - n /\ Placed(back, Len(disk[k]) + n)
  BY <1>4, <1>5, PlacedCut
<1> HIDE DEF front, back
<1>7. d \in Seq(Cell) /\ Len(d) = Len(disk[k]) + n /\ Placed(d, 0)
  <2>1. Placed(front, 0 + Len(disk[k])) /\ 0 \in Nat
    BY <1>4, <1>6
  <2> QED
    BY <1>4, <1>5, <1>6, <2>1, PlacedConcat
<1>8. /\ disk' = [disk EXCEPT ![k] = d] /\ stdio' = [stdio EXCEPT ![k] = back]
  BY <1>1 DEF front, back
<1> HIDE DEF d
<1>9. /\ disk' \in [Kind -> Seq(Cell)] /\ stdio' \in [Kind -> Seq(Cell)]
      /\ disk'[k] = d /\ stdio'[k] = back
      /\ \A l \in Kind : l # k => disk'[l] = disk[l] /\ stdio'[l] = stdio[l]
  BY <1>3, <1>6, <1>7, <1>8 DEF Types, Cell
<1>10. k \in live["tracer"]
  <2>1. stdio[k] # <<>>
    BY <1>1
  <2> QED
    BY <1>3, <2>1 DEF Numbered
<1>11. Types'
  BY <1>2, <1>3, <1>9 DEF Types, Cell
<1>12. Handles'
  <2>1. tracer = "create" => FALSE
    BY <1>1, <1>3 DEF Handles
  <2> QED
    BY <1>2, <1>3, <2>1 DEF Handles
<1>13. ASSUME NEW l \in Kind PROVE Numbered(l)'
  <2>1. CASE l = k
    <3>1. Len(disk[k]) + Len(stdio[k]) = 2 * (sent[k] - Len(buffer[k]))
      BY <1>3, <1>10 DEF Numbered, Passed
    <3>2. /\ Len(d) + Len(back) = 2 * (sent[k] - Len(buffer[k]))
          /\ Len(d) <= 2 * sent[k]
      <4>1. /\ Len(disk[k]) + n + (Len(stdio[k]) - n) = 2 * (sent[k] - Len(buffer[k]))
            /\ Len(disk[k]) + n <= 2 * sent[k]
        <5> DEFINE x == Len(disk[k])
                   y == Len(stdio[k])
                   held == Len(buffer[k])
                   all == sent[k]
        <5>1. /\ x \in Nat /\ y \in Nat /\ held \in Nat /\ all \in Nat
              /\ x + y = 2 * (all - held) /\ n \in 1..y
          BY <1>4, <3>1
        <5> HIDE DEF x, y, held, all
        <5>2. x + n + (y - n) = 2 * (all - held) /\ x + n <= 2 * all
          BY <5>1, Sums
        <5> QED
          BY <5>2 DEF x, y, held, all
      <4> QED
        BY <1>6, <1>7, <4>1
    <3>3. Placed(back, Len(d))
      BY <1>6, <1>7
    <3> QED
      BY <1>2, <1>3, <1>7, <1>9, <1>10, <2>1, <3>2, <3>3 DEF Numbered, Passed
  <2>2. CASE l # k
    BY <1>2, <1>3, <1>9, <2>2 DEF Numbered, Passed
  <2> QED
    BY <2>1, <2>2
<1>14. ASSUME loader # "none" PROVE \A l \in Kind : Follows(l)'
  <2>1. \A l \in Kind : /\ Len(disk[l]) <= Len(disk'[l]) /\ pos[l] \in Nat
                        /\ Len(disk[l]) \in Nat /\ Len(disk'[l]) \in Nat
    <3>1. Len(disk[k]) <= Len(d) /\ Len(d) \in Nat
      BY <1>4, <1>7
    <3>2. \A l \in Kind : disk[l] \in Seq(Cell) /\ pos[l] \in Nat
      BY <1>3 DEF Types, Cell
    <3>3. \A l \in Kind : Len(disk[l]) \in Nat /\ pos[l] \in Nat
      BY <3>2
    <3>4. \A l \in Kind : disk'[l] = disk[l] \/ l = k
      BY <1>9
    <3> TAKE l \in Kind
    <3>5. CASE l = k
      BY <1>4, <1>9, <3>1, <3>3, <3>5
    <3>6. CASE l # k
      BY <3>3, <3>4, <3>6
    <3> QED
      BY <3>5, <3>6
  <2>2. \A l \in Kind : pos[l] <= Len(disk'[l])
    BY <1>14, <2>1 DEF IInv, Follows
  <2> QED
    BY <1>2, <1>14, <2>2 DEF IInv, Follows, Taken
<1> QED
  BY <1>2, <1>11, <1>12, <1>13, <1>14 DEF IInv

LEMMA CrashKeeps == ASSUME IInv, Crash PROVE IInv'
<1>1. /\ tracer \in {"create", "write", "close"} /\ tracer' = "none"
      /\ todo' = [todo EXCEPT !["tracer"] = <<>>]
      /\ live' = [live EXCEPT !["tracer"] = {}]
      /\ buffer' = Empty /\ stdio' = Empty
      /\ UNCHANGED <<disk, exists, freed, sent, loader, frames, pos, eof, got, ended>>
  BY DEF Crash, loaderVars
<1>2. Types /\ Handles /\ \A l \in Kind : Numbered(l)
  BY DEF IInv
<1>3. /\ live' \in [Process -> SUBSET Kind] /\ live'["tracer"] = {}
      /\ live'["loader"] = live["loader"]
      /\ todo' \in [Process -> Seq(Kind)] /\ todo'["loader"] = todo["loader"]
  <2>1. <<>> \in Seq(Kind) /\ {} \in SUBSET Kind
    OBVIOUS
  <2> QED
    BY <1>1, <1>2, <2>1, ProcessIs DEF Types
<1>4. /\ buffer' \in [Kind -> Seq(Nat)] /\ stdio' \in [Kind -> Seq(Nat \X {0, 1})]
      /\ \A l \in Kind : buffer'[l] = <<>> /\ stdio'[l] = <<>> /\ Len(buffer'[l]) = 0
  BY <1>1 DEF Empty
<1>5. Types'
  <2>1. \A l \in Kind : Len(buffer'[l]) < BUFFER_SIZE
    BY <1>4, TraceFileAssumption
  <2> QED
    BY <1>1, <1>2, <1>3, <1>4, <2>1 DEF Types
<1>6. Handles'
  <2>1. \A p \in Process, l \in Kind : freed'[p][l] <= IF l \in live'[p] THEN 0 ELSE 1
    <3>1. \A p \in Process, l \in Kind : freed[p][l] \in Nat /\ freed[p][l] <= 1
      <4>1. \A p \in Process, l \in Kind : freed[p][l] \in Nat
        BY <1>2 DEF Types
      <4>2. \A p \in Process, l \in Kind : freed[p][l] <= IF l \in live[p] THEN 0 ELSE 1
        BY <1>2 DEF Handles
      <4> QED
        BY <4>1, <4>2
    <3> QED
      BY <1>1, <1>2, <1>3, <3>1, ProcessIs DEF Handles
  <2> QED
    BY <1>1, <1>2, <1>3, <2>1 DEF Handles
<1>7. ASSUME NEW l \in Kind PROVE Numbered(l)'
  BY <1>1, <1>2, <1>3, <1>4, EmptyIs DEF Numbered
<1>8. ASSUME loader # "none" PROVE \A l \in Kind : Follows(l)'
  BY <1>1, <1>8 DEF IInv, Follows, Taken
<1> QED
  BY <1>1, <1>5, <1>6, <1>7, <1>8 DEF IInv

LEMMA BeginCloseKeeps == ASSUME IInv, NEW p \in Process, BeginClose(p) PROVE IInv'
<1>1. /\ todo' = [todo EXCEPT ![p] = ClosingOrder]
      /\ UNCHANGED <<disk, exists, live, freed, sent, buffer, stdio, frames, pos, eof, got, ended>>
  BY DEF BeginClose
<1>2. \/ p = "tracer" /\ tracer = "write" /\ tracer' = "close" /\ loader' = loader
      \/ p = "loader" /\ loader = "read" /\ loader' = "close" /\ tracer' = tracer
  BY DEF BeginClose
<1>3. Types /\ Handles /\ \A k \in Kind : Numbered(k)
  BY DEF IInv
<1>4. /\ todo' \in [Process -> Seq(Kind)] /\ todo'[p] = ClosingOrder
      /\ \A k \in Kind : Waits(todo'[p], k)
      /\ \A q \in Process : q # p => todo'[q] = todo[q]
  BY <1>1, <1>3, OrdersAre DEF Types
<1>5. live \in [Process -> SUBSET Kind]
  BY <1>3 DEF Types
<1>6. Types'
  BY <1>1, <1>2, <1>3, <1>4 DEF Types
<1>7. Handles'
  <2>1. CASE p = "tracer"
    BY <1>1, <1>2, <1>3, <1>4, <1>5, <2>1, ProcessIs DEF Handles
  <2>2. CASE p = "loader"
    BY <1>1, <1>2, <1>3, <1>4, <1>5, <2>2, ProcessIs DEF Handles
  <2> QED
    BY <2>1, <2>2, ProcessIs
<1>8. ASSUME NEW k \in Kind PROVE Numbered(k)'
  <2>1. CASE p = "tracer"
    <3>1. k \in live["tracer"]
      BY <1>2, <1>3, <2>1, ProcessIs DEF Handles
    <3> QED
      BY <1>1, <1>3, <3>1 DEF Numbered, Passed
  <2>2. CASE p = "loader"
    BY <1>1, <1>2, <1>3, <2>2, ProcessIs DEF Numbered, Passed
  <2> QED
    BY <2>1, <2>2, ProcessIs
<1>9. loader' # "none" => loader # "none" /\ tracer' # "create" /\ \A k \in Kind : Follows(k)'
  <2>1. loader' # "none" => loader # "none"
    BY <1>2
  <2> QED
    BY <1>1, <1>2, <2>1 DEF IInv, Follows, Taken
<1> QED
  BY <1>6, <1>7, <1>8, <1>9 DEF IInv

(* What CloseHandle writes to the file.                                    *)
LEMMA FlushIsWhole ==
  ASSUME IInv, NEW k \in Kind, k \in live["tracer"]
  PROVE  LET d == disk[k] \o stdio[k] \o Halves(buffer[k])
         IN  d \in Seq(Cell) /\ Placed(d, 0) /\ Len(d) = 2 * sent[k] /\ Len(disk[k]) <= Len(d)
<1> DEFINE h == Halves(buffer[k])
           e == disk[k] \o stdio[k]
           d == e \o h
           c == sent[k] - Len(buffer[k])
<1>1. /\ Placed(disk[k], 0) /\ Placed(stdio[k], Len(disk[k])) /\ Counts(buffer[k], c)
      /\ Len(disk[k]) + Len(stdio[k]) = 2 * c /\ Len(disk[k]) <= 2 * sent[k]
  BY DEF IInv, Numbered, Passed
<1>2. /\ stdio[k] \in Seq(Cell) /\ disk[k] \in Seq(Cell) /\ buffer[k] \in Seq(Nat) /\ sent[k] \in Nat
      /\ Len(stdio[k]) \in Nat /\ Len(disk[k]) \in Nat /\ Len(buffer[k]) \in Nat
  <2>1. /\ stdio[k] \in Seq(Cell) /\ disk[k] \in Seq(Cell) /\ buffer[k] \in Seq(Nat) /\ sent[k] \in Nat
    BY DEF IInv, Types, Cell
  <2> QED
    BY <2>1
<1>3. c \in Nat /\ 2 * c + 2 * Len(buffer[k]) = 2 * sent[k]
  <2> DEFINE x == Len(disk[k])
             y == Len(stdio[k])
             held == Len(buffer[k])
             all == sent[k]
  <2>1. x \in Nat /\ y \in Nat /\ held \in Nat /\ all \in Nat /\ x + y = 2 * (all - held)
    BY <1>1, <1>2
  <2> HIDE DEF x, y, held, all
  <2>2. all - held \in Nat /\ 2 * (all - held) + 2 * held = 2 * all
    BY <2>1
  <2> QED
    BY <2>2 DEF all, held
<1> HIDE DEF c
<1>4. h \in Seq(Cell) /\ Len(h) = 2 * Len(buffer[k]) /\ Placed(h, 2 * c)
  BY <1>1, <1>2, <1>3, HalvesPlaced
<1> HIDE DEF h
<1>5. e \in Seq(Cell) /\ Len(e) = 2 * c /\ Placed(e, 0)
  <2>1. Placed(stdio[k], 0 + Len(disk[k])) /\ 0 \in Nat
    BY <1>1, <1>2
  <2>2. e \in Seq(Cell) /\ Len(e) = Len(disk[k]) + Len(stdio[k]) /\ Placed(e, 0)
    BY <1>1, <1>2, <2>1, PlacedConcat
  <2> QED
    BY <1>1, <2>2
<1> HIDE DEF e
<1>6. d \in Seq(Cell) /\ Len(d) = 2 * c + 2 * Len(buffer[k]) /\ Placed(d, 0)
  <2>1. Placed(h, 0 + Len(e)) /\ 0 \in Nat
    BY <1>3, <1>4, <1>5
  <2>2. d \in Seq(Cell) /\ Len(d) = Len(e) + Len(h) /\ Placed(d, 0)
    BY <1>4, <1>5, <2>1, PlacedConcat
  <2> QED
    BY <1>4, <1>5, <2>2
<1> QED
  BY <1>1, <1>3, <1>6 DEF d, e, h

LEMMA CloseTracerKeeps == ASSUME IInv, CloseHandle("tracer") PROVE IInv'
<1> DEFINE k == Head(todo["tracer"])
           writes == k \in live["tracer"]
           d == IF writes THEN disk[k] \o stdio[k] \o Halves(buffer[k]) ELSE disk[k]
           s == IF writes THEN <<>> ELSE stdio[k]
           b == IF writes THEN <<>> ELSE buffer[k]
<1>1. /\ tracer = "close" /\ todo["tracer"] # <<>> /\ loader' = loader
      /\ disk' = [disk EXCEPT ![k] = d] /\ stdio' = [stdio EXCEPT ![k] = s]
      /\ buffer' = [buffer EXCEPT ![k] = b]
      /\ live' = [live EXCEPT !["tracer"] = live["tracer"] \ {k}]
      /\ freed' = [freed EXCEPT !["tracer"][k] = IF k \in live["tracer"] THEN freed["tracer"][k] + 1 ELSE freed["tracer"][k]]
      /\ todo' = [todo EXCEPT !["tracer"] = Tail(todo["tracer"])]
      /\ tracer' = IF todo'["tracer"] = <<>> THEN "done" ELSE tracer
      /\ UNCHANGED <<exists, sent, frames, pos, eof, got, ended>>
  BY ProcessIs DEF CloseHandle, StillLive
<1>2. Types /\ Handles /\ \A l \in Kind : Numbered(l)
  BY DEF IInv
<1>3. todo["tracer"] \in Seq(Kind)
  BY <1>2, ProcessIs DEF Types
<1>4. /\ k \in Kind /\ Tail(todo["tracer"]) \in Seq(Kind)
      /\ \A l : Waits(todo["tracer"], l) /\ l # k => Waits(Tail(todo["tracer"]), l)
  BY <1>1, <1>3, WaitsTail
<1> HIDE DEF k
<1>5. /\ stdio[k] \in Seq(Cell) /\ disk[k] \in Seq(Cell) /\ buffer[k] \in Seq(Nat)
  BY <1>2, <1>4 DEF Types, Cell
<1>6. /\ d \in Seq(Cell) /\ Placed(d, 0) /\ Len(d) = 2 * sent[k] /\ Len(disk[k]) <= Len(d)
      /\ s = <<>> /\ b = <<>>
  <2>1. CASE writes
    BY <1>4, <2>1, FlushIsWhole
  <2>2. CASE ~writes
    <3>1. d = disk[k] /\ s = stdio[k] /\ b = buffer[k]
      BY <2>2
    <3>2. /\ Placed(disk[k], 0) /\ stdio[k] = <<>> /\ buffer[k] = <<>> /\ Len(disk[k]) = 2 * sent[k]
      BY <1>1, <1>2, <1>4, <2>2 DEF Numbered
    <3>3. Len(disk[k]) \in Nat
      BY <1>5
    <3>4. Len(disk[k]) <= Len(disk[k])
      BY <3>3
    <3> HIDE DEF d, s, b
    <3> QED
      BY <1>5, <3>1, <3>2, <3>4
  <2> QED
    BY <2>1, <2>2
<1> HIDE DEF d, s, b
<1>7. /\ disk' \in [Kind -> Seq(Cell)] /\ stdio' \in [Kind -> Seq(Cell)] /\ buffer' \in [Kind -> Seq(Nat)]
      /\ disk'[k] = d /\ stdio'[k] = <<>> /\ buffer'[k] = <<>>
      /\ \A l \in Kind : l # k => disk'[l] = disk[l] /\ stdio'[l] = stdio[l] /\ buffer'[l] = buffer[l]
  <2>1. <<>> \in Seq(Cell) /\ <<>> \in Seq(Nat)
    OBVIOUS
  <2>2. disk \in [Kind -> Seq(Cell)] /\ stdio \in [Kind -> Seq(Cell)] /\ buffer \in [Kind -> Seq(Nat)]
    BY <1>2 DEF Types, Cell
  <2> QED
    BY <1>1, <1>4, <1>6, <2>1, <2>2
<1>8. /\ live' \in [Process -> SUBSET Kind] /\ live'["tracer"] = live["tracer"] \ {k}
      /\ live'["loader"] = live["loader"] /\ live["tracer"] \subseteq Kind
      /\ todo' \in [Process -> Seq(Kind)] /\ todo'["tracer"] = Tail(todo["tracer"])
      /\ todo'["loader"] = todo["loader"]
  BY <1>1, <1>2, <1>4, ProcessIs DEF Types
<1>9. /\ freed' \in [Process -> [Kind -> Nat]]
      /\ freed'["tracer"][k] = IF k \in live["tracer"] THEN freed["tracer"][k] + 1 ELSE freed["tracer"][k]
      /\ \A l \in Kind : l # k => freed'["tracer"][l] = freed["tracer"][l]
      /\ freed'["loader"] = freed["loader"]
  <2>1. freed \in [Process -> [Kind -> Nat]]
    BY <1>2 DEF Types
  <2>2. freed["tracer"][k] \in Nat /\ freed["tracer"][k] + 1 \in Nat
    BY <1>4, <2>1, ProcessIs
  <2> DEFINE n == IF k \in live["tracer"] THEN freed["tracer"][k] + 1 ELSE freed["tracer"][k]
  <2>3. n \in Nat /\ freed' = [freed EXCEPT !["tracer"][k] = n]
    BY <1>1, <2>2
  <2> HIDE DEF n
  <2>4. /\ freed' \in [Process -> [Kind -> Nat]] /\ freed'["tracer"][k] = n
        /\ \A l \in Kind : l # k => freed'["tracer"][l] = freed["tracer"][l]
        /\ freed'["loader"] = freed["loader"]
    BY <1>4, <2>1, <2>3, ProcessIs
  <2> QED
    BY <2>4 DEF n
<1>10. tracer' \in {"close", "done"} /\ (tracer' = "done" => live'["tracer"] = {})
  <2>1. tracer' = "done" => Tail(todo["tracer"]) = <<>>
    BY <1>1, <1>8
  <2>2. \A l : ~Waits(<<>>, l)
    BY DEF Waits
  <2>3. \A l \in live["tracer"] : Waits(todo["tracer"], l)
    BY <1>1, <1>2 DEF Handles
  <2>4. \A l \in live'["tracer"] : Waits(Tail(todo["tracer"]), l)
    BY <1>4, <1>8, <2>3
  <2>5. tracer' = "done" => live'["tracer"] = {}
    BY <2>1, <2>2, <2>4
  <2> QED
    BY <1>1, <2>5
<1>11. Types'
  <2>1. \A l \in Kind : Len(buffer'[l]) < BUFFER_SIZE
    <3>1. Len(<<>>) = 0 /\ 0 < BUFFER_SIZE
      BY TraceFileAssumption
    <3> QED
      BY <1>2, <1>7, <3>1 DEF Types
  <2> QED
    BY <1>1, <1>2, <1>7, <1>8, <1>9, <1>10, <2>1 DEF Types, Cell
<1>12. Handles'
  <2>1. \A l \in Kind : freed["tracer"][l] \in Nat
    BY <1>2, ProcessIs DEF Types
  <2>2. \A l \in Kind : freed["tracer"][l] <= IF l \in live["tracer"] THEN 0 ELSE 1
    BY <1>2, ProcessIs DEF Handles
  <2>3. \A l \in Kind : freed["loader"][l] <= IF l \in live["loader"] THEN 0 ELSE 1
    BY <1>2, ProcessIs DEF Handles
  <2>4. \A l \in Kind : l \notin live["tracer"] => freed["tracer"][l] = 1
    BY <1>1, <1>2 DEF Handles
  <2>5. freed'["tracer"][k] = 1
    <3>1. CASE k \in live["tracer"]
      BY <1>4, <1>9, <2>1, <2>2, <3>1
    <3>2. CASE k \notin live["tracer"]
      BY <1>4, <1>9, <2>4, <3>2
    <3> QED
      BY <3>1, <3>2
  <2>6. \A l \in Kind : freed'["tracer"][l] <= IF l \in live'["tracer"] THEN 0 ELSE 1
    <3> TAKE l \in Kind
    <3>1. CASE l = k
      <4>1. l \notin live'["tracer"]
        BY <1>8, <3>1
      <4> QED
        BY <2>5, <3>1, <4>1
    <3>2. CASE l # k
      BY <1>8, <1>9, <2>2, <3>2
    <3> QED
      BY <3>1, <3>2
  <2>7. \A l \in Kind : l \notin live'["tracer"] => freed'["tracer"][l] = 1
    BY <1>8, <1>9, <2>4, <2>5
  <2>8. \A p \in Process, l \in Kind : freed'[p][l] <= IF l \in live'[p] THEN 0 ELSE 1
    BY <1>8, <1>9, <2>3, <2>6, ProcessIs
  <2>9. \A l \in live'["tracer"] : Waits(todo'["tracer"], l)
    <3>1. \A l \in live["tracer"] : Waits(todo["tracer"], l)
      BY <1>1, <1>2 DEF Handles
    <3> QED
      BY <1>4, <1>8, <3>1
  <2> QED
    BY <1>1, <1>2, <1>8, <1>10, <2>7, <2>8, <2>9 DEF Handles
<1>13. ASSUME NEW l \in Kind PROVE Numbered(l)'
  <2>1. CASE l = k
    <3>1. l \notin live'["tracer"]
      BY <1>8, <2>1
    <3>2. sent[k] \in Nat /\ Len(d) <= 2 * sent[k] /\ sent' = sent
      BY <1>1, <1>2, <1>4, <1>6 DEF Types
    <3> QED
      BY <1>6, <1>7, <2>1, <3>1, <3>2, EmptyIs DEF Numbered
  <2>2. CASE l # k
    <3>1. l \in live'["tracer"] <=> l \in live["tracer"]
      BY <1>8, <2>2
    <3> QED
      BY <1>1, <1>2, <1>7, <2>2, <3>1 DEF Numbered, Passed
  <2> QED
    BY <2>1, <2>2
<1>14. ASSUME loader # "none" PROVE \A l \in Kind : Follows(l)'
  <2> TAKE l \in Kind
  <2>1. Follows(l) /\ pos[l] \in Nat /\ Len(disk[l]) \in Nat /\ Len(disk'[l]) \in Nat
    <3>1. disk[l] \in Seq(Cell) /\ disk'[l] \in Seq(Cell) /\ pos[l] \in Nat
      BY <1>2, <1>7 DEF Types, Cell
    <3> QED
      BY <1>14, <3>1 DEF IInv
  <2>2. Len(disk[l]) <= Len(disk'[l])
    <3>1. CASE l = k
      BY <1>6, <1>7, <3>1
    <3>2. CASE l # k
      BY <1>7, <2>1, <3>2
    <3> QED
      BY <3>1, <3>2
  <2>3. pos[l] <= Len(disk'[l])
    <3>1. pos[l] <= Len(disk[l])
      BY <2>1 DEF Follows
    <3> QED
      BY <2>1, <2>2, <3>1
  <2> QED
    BY <1>1, <2>1, <2>3 DEF Follows, Taken
<1> QED
  BY <1>1, <1>10, <1>11, <1>12, <1>13, <1>14 DEF IInv

LEMMA CloseLoaderKeeps == ASSUME IInv, CloseHandle("loader") PROVE IInv'
<1> DEFINE k == Head(todo["loader"])
<1>0. "loader" # "tracer"
  OBVIOUS
<1>1. /\ loader = "close" /\ todo["loader"] # <<>> /\ tracer' = tracer
      /\ live' = [live EXCEPT !["loader"] = live["loader"] \ {k}]
      /\ freed' = [freed EXCEPT !["loader"][k] = IF k \in live["loader"] THEN freed["loader"][k] + 1 ELSE freed["loader"][k]]
      /\ todo' = [todo EXCEPT !["loader"] = Tail(todo["loader"])]
      /\ loader' = IF todo'["loader"] = <<>> THEN "none" ELSE loader
      /\ UNCHANGED <<exists, sent, frames, pos, eof, got, ended>>
  BY <1>0 DEF CloseHandle, StillLive
<1>2. Types /\ Handles /\ \A l \in Kind : Numbered(l)
  BY DEF IInv
<1>3. todo["loader"] \in Seq(Kind)
  BY <1>2, ProcessIs DEF Types
<1>4. /\ k \in Kind /\ Tail(todo["loader"]) \in Seq(Kind)
      /\ \A l : Waits(todo["loader"], l) /\ l # k => Waits(Tail(todo["loader"]), l)
  BY <1>1, <1>3, WaitsTail
<1>5. disk' = disk /\ stdio' = stdio /\ buffer' = buffer
  <2>1. /\ disk' = [disk EXCEPT ![k] = disk[k]] /\ stdio' = [stdio EXCEPT ![k] = stdio[k]]
        /\ buffer' = [buffer EXCEPT ![k] = buffer[k]]
    BY <1>0 DEF CloseHandle
  <2> HIDE DEF k
  <2>2. disk \in [Kind -> Seq(Cell)] /\ stdio \in [Kind -> Seq(Cell)] /\ buffer \in [Kind -> Seq(Nat)]
    BY <1>2 DEF Types, Cell
  <2> QED
    BY <1>4, <2>1, <2>2
<1> HIDE DEF k
<1>6. /\ live' \in [Process -> SUBSET Kind] /\ live'["loader"] = live["loader"] \ {k}
      /\ live'["tracer"] = live["tracer"] /\ live["loader"] \subseteq Kind
      /\ todo' \in [Process -> Seq(Kind)] /\ todo'["loader"] = Tail(todo["loader"])
      /\ todo'["tracer"] = todo["tracer"]
  BY <1>1, <1>2, <1>4, ProcessIs DEF Types
<1>7. /\ freed' \in [Process -> [Kind -> Nat]]
      /\ freed'["loader"][k] = IF k \in live["loader"] THEN freed["loader"][k] + 1 ELSE freed["loader"][k]
      /\ \A l \in Kind : l # k => freed'["loader"][l] = freed["loader"][l]
      /\ freed'["tracer"] = freed["tracer"]
  <2>1. freed \in [Process -> [Kind -> Nat]]
    BY <1>2 DEF Types
  <2>2. freed["loader"][k] \in Nat /\ freed["loader"][k] + 1 \in Nat
    BY <1>4, <2>1, ProcessIs
  <2> DEFINE n == IF k \in live["loader"] THEN freed["loader"][k] + 1 ELSE freed["loader"][k]
  <2>3. n \in Nat /\ freed' = [freed EXCEPT !["loader"][k] = n]
    BY <1>1, <2>2
  <2> HIDE DEF n
  <2>4. /\ freed' \in [Process -> [Kind -> Nat]] /\ freed'["loader"][k] = n
        /\ \A l \in Kind : l # k => freed'["loader"][l] = freed["loader"][l]
        /\ freed'["tracer"] = freed["tracer"]
    BY <1>4, <2>1, <2>3, ProcessIs
  <2> QED
    BY <2>4 DEF n
<1>8. /\ loader' \in {"close", "none"} /\ (loader' = "none" => live'["loader"] = {})
      /\ \A l \in live'["loader"] : Waits(todo'["loader"], l)
  <2>1. loader' = "none" => Tail(todo["loader"]) = <<>>
    BY <1>1, <1>6
  <2>2. \A l : ~Waits(<<>>, l)
    BY DEF Waits
  <2>3. \A l \in live["loader"] : Waits(todo["loader"], l)
    BY <1>1, <1>2 DEF Handles
  <2>4. \A l \in live'["loader"] : Waits(Tail(todo["loader"]), l)
    BY <1>4, <1>6, <2>3
  <2>5. loader' = "none" => live'["loader"] = {}
    BY <2>1, <2>2, <2>4
  <2> QED
    BY <1>1, <1>6, <2>4, <2>5
<1>9. Types'
  BY <1>1, <1>2, <1>5, <1>6, <1>7, <1>8 DEF Types
<1>10. Handles'
  <2>1. \A l \in Kind : freed["loader"][l] \in Nat
    BY <1>2, ProcessIs DEF Types
  <2>2. \A l \in Kind : freed["loader"][l] <= IF l \in live["loader"] THEN 0 ELSE 1
    BY <1>2, ProcessIs DEF Handles
  <2>3. \A l \in Kind : freed["tracer"][l] <= IF l \in live["tracer"] THEN 0 ELSE 1
    BY <1>2, ProcessIs DEF Handles
  <2>4. freed'["loader"][k] <= 1
    BY <1>4, <1>7, <2>1, <2>2
  <2>5. \A l \in Kind : freed'["loader"][l] <= IF l \in live'["loader"] THEN 0 ELSE 1
    <3> TAKE l \in Kind
    <3>1. CASE l = k
      <4>1. l \notin live'["loader"]
        BY <1>6, <3>1
      <4> QED
        BY <2>4, <3>1, <4>1
    <3>2. CASE l # k
      BY <1>6, <1>7, <2>2, <3>2
    <3> QED
      BY <3>1, <3>2
  <2>6. \A p \in Process, l \in Kind : freed'[p][l] <= IF l \in live'[p] THEN 0 ELSE 1
    BY <1>6, <1>7, <2>3, <2>5, ProcessIs
  <2> QED
    BY <1>1, <1>2, <1>5, <1>6, <1>7, <1>8, <2>6 DEF Handles
<1>11. \A l \in Kind : Numbered(l)'
  BY <1>1, <1>2, <1>5, <1>6 DEF Numbered, Passed
<1>12. loader' # "none" => tracer' # "create" /\ \A l \in Kind : Follows(l)'
  BY <1>1, <1>5 DEF IInv, Follows, Taken
<1> QED
  BY <1>9, <1>10, <1>11, <1>12 DEF IInv
-----------------------------------------------------------------------------
(* The reading program *)

LEMMA LoadTraceKeeps == ASSUME IInv, LoadTrace PROVE IInv'
<1>1. /\ tracer # "create" /\ loader' = "read"
      /\ live' = [live EXCEPT !["loader"] = Kind]
      /\ freed' = [freed EXCEPT !["loader"] = Zero]
      /\ frames' = Empty /\ pos' = Zero /\ eof' = [k \in Kind |-> FALSE]
      /\ got' = Empty /\ ended' = {}
      /\ UNCHANGED <<disk, exists, todo, sent, tracer, buffer, stdio>>
  BY DEF LoadTrace, tracerVars
<1>2. Types /\ Handles /\ \A k \in Kind : Numbered(k)
  BY DEF IInv
<1>3. /\ Zero \in [Kind -> Nat] /\ Empty \in [Kind -> Seq(Nat)]
      /\ \A k \in Kind : Zero[k] = 0 /\ Empty[k] = <<>>
  BY DEF Zero, Empty
<1>4. /\ live' \in [Process -> SUBSET Kind] /\ live'["loader"] = Kind
      /\ live'["tracer"] = live["tracer"]
      /\ freed' \in [Process -> [Kind -> Nat]] /\ freed'["loader"] = Zero
      /\ freed'["tracer"] = freed["tracer"]
  BY <1>1, <1>2, <1>3, ProcessIs DEF Types
<1>5. Types'
  <2>1. \A k \in Kind : Len(frames'[k]) <= BUFFER_SIZE /\ pos'[k] <= 2 * MaxFrames[k]
    BY <1>1, <1>3, TraceFileAssumption
  <2> QED
    BY <1>1, <1>2, <1>3, <1>4, <2>1 DEF Types
<1>6. Handles'
  <2>1. \A p \in Process, k \in Kind : freed'[p][k] <= IF k \in live'[p] THEN 0 ELSE 1
    BY <1>2, <1>3, <1>4, ProcessIs DEF Handles
  <2> QED
    BY <1>1, <1>2, <1>4, <2>1 DEF Handles
<1>7. \A k \in Kind : Numbered(k)'
  BY <1>1, <1>2, <1>4 DEF Numbered, Passed
<1>8. ASSUME NEW k \in Kind PROVE Follows(k)'
  <2>1. disk'[k] \in Seq(Cell)
    BY <1>1, <1>2 DEF Types, Cell
  <2>2. Len(disk'[k]) \in Nat
    BY <2>1
  <2>3. pos'[k] = 0 /\ got'[k] = <<>> /\ frames'[k] = <<>> /\ eof'[k] = FALSE /\ Len(<<>>) = 0
    BY <1>1, <1>3
  <2> QED
    BY <1>1, <2>2, <2>3, EmptyIs DEF Follows, Taken
<1> QED
  BY <1>1, <1>5, <1>6, <1>7, <1>8 DEF IInv

(* The whole frames (n) of the halves (all - 2 * g) that are left.         *)
LEMMA Fits ==
  ASSUME NEW all \in Nat, NEW g \in Nat, NEW b \in Nat \ {0}, 2 * g <= all
  PROVE  LET left == all - 2 * g
             n == IF left \div 2 < b THEN left \div 2 ELSE b
         IN  /\ n \in Nat /\ n <= b /\ 2 * g + 2 * n <= all /\ 2 * g + 2 * n \in Nat
             /\ 2 * (g + n) = 2 * g + 2 * n
             /\ n < b => 2 * g + left = all /\ all <= 2 * (g + n) + 1
  OBVIOUS

LEMMA LoadedIs ==
  ASSUME IInv, loader = "read", NEW k \in Kind, frames[k] = <<>>
  PROVE  LET r == LoadBuffer(k)
             g == Len(got[k])
         IN  /\ r.frames \in Seq(Nat) /\ Len(r.frames) <= BUFFER_SIZE /\ Counts(r.frames, g)
             /\ r.pos \in Nat /\ r.pos <= Len(disk[k]) /\ r.eof \in BOOLEAN
             /\ 2 * (g + Len(r.frames)) <= r.pos
             /\ r.pos <= 2 * (g + Len(r.frames)) + (IF r.eof THEN 1 ELSE 0)
<1> DEFINE g == Len(got[k])
           all == Len(disk[k])
           left == IF eof[k] THEN 0 ELSE all - pos[k]
           n == IF left \div 2 < BUFFER_SIZE THEN left \div 2 ELSE BUFFER_SIZE
           fr == [i \in 1..n |-> Frame(disk[k][pos[k] + 2 * i - 1], disk[k][pos[k] + 2 * i])]
           to == IF n < BUFFER_SIZE THEN pos[k] + left ELSE pos[k] + 2 * n
           r == LoadBuffer(k)
<1>1. /\ r.frames = fr /\ r.pos = to
      /\ r.eof \in BOOLEAN /\ (r.eof <=> n < BUFFER_SIZE)
  <2> DEFINE e == n < BUFFER_SIZE
  <2>1. r = [frames |-> fr, pos |-> to, eof |-> e]
    BY DEF LoadBuffer
  <2>2. e \in BOOLEAN /\ (e <=> n < BUFFER_SIZE)
    OBVIOUS
  <2> HIDE DEF r, fr, to, e
  <2>3. r.frames = fr /\ r.pos = to /\ r.eof = e
    BY <2>1
  <2> QED
    BY <2>2, <2>3
<1>2. Follows(k) /\ Types /\ Numbered(k)
  BY DEF IInv
<1>3. /\ disk[k] \in Seq(Cell) /\ all \in Nat /\ pos[k] \in Nat /\ g \in Nat /\ eof[k] \in BOOLEAN
      /\ BUFFER_SIZE \in Nat \ {0} /\ Placed(disk[k], 0)
  <2>1. disk[k] \in Seq(Cell) /\ pos[k] \in Nat /\ got[k] \in Seq(Nat) /\ eof[k] \in BOOLEAN
    BY <1>2 DEF Types, Cell
  <2> QED
    BY <1>2, <2>1, TraceFileAssumption DEF Numbered
<1>4. /\ pos[k] <= all /\ 2 * g <= pos[k] /\ pos[k] <= 2 * g + (IF eof[k] THEN 1 ELSE 0)
  <2>1. Taken(k) = g
    BY <1>3 DEF Taken
  <2> HIDE DEF g
  <2> QED
    BY <1>2, <2>1 DEF Follows
<1> HIDE DEF g, all, r
<1> DEFINE fine(f, q, e) ==
             /\ f \in Seq(Nat) /\ Len(f) <= BUFFER_SIZE /\ Counts(f, g)
             /\ q \in Nat /\ q <= all /\ e \in BOOLEAN
             /\ 2 * (g + Len(f)) <= q
             /\ q <= 2 * (g + Len(f)) + (IF e THEN 1 ELSE 0)
<1>5. ASSUME eof[k] PROVE fine(r.frames, r.pos, r.eof)
  <2>1. left = 0 /\ n = 0 /\ n < BUFFER_SIZE
    BY <1>3, <1>5
  <2>2. to = pos[k]
    BY <1>3, <2>1
  <2>3. fr = <<>>
    BY <2>1
  <2> HIDE DEF left, n, fr, to
  <2>4. r.frames = <<>> /\ r.pos = pos[k] /\ r.eof /\ Len(<<>>) = 0 /\ <<>> \in Seq(Nat)
    <3>1. r.eof
      BY <1>1, <2>1
    <3> QED
      BY <1>1, <2>2, <2>3, <3>1
  <2>5. fine(<<>>, pos[k], r.eof)
    BY <1>1, <1>3, <1>4, <1>5, <2>4, EmptyIs
  <2> QED
    BY <2>4, <2>5
<1>6. ASSUME ~eof[k] PROVE fine(r.frames, r.pos, r.eof)
  <2>1. pos[k] = 2 * g /\ 2 * g <= all
    BY <1>3, <1>4, <1>6
  <2>2. left = all - 2 * g
    BY <1>6, <2>1
  <2>3. /\ n \in Nat /\ n <= BUFFER_SIZE /\ 2 * g + 2 * n <= all /\ 2 * g + 2 * n \in Nat
        /\ 2 * (g + n) = 2 * g + 2 * n
        /\ n < BUFFER_SIZE => 2 * g + left = all /\ all <= 2 * (g + n) + 1
    <3> HIDE DEF left
    <3> QED
      BY <1>3, <2>1, <2>2, Fits
  <2>4. /\ to = IF n < BUFFER_SIZE THEN all ELSE 2 * g + 2 * n
    <3> HIDE DEF left, n
    <3> QED
      BY <2>1, <2>3
  <2>5. fr = [i \in 1..n |-> Frame(disk[k][2 * g + 2 * i - 1], disk[k][2 * g + 2 * i])]
    BY <2>1
  <2> HIDE DEF left, n, fr, to
  <2>6. fr \in Seq(Nat) /\ Len(fr) = n /\ Counts(fr, g)
    <3>1. 2 * g + 2 * n <= Len(disk[k])
      BY <2>3 DEF all
    <3> QED
      BY <1>3, <2>3, <2>5, <3>1, FramesRead
  <2>7. to \in Nat /\ to <= all /\ 2 * (g + n) <= to
    BY <1>3, <2>3, <2>4
  <2>8. to <= 2 * (g + n) + (IF n < BUFFER_SIZE THEN 1 ELSE 0)
    BY <1>3, <2>3, <2>4
  <2> QED
    BY <1>1, <2>3, <2>6, <2>7, <2>8
<1>7. fine(r.frames, r.pos, r.eof)
  BY <1>3, <1>5, <1>6
<1> QED
  BY <1>7 DEF g, all, r

LEMMA ReadNextKeeps == ASSUME IInv, NEW k \in Kind, ReadNext(k) PROVE IInv'
<1> DEFINE loaded == LoadBuffer(k)
           load == frames[k] = <<>>
           available == IF load THEN loaded.frames ELSE frames[k]
           to == IF load THEN loaded.pos ELSE pos[k]
           over == IF load THEN loaded.eof ELSE eof[k]
           g == Len(got[k])
<1>1. /\ loader = "read" /\ loader' = "read" /\ k \notin ended
      /\ pos' = [pos EXCEPT ![k] = to] /\ eof' = [eof EXCEPT ![k] = over]
      /\ UNCHANGED <<disk, exists, todo, live, freed, sent, tracer, buffer, stdio>>
  BY DEF ReadNext, tracerVars
<1>2. \/ /\ load /\ available = <<>> /\ ended' = ended \cup {k} /\ UNCHANGED <<frames, got>>
      \/ /\ ~(load /\ available = <<>>)
         /\ got' = [got EXCEPT ![k] = Append(got[k], Head(available))]
         /\ frames' = [frames EXCEPT ![k] = Tail(available)] /\ ended' = ended
  BY DEF ReadNext, AtEnd, Stopped
<1>3. Types /\ Handles /\ (\A l \in Kind : Numbered(l)) /\ tracer # "create"
      /\ \A l \in Kind : Follows(l)
  BY <1>1 DEF IInv
<1>4. /\ got[k] \in Seq(Nat) /\ frames[k] \in Seq(Nat) /\ g \in Nat /\ pos[k] \in Nat
      /\ eof[k] \in BOOLEAN /\ Len(frames[k]) <= BUFFER_SIZE /\ BUFFER_SIZE \in Nat \ {0}
      /\ Len(disk[k]) \in Nat /\ disk[k] \in Seq(Cell)
  <2>1. /\ got[k] \in Seq(Nat) /\ frames[k] \in Seq(Nat) /\ pos[k] \in Nat
        /\ eof[k] \in BOOLEAN /\ Len(frames[k]) <= BUFFER_SIZE /\ disk[k] \in Seq(Cell)
    BY <1>3 DEF Types, Cell
  <2> QED
    BY <2>1, TraceFileAssumption
<1>5. /\ available \in Seq(Nat) /\ Len(available) <= BUFFER_SIZE /\ Counts(available, g)
      /\ to \in Nat /\ to <= Len(disk[k]) /\ over \in BOOLEAN
      /\ 2 * (g + Len(available)) <= to
      /\ to <= 2 * (g + Len(available)) + (IF over THEN 1 ELSE 0)
  <2>1. CASE load
    <3>1. available = loaded.frames /\ to = loaded.pos /\ over = loaded.eof
      BY <2>1
    <3> HIDE DEF available, to, over
    <3> QED
      BY <1>1, <2>1, <3>1, LoadedIs
  <2>2. CASE ~load
    <3>1. available = frames[k] /\ to = pos[k] /\ over = eof[k]
      BY <2>2
    <3> HIDE DEF available, to, over
    <3> QED
      BY <1>3, <1>4, <3>1 DEF Follows, Taken
  <2> QED
    BY <2>1, <2>2
<1>6. available # <<>> \/ load
  OBVIOUS
<1> HIDE DEF available, to, over, loaded
<1>7. /\ pos' \in [Kind -> Nat] /\ eof' \in [Kind -> BOOLEAN] /\ pos'[k] = to /\ eof'[k] = over
      /\ \A l \in Kind : l # k => pos'[l] = pos[l] /\ eof'[l] = eof[l]
  BY <1>1, <1>3, <1>5 DEF Types
<1>8. /\ got' \in [Kind -> Seq(Nat)] /\ frames' \in [Kind -> Seq(Nat)]
      /\ \A l \in Kind : l # k => got'[l] = got[l] /\ frames'[l] = frames[l]
      /\ Counts(got'[k], 0) /\ Counts(frames'[k], Len(got'[k]))
      /\ Len(got'[k]) + Len(frames'[k]) = g + Len(available)
      /\ Len(frames'[k]) <= BUFFER_SIZE
      /\ ended' \subseteq Kind
      /\ \A l \in ended' : l \in ended \/ (l = k /\ frames'[k] = <<>>)
  <2>0. /\ got \in [Kind -> Seq(Nat)] /\ frames \in [Kind -> Seq(Nat)] /\ ended \subseteq Kind
        /\ Counts(got[k], 0)
    BY <1>3 DEF Types, Follows
  <2>1. CASE available = <<>>
    <3>1. load /\ ended' = ended \cup {k} /\ frames' = frames /\ got' = got
      BY <1>2, <1>6, <2>1
    <3>2. frames[k] = <<>> /\ Len(<<>>) = 0
      BY <3>1
    <3> QED
      BY <1>4, <2>0, <2>1, <3>1, <3>2, EmptyIs
  <2>2. CASE available # <<>>
    <3>1. /\ got' = [got EXCEPT ![k] = Append(got[k], Head(available))]
          /\ frames' = [frames EXCEPT ![k] = Tail(available)] /\ ended' = ended
      BY <1>2, <2>2
    <3>2. /\ Head(available) = g + 1 /\ Tail(available) \in Seq(Nat)
          /\ Len(Tail(available)) = Len(available) - 1 /\ Counts(Tail(available), g + 1)
      BY <1>4, <1>5, <2>2, CountsTail
    <3> DEFINE h == Head(available)
               t == Tail(available)
               a == Append(got[k], h)
    <3>3. h \in Nat /\ h = 0 + Len(got[k]) + 1 /\ 0 \in Nat
      BY <1>4, <3>2
    <3> HIDE DEF h, t
    <3>4. a \in Seq(Nat) /\ Len(a) = g + 1 /\ Counts(a, 0)
      BY <1>4, <2>0, <3>3, CountsAppend
    <3>5. got' = [got EXCEPT ![k] = a] /\ frames' = [frames EXCEPT ![k] = t]
      BY <3>1 DEF h, t
    <3> HIDE DEF a
    <3>6. t \in Seq(Nat) /\ Len(t) = Len(available) - 1 /\ Counts(t, g + 1)
      BY <3>2 DEF t
    <3>7. /\ got' \in [Kind -> Seq(Nat)] /\ frames' \in [Kind -> Seq(Nat)]
          /\ got'[k] = a /\ frames'[k] = t
          /\ \A l \in Kind : l # k => got'[l] = got[l] /\ frames'[l] = frames[l]
      BY <2>0, <3>4, <3>5, <3>6
    <3>8. Len(available) \in Nat
      BY <1>5
    <3>9. Len(a) + Len(t) = g + Len(available) /\ Len(t) <= BUFFER_SIZE
      BY <1>4, <1>5, <3>4, <3>6, <3>8
    <3> QED
      BY <2>0, <3>1, <3>4, <3>6, <3>7, <3>9
  <2> QED
    BY <2>1, <2>2
<1>9. Types'
  <2>1. to <= 2 * MaxFrames[k]
    <3>1. /\ Len(disk[k]) <= 2 * sent[k] /\ sent[k] <= MaxFrames[k] /\ sent[k] \in Nat
          /\ MaxFrames[k] \in Nat
      BY <1>3, TraceFileAssumption DEF Numbered, Types
    <3> QED
      BY <1>4, <1>5, <3>1
  <2>2. \A l \in Kind : Len(frames'[l]) <= BUFFER_SIZE /\ pos'[l] <= 2 * MaxFrames[l]
    BY <1>3, <1>7, <1>8, <2>1 DEF Types
  <2> QED
    BY <1>1, <1>3, <1>7, <1>8, <2>2 DEF Types
<1>10. Handles'
  BY <1>1, <1>3 DEF Handles
<1>11. \A l \in Kind : Numbered(l)'
  BY <1>1, <1>3 DEF Numbered, Passed
<1>12. ASSUME NEW l \in Kind PROVE Follows(l)'
  <2>1. CASE l = k
    <3>1. (l \in ended)' => (frames[l] = <<>>)'
      BY <1>1, <1>8, <2>1
    <3> DEFINE m == Len(available)
               x == Len(got'[k]) + Len(frames'[k])
    <3>2. x = g + m /\ 2 * (g + m) <= to /\ to <= 2 * (g + m) + (IF over THEN 1 ELSE 0)
      BY <1>5, <1>8
    <3> HIDE DEF m
    <3>3. 2 * x <= to /\ to <= 2 * x + (IF over THEN 1 ELSE 0)
      BY <3>2
    <3> QED
      BY <1>1, <1>5, <1>7, <1>8, <2>1, <3>1, <3>3 DEF Follows, Taken
  <2>2. CASE l # k
    BY <1>1, <1>3, <1>7, <1>8, <2>2 DEF Follows, Taken
  <2> QED
    BY <2>1, <2>2
<1> QED
  BY <1>1, <1>3, <1>9, <1>10, <1>11, <1>12 DEF IInv
-----------------------------------------------------------------------------
(* Every step *)

LEMMA NextIInv == IInv /\ [Next]_fileVars => IInv'
<1> SUFFICES ASSUME IInv, [Next]_fileVars PROVE IInv'
  OBVIOUS
<1>1. CASE CreateTrace
  BY <1>1, CreateTraceKeeps
<1>2. CASE OpenForWriting
  BY <1>2, OpenForWritingKeeps
<1>3. CASE Crash
  BY <1>3, CrashKeeps
<1>4. CASE \E k \in Kind : WriteTrace(k) \/ StdioWrites(k) \/ ReadNext(k)
  BY <1>4, WriteTraceKeeps, StdioWritesKeeps, ReadNextKeeps
<1>5. CASE LoadTrace
  BY <1>5, LoadTraceKeeps
<1>6. CASE \E p \in Process : BeginClose(p) \/ CloseHandle(p)
  BY <1>6, BeginCloseKeeps, CloseTracerKeeps, CloseLoaderKeeps, ProcessIs
<1>7. CASE UNCHANGED fileVars
  <2>1. UNCHANGED <<disk, exists, todo, live, freed, sent, tracer, buffer, stdio,
                    loader, frames, pos, eof, got, ended>>
    BY <1>7 DEF fileVars, tracerVars, loaderVars
  <2>2. Types' /\ Handles'
    BY <2>1 DEF IInv, Types, Handles
  <2>3. \A k \in Kind : Numbered(k)'
    BY <2>1 DEF IInv, Numbered, Passed
  <2>4. loader' # "none" => tracer' # "create" /\ \A k \in Kind : Follows(k)'
    BY <2>1 DEF IInv, Follows, Taken
  <2> QED
    BY <2>2, <2>3, <2>4 DEF IInv
<1> QED
  BY <1>1, <1>2, <1>3, <1>4, <1>5, <1>6, <1>7 DEF Next

LEMMA Inductive == Spec => []IInv
<1> QED
  BY InitIInv, NextIInv, PTL DEF Spec

LEMMA TypesHold == IInv => TypeOK
<1> SUFFICES ASSUME IInv PROVE TypeOK
  OBVIOUS
<1>1. Types
  BY DEF IInv
<1>2. ASSUME NEW k \in Kind, NEW s \in Seq(Cell), NEW c \in Nat, Placed(s, c),
             c + Len(s) <= 2 * MaxFrames[k]
      PROVE  s \in Seq((1..MaxFrames[k]) \X {0, 1})
  <2>1. MaxFrames[k] \in Nat /\ Len(s) \in Nat
    BY TraceFileAssumption
  <2>2. \A j \in 1..Len(s) : c + j \in 1..(2 * MaxFrames[k])
    BY <1>2, <2>1
  <2>3. \A j \in 1..Len(s) : s[j] \in (1..MaxFrames[k]) \X {0, 1}
    BY <1>2, <2>1, <2>2, HalfIs DEF Placed
  <2> QED
    BY <2>3
<1>3. ASSUME NEW k \in Kind
      PROVE  /\ disk[k] \in Seq((1..MaxFrames[k]) \X {0, 1})
             /\ stdio[k] \in Seq((1..MaxFrames[k]) \X {0, 1})
             /\ sent[k] \in 0..MaxFrames[k] /\ pos[k] \in 0..(2 * MaxFrames[k])
  <2>1. /\ disk[k] \in Seq(Cell) /\ stdio[k] \in Seq(Cell) /\ buffer[k] \in Seq(Nat)
        /\ sent[k] \in Nat /\ pos[k] \in Nat
        /\ sent[k] <= MaxFrames[k] /\ pos[k] <= 2 * MaxFrames[k] /\ MaxFrames[k] \in Nat
    BY <1>1, TraceFileAssumption DEF Types, Cell
  <2>2. Len(disk[k]) \in Nat /\ Len(stdio[k]) \in Nat /\ Len(buffer[k]) \in Nat
    BY <2>1
  <2>3. Numbered(k)
    BY DEF IInv
  <2>4. Len(disk[k]) <= 2 * MaxFrames[k]
    BY <2>1, <2>2, <2>3 DEF Numbered
  <2>5. stdio[k] # <<>> => Len(disk[k]) + Len(stdio[k]) <= 2 * MaxFrames[k]
    <3>1. stdio[k] # <<>> => Len(disk[k]) + Len(stdio[k]) = 2 * (sent[k] - Len(buffer[k]))
      BY <2>3 DEF Numbered, Passed
    <3>2. 2 * (sent[k] - Len(buffer[k])) <= 2 * MaxFrames[k]
      <4> DEFINE all == sent[k]
                 held == Len(buffer[k])
                 most == MaxFrames[k]
      <4>1. all \in Nat /\ held \in Nat /\ most \in Nat /\ all <= most
        BY <2>1, <2>2
      <4> HIDE DEF all, held, most
      <4>2. 2 * (all - held) <= 2 * most
        BY <4>1
      <4> QED
        BY <4>2 DEF all, held, most
    <3> QED
      BY <3>1, <3>2
  <2>6. disk[k] \in Seq((1..MaxFrames[k]) \X {0, 1})
    <3>1. Placed(disk[k], 0) /\ 0 \in Nat /\ 0 + Len(disk[k]) <= 2 * MaxFrames[k]
      BY <2>2, <2>3, <2>4 DEF Numbered
    <3> QED
      BY <1>2, <2>1, <3>1
  <2>7. stdio[k] \in Seq((1..MaxFrames[k]) \X {0, 1})
    <3>1. CASE stdio[k] = <<>>
      BY <3>1
    <3>2. CASE stdio[k] # <<>>
      BY <1>2, <2>1, <2>2, <2>3, <2>5, <3>2 DEF Numbered
    <3> QED
      BY <3>1, <3>2
  <2> QED
    BY <2>1, <2>6, <2>7
<1> QED
  BY <1>1, <1>3 DEF TypeOK, Types

(* TraceFileTypeOK: the types of TraceFile.TypeOK.  What is in a file or   *)
(* in stdio is always halves of frames that WriteTrace has been given; the *)
(* buffers of the handles never overflow; and the position of the reader   *)
(* never passes the end of a file (FMtrace, WriteTrace, ReadNext).         *)
THEOREM TraceFileTypeOK == Spec => []TypeOK
<1> QED
  BY Inductive, TypesHold, PTL

LEMMA PrefixHolds == IInv => ReadsPrefix
<1> SUFFICES ASSUME IInv, loader # "none"
             PROVE  /\ \A k \in Kind : IsPrefix(got[k], Sent(k))
                    /\ \A k \in ended : Len(got[k]) = pos[k] \div 2
  BY DEF ReadsPrefix
<1>1. ASSUME NEW k \in Kind
      PROVE  /\ got[k] \in Seq(Nat) /\ Len(got[k]) \in Nat /\ sent[k] \in Nat /\ pos[k] \in Nat
             /\ Len(got[k]) <= sent[k] /\ Counts(got[k], 0)
             /\ k \in ended => Len(got[k]) = pos[k] \div 2
  <2>1. /\ got[k] \in Seq(Nat) /\ frames[k] \in Seq(Nat) /\ disk[k] \in Seq(Cell)
        /\ sent[k] \in Nat /\ pos[k] \in Nat
    BY DEF IInv, Types, Cell
  <2>2. Len(got[k]) \in Nat /\ Len(frames[k]) \in Nat /\ Len(disk[k]) \in Nat
    BY <2>1
  <2>3. Follows(k) /\ Len(disk[k]) <= 2 * sent[k]
    BY DEF IInv, Numbered
  <2> DEFINE x == Len(got[k])
             y == Len(frames[k])
  <2>4. /\ 2 * (x + y) <= pos[k] /\ pos[k] <= 2 * (x + y) + 1 /\ pos[k] <= Len(disk[k])
        /\ Counts(got[k], 0) /\ (k \in ended => y = 0)
    <3>1. Len(<<>>) = 0
      OBVIOUS
    <3>2. pos[k] <= 2 * (x + y) + (IF eof[k] THEN 1 ELSE 0)
      BY <2>3 DEF Follows, Taken
    <3>3. pos[k] <= 2 * (x + y) + 1
      <4> HIDE DEF x, y
      <4>1. x \in Nat /\ y \in Nat
        BY <2>2 DEF x, y
      <4> QED
        BY <2>1, <3>2, <4>1
    <3> QED
      BY <2>3, <3>1, <3>3 DEF Follows, Taken
  <2>5. x \in Nat /\ y \in Nat
    BY <2>2
  <2> HIDE DEF x, y
  <2>6. x <= sent[k]
    BY <2>1, <2>2, <2>3, <2>4, <2>5
  <2>7. k \in ended => x = pos[k] \div 2
    BY <2>1, <2>4, <2>5
  <2> QED
    BY <2>1, <2>2, <2>4, <2>6, <2>7 DEF x
<1>2. ASSUME NEW k \in Kind PROVE IsPrefix(got[k], Sent(k))
  <2> DEFINE t == Sent(k)
             g == got[k]
             n == Len(g)
  <2>1. t \in Seq(Nat) /\ Len(t) = sent[k] /\ \A i \in 1..sent[k] : t[i] = i
    BY <1>1 DEF Sent
  <2>2. g \in Seq(Nat) /\ n \in Nat /\ n <= sent[k] /\ sent[k] \in Nat /\ \A i \in 1..n : g[i] = i
    <3>1. \A i \in 1..Len(got[k]) : got[k][i] = 0 + i
      BY <1>1 DEF Counts
    <3> QED
      BY <1>1, <3>1
  <2> HIDE DEF t, g
  <2>3. \A i \in 1..n : t[i] = i
    BY <2>1, <2>2
  <2>4. SubSeq(g, 1, n) = SubSeq(t, 1, n)
    <3> HIDE DEF n
    <3>1. SubSeq(g, 1, n) = [i \in 1..n |-> g[i]] /\ SubSeq(t, 1, n) = [i \in 1..n |-> t[i]]
      BY <2>1, <2>2
    <3> QED
      BY <2>2, <2>3, <3>1
  <2> QED
    BY <2>1, <2>2, <2>4 DEF IsPrefix, t, g
<1>3. ended \subseteq Kind
  BY DEF IInv, Types
<1> QED
  BY <1>1, <1>2, <1>3

(* ReadsStayPrefix: what ReadNext has returned of a file is always a       *)
(* prefix of what WriteTrace was given, and whole at the end of the file,  *)
(* wherever stdio cuts the file and whenever the tracer is killed.         *)
THEOREM ReadsStayPrefix == Spec => []ReadsPrefix
<1> QED
  BY Inductive, PrefixHolds, PTL

LEMMA WholeHolds == IInv => WholeWhenClosed
<1> SUFFICES ASSUME IInv PROVE WholeWhenClosed
  OBVIOUS
<1>1. Types /\ Handles /\ \A k \in Kind : Numbered(k)
  BY DEF IInv
<1>2. ASSUME tracer = "done", NEW k \in Kind
      PROVE  disk[k] = Halves(Sent(k)) /\ freed["tracer"][k] = 1
  <2>1. k \notin live["tracer"]
    BY <1>1, <1>2 DEF Handles
  <2>2. disk[k] \in Seq(Cell) /\ sent[k] \in Nat
    BY <1>1 DEF Types, Cell
  <2>3. Placed(disk[k], 0) /\ Len(disk[k]) = 2 * sent[k]
    BY <1>1, <1>2, <2>1 DEF Numbered
  <2> DEFINE h == Halves(Sent(k))
             m == 2 * sent[k]
  <2>4. h \in Seq(Cell) /\ Len(h) = m /\ Placed(h, 0)
    <3>1. Sent(k) \in Seq(Nat) /\ Len(Sent(k)) = sent[k] /\ \A i \in 1..sent[k] : Sent(k)[i] = i
      BY <2>2 DEF Sent
    <3>2. Counts(Sent(k), 0)
      BY <2>2, <3>1 DEF Counts
    <3>3. 2 * 0 = 0 /\ 0 \in Nat
      OBVIOUS
    <3> QED
      BY <3>1, <3>2, <3>3, HalvesPlaced
  <2>5. m \in Nat /\ Len(disk[k]) = m
    BY <2>2, <2>3
  <2> HIDE DEF h, m
  <2>6. \A j \in 1..m : disk[k][j] = h[j]
    BY <2>3, <2>4, <2>5 DEF Placed
  <2>7. disk[k] = [j \in 1..m |-> disk[k][j]] /\ h = [j \in 1..m |-> h[j]]
    BY <2>2, <2>4, <2>5
  <2>8. disk[k] = h
    BY <2>6, <2>7
  <2>9. freed["tracer"][k] = 1
    BY <1>1, <1>2, <2>1 DEF Handles
  <2> QED
    BY <2>8, <2>9 DEF h
<1>3. ASSUME NEW p \in Process, NEW k \in Kind PROVE freed[p][k] <= 1
  <2>1. freed[p][k] \in Nat
    BY <1>1 DEF Types
  <2>2. freed[p][k] <= IF k \in live[p] THEN 0 ELSE 1
    BY <1>1 DEF Handles
  <2> QED
    BY <2>1, <2>2
<1> QED
  BY <1>2, <1>3 DEF WholeWhenClosed

(* ClosedIsWhole: after Trace::CloseTrace and the destructors of the three *)
(* handles every frame is in its file, in order, and every buffer has been *)
(* deleted exactly once.                                                   *)
THEOREM ClosedIsWhole == Spec => []WholeWhenClosed
<1> QED
  BY Inductive, WholeHolds, PTL
=============================================================================
