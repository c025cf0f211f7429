--------------------------- MODULE QuestionProofs ---------------------------
(***************************************************************************)
(* Whatever the trace, its syscalls and the questions of its users: what a *)
(* well-formed question is answered with is the set of the flows that it   *)
(* asks for, and the matrices of its pairs are freed by the next one.      *)
(***************************************************************************)
EXTENDS Question, FiniteSetTheorems, WellFoundedInduction, TLAPS

(* A list holds the valid indices of its instructions.                     *)
Entries(list) == \A i \in DOMAIN list : list[i] = Rules[i].v

(* The words that are left select what a list still lacks.                 *)
Fills(list, words, rest) ==
  WellFormed(words) =>
    /\ WellFormed(rest)
    /\ (DOMAIN list) \cup Selected(rest, RangeOf(question)) = Selected(words, RangeOf(question))

Kinds ==
  /\ pc \in {"prompt", "parse", "pairs", "dead"}
  /\ side \in {"source", "dest"}
  /\ said \in Answers
  /\ pc # "prompt" => said = "nothing"
  /\ pc \in {"parse", "pairs"} \/ said = "answers" => question \in Form
  /\ todo \in Seq(Word)
  /\ sourceList \in Lists /\ destList \in Lists
  /\ left \subseteq (DOMAIN sourceList) \X (DOMAIN destList)
  /\ DOMAIN records \subseteq Window
  /\ \A p \in DOMAIN records : records[p] \subseteq Pairs

(* One matrix at most is allocated, and none before the first pair.        *)
Owned ==
  /\ heap = lastResult
  /\ lastResult = {} \/ \E w \in Window : lastResult = {w}
  /\ pc = "parse" => heap = {}
  /\ pc = "pairs" /\ left # {} /\ isOne2OneQuery => heap = {}

Parsed ==
  pc = "parse" =>
    /\ left = {} /\ records = <<>>
    /\ Entries(sourceList) /\ Entries(destList)
    /\ side = "source" => destList = <<>> /\ Fills(sourceList, question.srcs, todo)
    /\ side = "dest" => /\ Fills(sourceList, question.srcs, <<>>)
                        /\ Fills(destList, question.dests, todo)

(* The pairs that are not left have their records.                         *)
Recorded ==
  /\ said = "answers" => left = {}
  /\ pc = "pairs" /\ left # {} => Entries(sourceList) /\ Entries(destList)
  /\ pc = "pairs" \/ said = "answers" =>
       /\ Fills(sourceList, question.srcs, <<>>) /\ Fills(destList, question.dests, <<>>)
       /\ DOMAIN records =
            {p \in (DOMAIN sourceList) \X (DOMAIN destList) : p[1] < p[2]} \ left
       /\ \A p \in DOMAIN records :
            records[p] = Truth(p[1], p[2], question, isOne2OneQuery)

IInv == Kinds /\ Owned /\ Parsed /\ Recorded

-----------------------------------------------------------------------------
(* Lists *)

(* The list of nothing.                                                    *)
LEMMA NoEntries ==
  /\ DOMAIN <<>> = {}
  /\ <<>> \in Lists
  /\ <<>> \in Seq(Word)
<1>1. DOMAIN <<>> = {}
  OBVIOUS
<1>2. <<>> = [x \in {} |-> {}]
  OBVIOUS
<1>3. [x \in {} |-> {}] \in [{} -> SUBSET Vars] /\ {} \in SUBSET (DOMAIN Rules)
  OBVIOUS
<1>4. <<>> \in Lists
  BY <1>2, <1>3 DEF Lists
<1> QED
  BY <1>1, <1>4

(* MakeSourceSinkSet keeps the type of a list and adds the instructions    *)
(* that have a row.                                                        *)
LEMMA EnlargedType ==
  ASSUME NEW list \in Lists, NEW ids
  PROVE  /\ Enlarged(list, ids) \in Lists
         /\ DOMAIN Enlarged(list, ids) = (DOMAIN list) \cup (ids \cap DOMAIN Rules)
         /\ DOMAIN list \subseteq DOMAIN Rules
         /\ Entries(list) => Entries(Enlarged(list, ids))
<1>1. PICK S \in SUBSET (DOMAIN Rules) : list \in [S -> SUBSET Vars]
  BY DEF Lists
<1>2. \A i \in DOMAIN Rules : Rules[i].v \subseteq Vars
  BY TraceAssumption DEF Row
<1> DEFINE D == (DOMAIN list) \cup (ids \cap DOMAIN Rules)
<1>3. D \in SUBSET (DOMAIN Rules)
  BY <1>1
<1>4. Enlarged(list, ids) \in [D -> SUBSET Vars]
  BY <1>1, <1>2 DEF Enlarged
<1>5. Enlarged(list, ids) \in Lists
  BY <1>3, <1>4 DEF Lists
<1>6. Entries(list) => Entries(Enlarged(list, ids))
  BY <1>1 DEF Entries, Enlarged
<1> QED
  BY <1>1, <1>4, <1>5, <1>6

(* What some words select is what the first selects and what the others do. *)
LEMMA SelectedHead ==
  ASSUME NEW words \in Seq(Word), words # <<>>, NEW range
  PROVE  /\ Selected(words, range) =
              {i \in DOMAIN Rules : Means(Head(words), i, range)} \cup Selected(Tail(words), range)
         /\ Head(words) \in Word /\ Tail(words) \in Seq(Word)
         /\ WellFormed(words) => /\ Head(words).kind # "garbled" /\ Head(words).n # -1
                                 /\ WellFormed(Tail(words))
<1>1. /\ Len(words) \in Nat \ {0} /\ DOMAIN words = 1..Len(words)
      /\ Head(words) = words[1] /\ Tail(words) \in Seq(Word) /\ Head(words) \in Word
      /\ DOMAIN Tail(words) = 1..Len(words) - 1
      /\ \A k \in 1..Len(words) - 1 : Tail(words)[k] = words[k + 1]
  OBVIOUS
<1>2. \A k \in DOMAIN words : k = 1 \/ (k - 1 \in DOMAIN Tail(words) /\ Tail(words)[k - 1] = words[k])
  BY <1>1
<1>3. \A k \in DOMAIN Tail(words) : k + 1 \in DOMAIN words /\ Tail(words)[k] = words[k + 1]
  BY <1>1
<1>4. 1 \in DOMAIN words
  BY <1>1
<1>5. ASSUME NEW i \in DOMAIN Rules
      PROVE  (\E k \in DOMAIN words : Means(words[k], i, range)) <=>
               \/ Means(Head(words), i, range)
               \/ \E k \in DOMAIN Tail(words) : Means(Tail(words)[k], i, range)
  <2>1. ASSUME NEW k \in DOMAIN words, Means(words[k], i, range)
        PROVE  \/ Means(Head(words), i, range)
               \/ \E j \in DOMAIN Tail(words) : Means(Tail(words)[j], i, range)
    BY <1>1, <1>2, <2>1
  <2>2. ASSUME NEW k \in DOMAIN Tail(words), Means(Tail(words)[k], i, range)
        PROVE  \E j \in DOMAIN words : Means(words[j], i, range)
    BY <1>3, <2>2
  <2> QED
    BY <1>1, <1>4, <2>1, <2>2
<1>6. WellFormed(words) => /\ Head(words).kind # "garbled" /\ Head(words).n # -1
                           /\ WellFormed(Tail(words))
  BY <1>1, <1>3, <1>4 DEF WellFormed
<1> QED
  BY <1>1, <1>5, <1>6 DEF Selected

(* No words select nothing.                                                *)
LEMMA SelectedNone == \A range : Selected(<<>>, range) = {}
  BY NoEntries DEF Selected

-----------------------------------------------------------------------------
(* Lookups *)

(* The k-th syscall of a name is the one that k - 1 come before.           *)
LEMMA ChosenIsNth ==
  ASSUME NEW name, NEW range, NEW num \in Nat, NEW i
  PROVE  (\E k \in Chosen(NamedIn(name, range), num) : Syscalls[k].instr_id = i)
           <=> IsNth(i, name, num, range)
<1> DEFINE named == NamedIn(name, range)
<1>1. Len(Syscalls) \in Nat /\ DOMAIN Syscalls = 1..Len(Syscalls)
  BY QuestionAssumption
<1>2. named \subseteq 1..Len(Syscalls)
  BY <1>1 DEF NamedIn
<1>3. \A k \in named : Syscalls[k].instr_id \in Int
  <2>1. \A k \in 1..Len(Syscalls) : Syscalls[k] \in [instr_id : 1..N, name : STRING]
    <3> DEFINE T == [instr_id : 1..N, name : STRING]
    <3>1. Syscalls \in Seq(T)
      BY QuestionAssumption
    <3> HIDE DEF T
    <3>2. \A k \in 1..Len(Syscalls) : Syscalls[k] \in T
      BY <3>1
    <3> QED
      BY <3>2 DEF T
  <2>2. 1..N \subseteq Int
    BY TraceAssumption
  <2> QED
    BY <1>2, <2>1, <2>2
<1>4. \A j, k \in named : j < k => Syscalls[j].instr_id < Syscalls[k].instr_id
  BY <1>1, <1>2, QuestionAssumption
<1>5. IsFiniteSet(named)
  <2>1. IsFiniteSet(1..Len(Syscalls))
    BY <1>1, FS_Interval
  <2> QED
    BY <1>2, <2>1, FS_Subset
<1> HIDE DEF named
<1>6. ASSUME NEW k \in named, Syscalls[k].instr_id = i
      PROVE  Cardinality({s \in named : Syscalls[s].instr_id <= i}) =
               Cardinality({j \in named : j < k}) + 1
  <2> DEFINE less == {j \in named : j < k}
  <2>1. {s \in named : Syscalls[s].instr_id <= i} = less \cup {k}
    <3>1. ASSUME NEW s \in named
          PROVE  Syscalls[s].instr_id <= i <=> s < k \/ s = k
      BY <1>2, <1>3, <1>4, <1>6
    <3> QED
      BY <3>1
  <2>2. k \notin less
    BY <1>2
  <2>3. IsFiniteSet(less)
    BY <1>5, FS_Subset
  <2> HIDE DEF less
  <2>4. Cardinality(less \cup {k}) = Cardinality(less) + 1
    BY <2>2, <2>3, FS_AddElement
  <2> QED
    BY <2>1, <2>4 DEF less
<1>7. ASSUME NEW k \in named
      PROVE  Cardinality({j \in named : j < k}) \in Nat
  BY <1>5, FS_Subset, FS_CardinalityType
<1>8. ASSUME NEW k \in named, Syscalls[k].instr_id = i
      PROVE  k \in Chosen(named, num) <=>
               num = 0 \/ Cardinality({s \in named : Syscalls[s].instr_id <= i}) = num
  <2> DEFINE c == Cardinality({j \in named : j < k})
             d == Cardinality({s \in named : Syscalls[s].instr_id <= i})
  <2>1. c \in Nat /\ d = c + 1
    BY <1>6, <1>7, <1>8
  <2>2. k \in Chosen(named, num) <=> num = 0 \/ c = num - 1
    BY DEF Chosen
  <2> HIDE DEF c, d
  <2>3. k \in Chosen(named, num) <=> num = 0 \/ d = num
    BY <2>1, <2>2
  <2> QED
    BY <2>3 DEF d
<1>9. Chosen(named, num) \subseteq named
  BY DEF Chosen
<1> QED
  BY <1>8, <1>9 DEF IsNth, named

(* A word that ends neither the list nor the program is looked up to what  *)
(* it means.                                                               *)
LEMMA LookUpMeans ==
  ASSUME NEW w \in Word, NEW type, NEW range, w.kind # "garbled",
         ~LookUp(type, w, range).die, NEW i \in DOMAIN Rules
  PROVE  i \in LookUp(type, w, range).ids <=> Means(w, i, range)
<1>1. CASE w.kind = "index"
  BY <1>1 DEF LookUp, Means
<1>2. CASE w.kind = "asm"
  BY <1>2 DEF LookUp, Means, GetInstrIdxByASM, HasRow
<1>3. ASSUME NEW num \in Int, num >= 0
      PROVE  i \in GetSyscallsByname(w.word, range, num).ids <=> IsNth(i, w.word, num, range)
  BY <1>3, ChosenIsNth DEF GetSyscallsByname
<1>4. CASE w.kind = "name"
  BY <1>3, <1>4 DEF LookUp, Means
<1>5. CASE w.kind = "nth"
  <2>1. LookUp(type, w, range) = GetSyscallsByname(w.word, range, w.n)
    BY <1>5 DEF LookUp
  <2>2. w.n < 0 => GetSyscallsByname(w.word, range, w.n).die
    BY DEF GetSyscallsByname
  <2>3. w.n \in Int /\ w.n >= 0
    BY <2>1, <2>2 DEF Word
  <2> QED
    BY <1>3, <1>5, <2>1, <2>3 DEF Means
<1> QED
  BY <1>1, <1>2, <1>4, <1>5 DEF Word

-----------------------------------------------------------------------------
(* Pairs *)

LEMMA SmallestOf ==
  ASSUME NEW S \in SUBSET Nat, S # {}
  PROVE  \E m \in S : \A x \in S : m <= x
<1>1. PICK m \in S : \A x \in S : <<x, m>> \notin OpToRel(<, Nat)
  BY NatLessThanWellFounded, WFMin
<1>2. \A x \in S : ~(x < m)
  BY <1>1 DEF OpToRel
<1> QED
  BY <1>2

(* The loops of QueryInRange reach every pair that is left, the first one  *)
(* next.                                                                   *)
LEMMA NextPairIsLeft ==
  ASSUME left \subseteq (1..N) \X (1..N), left # {}
  PROVE  NextPair \in left
<1> DEFINE S == {p[1] : p \in left}
<1>1. S \in SUBSET Nat /\ S # {}
  BY TraceAssumption
<1>2. PICK s \in S : \A x \in S : s <= x
  BY <1>1, SmallestOf
<1> DEFINE D == {d \in 1..N : <<s, d>> \in left}
<1>3. D \in SUBSET Nat /\ D # {}
  BY TraceAssumption
<1> HIDE DEF D
<1>4. PICK d \in D : \A x \in D : d <= x
  BY <1>3, SmallestOf
<1>5. <<s, d>> \in left
  BY DEF D
<1>6. ASSUME NEW q \in left
      PROVE  <<s, d>> = q \/ Before(<<s, d>>, q)
  <2>1. q = <<q[1], q[2]>> /\ q[1] \in 1..N /\ q[2] \in 1..N /\ q[1] \in S
    OBVIOUS
  <2>2. s <= q[1] /\ s \in Int /\ d \in Int
    BY <1>1, <1>2, <1>3, <2>1
  <2>3. q[1] = s => q[2] \in D
    BY <2>1 DEF D
  <2>4. q[1] = s => d <= q[2]
    BY <1>4, <2>3
  <2> HIDE DEF S
  <2>5. q[1] \in Int /\ q[2] \in Int
    BY <2>1
  <2>6. s < q[1] \/ (q[1] = s /\ (d < q[2] \/ d = q[2]))
    BY <2>2, <2>4, <2>5
  <2> QED
    BY <2>1, <2>6 DEF Before
<1>7. \E p \in left : \A q \in left : p = q \/ Before(p, q)
  BY <1>5, <1>6
<1> QED
  BY <1>7 DEF NextPair

(* The answer of the query tree relates variables to variables.            *)
LEMMA QueryMatrixType == \A l, r : QueryMatrix(l, r) \subseteq Pairs
<1>1. \A i \in DOMAIN Rules : Rules[i].v \subseteq Vars
  BY TraceAssumption DEF Row
<1> QED
  BY <1>1 DEF QueryMatrix, Pairs

(* A question from one instruction to one has one pair.                    *)
LEMMA OnePair ==
  ASSUME NEW S \in SUBSET (1..N), NEW D \in SUBSET (1..N),
         Cardinality(S) = 1, Cardinality(D) = 1, NEW p \in S \X D
  PROVE  S \X D = {p}
<1>1. IsFiniteSet(1..N)
  <2>1. 1 \in Int /\ N \in Int
    BY TraceAssumption
  <2> QED
    BY <2>1, FS_Interval
<1>2. IsFiniteSet(S) /\ IsFiniteSet(D)
  BY <1>1, FS_Subset
<1>3. PICK s : S = {s}
  BY <1>2, FS_Singleton
<1>4. PICK d : D = {d}
  BY <1>2, FS_Singleton
<1> QED
  BY <1>3, <1>4

(* What Pair prints of the matrix, with the sets of a source and a sink as *)
(* they were found, is the flow that the question asks for.                *)
LEMMA PairIsTrue ==
  ASSUME NEW s, NEW d
  PROVE  LET result_mat == QueryMatrix(s + 1, d)
         IN  result_mat \cap
               (Widened(Rules[s].v, {e[1] : e \in result_mat}, "backward")
                  \X Widened(Rules[d].v, {e[2] : e \in result_mat}, "forward"))
             = Truth(s, d, question, isOne2OneQuery)
<1> DEFINE m == QueryMatrix(s + 1, d)
           A == Widened(Rules[s].v, {e[1] : e \in m}, "backward")
           B == Widened(Rules[d].v, {e[2] : e \in m}, "forward")
<1>1. m \subseteq Pairs
  BY QueryMatrixType
<1> HIDE DEF m
<1>2. ASSUME NEW e \in m
      PROVE  /\ e[1] \in A <=>
                  e[1] \in Rules[s].v \/ (isOne2OneQuery /\ question.direction = "backward")
             /\ e[2] \in B <=>
                  e[2] \in Rules[d].v \/ (isOne2OneQuery /\ question.direction = "forward")
  BY DEF Widened
<1> HIDE DEF A, B
<1>3. \A e \in m : e = <<e[1], e[2]>>
  BY <1>1 DEF Pairs
<1>4. m \cap (A \X B) = {e \in m : e[1] \in A /\ e[2] \in B}
  BY <1>3
<1>5. Truth(s, d, question, isOne2OneQuery) = {e \in m : e[1] \in A /\ e[2] \in B}
  BY <1>2 DEF Truth, m
<1> QED
  BY <1>4, <1>5 DEF A, B, m

-----------------------------------------------------------------------------
(* The steps *)

(* A list speaks of instructions that have a row.                          *)
LEMMA ListRows ==
  \A list \in Lists : DOMAIN list \subseteq DOMAIN Rules /\ DOMAIN list \subseteq 1..N
<1> SUFFICES ASSUME NEW list \in Lists
             PROVE  DOMAIN list \subseteq DOMAIN Rules /\ DOMAIN list \subseteq 1..N
  OBVIOUS
<1>1. DOMAIN list \subseteq DOMAIN Rules
  BY EnlargedType
<1> QED
  BY <1>1, TraceAssumption

LEMMA AskStep ==
  ASSUME IInv, NEW q \in Questions, Ask(q)
  PROVE  IInv'
<1>1. q \in Form /\ q.srcs \in Seq(Word)
  BY QuestionAssumption DEF Form
<1>2. /\ sourceList' = <<>> /\ destList' = <<>> /\ left' = {} /\ records' = <<>>
      /\ side' = "source" /\ todo' = q.srcs /\ question' = q
      /\ lastResult' = {} /\ heap' = {}
  BY DEF Ask, DeleteLastResult, IInv, Owned
<1>3. \/ pc' = "parse" /\ said' = "nothing"
      \/ pc' = "prompt" /\ said' \in {"unknown", "invalidRange"}
  BY DEF Ask, Refusal
<1>4. Kinds'
  BY <1>1, <1>2, <1>3, NoEntries DEF Kinds, Answers
<1>5. Owned'
  BY <1>2, <1>3 DEF Owned
<1>6. Parsed'
  <2>1. Entries(<<>>)
    BY NoEntries DEF Entries
  <2>2. Fills(sourceList, question.srcs, todo)'
    BY <1>2, NoEntries DEF Fills
  <2> QED
    BY <1>2, <2>1, <2>2 DEF Parsed, Entries
<1>7. Recorded'
  BY <1>3 DEF Recorded
<1> QED
  BY <1>4, <1>5, <1>6, <1>7 DEF IInv

(* What a word adds to a list is what it means.                            *)
LEMMA WordFills ==
  ASSUME NEW list \in Lists, NEW words, NEW rest \in Seq(Word), rest # <<>>, NEW type,
         Head(rest).kind # "garbled",
         ~LookUp(type, Head(rest), RangeOf(question)).die,
         Fills(list, words, rest)
  PROVE  Fills(Enlarged(list, LookUp(type, Head(rest), RangeOf(question)).ids), words, Tail(rest))
<1> DEFINE range == RangeOf(question)
           ids == LookUp(type, Head(rest), range).ids
<1>1. Head(rest) \in Word
  BY SelectedHead
<1>2. ids \cap DOMAIN Rules = {i \in DOMAIN Rules : Means(Head(rest), i, range)}
  BY <1>1, LookUpMeans
<1>3. Selected(rest, range) = (ids \cap DOMAIN Rules) \cup Selected(Tail(rest), range)
  BY <1>2, SelectedHead
<1>4. DOMAIN Enlarged(list, ids) = (DOMAIN list) \cup (ids \cap DOMAIN Rules)
  BY EnlargedType
<1>5. WellFormed(words) => WellFormed(Tail(rest))
  BY SelectedHead DEF Fills
<1> HIDE DEF ids, range
<1>6. Fills(Enlarged(list, ids), words, Tail(rest))
  BY <1>3, <1>4, <1>5 DEF Fills, range
<1> QED
  BY <1>6 DEF ids, range

(* A word that ends the list was in it: the list is not well formed.       *)
LEMMA GarbledEnds ==
  ASSUME NEW list, NEW words, NEW rest \in Seq(Word), rest # <<>>,
         Head(rest).kind = "garbled" \/ Head(rest).n = -1, Fills(list, words, rest)
  PROVE  Fills(list, words, <<>>)
  BY SelectedHead DEF Fills

LEMMA ParseWordStep ==
  ASSUME IInv, ParseWord
  PROVE  IInv'
<1> DEFINE w == Head(todo)
           found == LookUp(Type, w, RangeOf(question))
           ends == w.kind = "garbled" \/ (w.kind = "nth" /\ w.n = -1)
<1> USE DEF IInv
<1>1. /\ pc = "parse" /\ todo # <<>>
      /\ UNCHANGED <<question, side, left, records, lastResult, heap, said>>
  BY DEF ParseWord
<1>2. /\ todo \in Seq(Word) /\ sourceList \in Lists /\ destList \in Lists
      /\ w \in Word /\ Tail(todo) \in Seq(Word)
  BY <1>1, SelectedHead DEF Kinds
<1>3. left = {} /\ heap = {} /\ said = "nothing" /\ side \in {"source", "dest"}
  BY <1>1 DEF Parsed, Owned, Kinds
<1>4. CASE ends
  <2>1. todo' = <<>> /\ UNCHANGED <<pc, sourceList, destList>>
    BY <1>4 DEF ParseWord, AfterGarbled
  <2>2. Kinds'
    BY <1>1, <2>1, NoEntries DEF Kinds
  <2>3. Owned'
    BY <1>1, <1>3, <2>1 DEF Owned
  <2>4. Parsed'
    <3>1. side = "source" => Fills(sourceList, question.srcs, <<>>)
      BY <1>1, <1>2, <1>4, GarbledEnds DEF Parsed
    <3>2. side = "dest" => Fills(destList, question.dests, <<>>)
      BY <1>1, <1>2, <1>4, GarbledEnds DEF Parsed
    <3> QED
      BY <1>1, <2>1, <3>1, <3>2 DEF Parsed, Fills, Entries
  <2>5. Recorded'
    BY <1>1, <1>3, <2>1 DEF Recorded
  <2> QED
    BY <2>2, <2>3, <2>4, <2>5
<1>5. CASE ~ends /\ found.die
  <2>1. pc' = "dead" /\ UNCHANGED <<todo, sourceList, destList>>
    BY <1>5 DEF ParseWord
  <2>2. Kinds'
    BY <1>1, <1>3, <2>1 DEF Kinds
  <2>3. Owned'
    BY <1>1, <2>1 DEF Owned
  <2>4. Parsed' /\ Recorded'
    BY <1>1, <1>3, <2>1 DEF Parsed, Recorded
  <2> QED
    BY <2>2, <2>3, <2>4
<1>6. CASE ~ends /\ ~found.die
  <2>1. /\ todo' = Tail(todo) /\ UNCHANGED pc
        /\ side = "source" => sourceList' = Enlarged(sourceList, found.ids) /\ UNCHANGED destList
        /\ side = "dest" => destList' = Enlarged(destList, found.ids) /\ UNCHANGED sourceList
    BY <1>6 DEF ParseWord
  <2>2. Kinds'
    <3>1. sourceList' \in Lists /\ destList' \in Lists
      <4>1. /\ Enlarged(sourceList, found.ids) \in Lists
            /\ Enlarged(destList, found.ids) \in Lists
        BY <1>2, EnlargedType
      <4> HIDE DEF found
      <4> QED
        BY <1>2, <1>3, <2>1, <4>1
    <3>2. left' = {} /\ todo' \in Seq(Word) /\ pc' = "parse" /\ said' = "nothing"
      BY <1>1, <1>2, <1>3, <2>1
    <3>3. question' \in Form /\ side' \in {"source", "dest"}
      BY <1>1 DEF Kinds
    <3>4. DOMAIN records' \subseteq Window /\ \A p \in DOMAIN records' : records'[p] \subseteq Pairs
      BY <1>1 DEF Kinds
    <3>5. "nothing" \in Answers
      BY DEF Answers
    <3> QED
      BY <3>1, <3>2, <3>3, <3>4, <3>5 DEF Kinds
  <2>3. Owned'
    BY <1>1, <1>3, <2>1 DEF Owned
  <2>4. Parsed'
    <3>1. w.kind # "garbled"
      BY <1>6
    <3>2. ASSUME side = "source"
          PROVE  Fills(Enlarged(sourceList, found.ids), question.srcs, Tail(todo))
      BY <1>1, <1>2, <1>6, <3>1, <3>2, WordFills DEF Parsed
    <3>3. ASSUME side = "dest"
          PROVE  Fills(Enlarged(destList, found.ids), question.dests, Tail(todo))
      BY <1>1, <1>2, <1>6, <3>1, <3>3, WordFills DEF Parsed
    <3>4. Entries(sourceList)' /\ Entries(destList)'
      <4>1. Entries(sourceList) /\ Entries(destList)
        BY <1>1 DEF Parsed
      <4>2. /\ Entries(Enlarged(sourceList, found.ids))
            /\ Entries(Enlarged(destList, found.ids))
        BY <1>2, <4>1, EnlargedType
      <4> QED
        BY <1>3, <2>1, <4>1, <4>2 DEF Entries
    <3> QED
      BY <1>1, <1>3, <2>1, <3>2, <3>3, <3>4 DEF Parsed, Fills
  <2>5. Recorded'
    BY <1>1, <1>3, <2>1 DEF Recorded
  <2> QED
    BY <2>2, <2>3, <2>4, <2>5
<1> QED
  BY <1>4, <1>5, <1>6

LEMMA ThrowStep ==
  ASSUME IInv, Throw
  PROVE  IInv'
<1> USE DEF IInv
<1>1. /\ pc = "parse" /\ pc' = "prompt" /\ said' = "exception"
      /\ UNCHANGED <<question, side, todo, sourceList, destList, left, records, lastResult, heap>>
  BY DEF Throw
<1>2. Kinds'
  BY <1>1 DEF Kinds, Answers
<1>3. Owned'
  BY <1>1 DEF Owned
<1>4. Parsed' /\ Recorded'
  BY <1>1 DEF Parsed, Recorded
<1> QED
  BY <1>2, <1>3, <1>4

LEMMA NextSideStep ==
  ASSUME IInv, NextSide
  PROVE  IInv'
<1> USE DEF IInv
<1>1. /\ pc = "parse" /\ todo = <<>> /\ side = "source" /\ side' = "dest"
      /\ todo' = question.dests
      /\ UNCHANGED <<pc, question, sourceList, destList, left, records, lastResult, heap, said>>
  BY DEF NextSide
<1>2. question \in Form /\ question.dests \in Seq(Word) /\ said = "nothing" /\ destList = <<>>
  BY <1>1 DEF Kinds, Parsed, Form
<1>3. Kinds'
  BY <1>1, <1>2 DEF Kinds
<1>4. Owned'
  BY <1>1 DEF Owned, isOne2OneQuery
<1>5. Parsed'
  <2>1. Fills(<<>>, question.dests, question.dests)
    BY NoEntries DEF Fills
  <2> QED
    BY <1>1, <1>2, <2>1 DEF Parsed, Fills, Entries
<1>6. Recorded'
  BY <1>1, <1>2 DEF Recorded
<1> QED
  BY <1>3, <1>4, <1>5, <1>6

LEMMA SelectStep ==
  ASSUME IInv, Select
  PROVE  IInv'
<1> USE DEF IInv
<1>1. /\ pc = "parse" /\ todo = <<>> /\ side = "dest"
      /\ UNCHANGED <<question, side, todo, sourceList, destList, records, lastResult, heap>>
  BY DEF Select
<1>2. \/ /\ pc' = "pairs" /\ left' = (DOMAIN sourceList) \X (DOMAIN destList)
         /\ said' = said
      \/ pc' = "prompt" /\ said' \in {"noSource", "noDest"} /\ left' = left
  BY DEF Select
<1>3. /\ said = "nothing" /\ question \in Form /\ left = {} /\ heap = {} /\ records = <<>>
      /\ Entries(sourceList) /\ Entries(destList)
      /\ Fills(sourceList, question.srcs, <<>>) /\ Fills(destList, question.dests, <<>>)
  BY <1>1 DEF Kinds, Parsed, Owned
<1>4. Kinds'
  <2>1. DOMAIN sourceList' = DOMAIN sourceList /\ DOMAIN destList' = DOMAIN destList
    BY <1>1
  <2>2. left' \subseteq (DOMAIN sourceList') \X (DOMAIN destList')
    BY <1>2, <1>3, <2>1
  <2> QED
    BY <1>1, <1>2, <1>3, <2>2 DEF Kinds, Answers
<1>5. Owned'
  BY <1>1, <1>2, <1>3 DEF Owned
<1>6. Parsed'
  BY <1>2 DEF Parsed
<1>7. Recorded'
  <2>1. CASE pc' = "prompt"
    BY <1>2, <2>1 DEF Recorded
  <2>2. CASE pc' = "pairs"
    <3>1. DOMAIN records' = {} /\ left' = (DOMAIN sourceList) \X (DOMAIN destList)
      BY <1>1, <1>2, <1>3, <2>2, NoEntries
    <3>2. said' = "nothing"
      BY <1>2, <1>3, <2>2
    <3> QED
      BY <1>1, <1>3, <2>2, <3>1, <3>2 DEF Recorded, Fills, Entries
  <2> QED
    BY <1>2, <2>1, <2>2
<1> QED
  BY <1>4, <1>5, <1>6, <1>7

LEMMA AnswerStep ==
  ASSUME IInv, Answer
  PROVE  IInv'
<1> USE DEF IInv
<1>1. /\ pc = "pairs" /\ left = {} /\ pc' = "prompt" /\ said' = "answers"
      /\ UNCHANGED <<question, side, todo, sourceList, destList, left, records, lastResult, heap>>
  BY DEF Answer
<1>2. Kinds'
  BY <1>1 DEF Kinds, Answers
<1>3. Owned'
  BY <1>1 DEF Owned
<1>4. Parsed'
  BY <1>1 DEF Parsed
<1>5. Recorded'
  BY <1>1 DEF Recorded, Fills, isOne2OneQuery
<1> QED
  BY <1>2, <1>3, <1>4, <1>5

(* The next pair is of a source and a sink that have rows.                 *)
LEMMA NextPairIs ==
  ASSUME IInv, pc = "pairs", left # {}
  PROVE  /\ NextPair \in left
         /\ NextPair \in (DOMAIN sourceList) \X (DOMAIN destList)
         /\ NextPair \in (DOMAIN Rules) \X (DOMAIN Rules)
         /\ NextPair = <<NextPair[1], NextPair[2]>>
         /\ NextPair[1] \in 1..N /\ NextPair[2] \in 1..N
<1>1. left \subseteq (DOMAIN sourceList) \X (DOMAIN destList)
  BY DEF IInv, Kinds
<1>2. /\ DOMAIN sourceList \subseteq DOMAIN Rules /\ DOMAIN sourceList \subseteq 1..N
      /\ DOMAIN destList \subseteq DOMAIN Rules /\ DOMAIN destList \subseteq 1..N
  BY ListRows DEF IInv, Kinds
<1>3. NextPair \in left
  BY <1>1, <1>2, NextPairIsLeft
<1> QED
  BY <1>1, <1>2, <1>3

LEMMA SkipStep ==
  ASSUME IInv, Skip
  PROVE  IInv'
<1> USE DEF IInv
<1>1. /\ pc = "pairs" /\ left # {} /\ NextPair[1] >= NextPair[2]
      /\ left' = left \ {NextPair}
      /\ UNCHANGED <<pc, question, side, todo, sourceList, destList, records,
                     lastResult, heap, said>>
  BY DEF Skip
<1>2. said = "nothing"
  BY <1>1 DEF Kinds
<1>3. Kinds'
  BY <1>1 DEF Kinds
<1>4. Owned'
  BY <1>1 DEF Owned, isOne2OneQuery
<1>5. Parsed'
  BY <1>1 DEF Parsed
<1>6. Recorded'
  <2>1. ~(NextPair[1] < NextPair[2])
    BY <1>1, NextPairIs
  <2>2. DOMAIN records' =
          {p \in (DOMAIN sourceList) \X (DOMAIN destList) : p[1] < p[2]} \ left'
    BY <1>1, <2>1 DEF Recorded
  <2> QED
    BY <1>1, <1>2, <2>2 DEF Recorded, Fills, Entries, isOne2OneQuery
<1> QED
  BY <1>3, <1>4, <1>5, <1>6

(* The sets that Widened may enlarge are sets of variables.                *)
LEMMA WidenedType ==
  ASSUME NEW l, NEW r, NEW set \in SUBSET Vars, NEW mode
  PROVE  /\ Widened(set, {e[1] : e \in QueryMatrix(l, r)}, mode) \in SUBSET Vars
         /\ Widened(set, {e[2] : e \in QueryMatrix(l, r)}, mode) \in SUBSET Vars
<1>1. \A e \in QueryMatrix(l, r) : e[1] \in Vars /\ e[2] \in Vars
  BY QueryMatrixType DEF Pairs
<1> QED
  BY <1>1 DEF Widened

(* An entry of a list changes and stays a set of variables.                *)
LEMMA ListExcept ==
  ASSUME NEW list \in Lists, NEW i \in DOMAIN list, NEW set \in SUBSET Vars
  PROVE  /\ [list EXCEPT ![i] = set] \in Lists
         /\ DOMAIN [list EXCEPT ![i] = set] = DOMAIN list
<1>1. PICK S \in SUBSET (DOMAIN Rules) : list \in [S -> SUBSET Vars]
  BY DEF Lists
<1>2. [list EXCEPT ![i] = set] \in [S -> SUBSET Vars]
  BY <1>1
<1> QED
  BY <1>2 DEF Lists

(* A pair that is answered.                                                *)
LEMMA PairAnswered ==
  ASSUME IInv, Pair, pc' # "dead"
  PROVE  IInv'
<1> DEFINE p == NextPair
           w == Between(p)
           mat == QueryMatrix(w[1], w[2])
           sources == Widened(sourceList[p[1]], {e[1] : e \in mat}, "backward")
           sinks == Widened(destList[p[2]], {e[2] : e \in mat}, "forward")
           D == {x \in (DOMAIN sourceList) \X (DOMAIN destList) : x[1] < x[2]}
<1> USE DEF IInv
<1>1. /\ pc = "pairs" /\ left # {} /\ p[1] < p[2] /\ UNCHANGED <<question, side, todo, said>>
      /\ heap' = IF isOne2OneQuery THEN heap \cup {w} ELSE heap
      /\ lastResult' = IF isOne2OneQuery THEN {w} ELSE lastResult
      /\ sourceList' = [sourceList EXCEPT ![p[1]] = sources]
      /\ destList' = [destList EXCEPT ![p[2]] = sinks]
      /\ records' = [x \in (DOMAIN records) \cup {p} |->
                       IF x = p THEN mat \cap (sources \X sinks) ELSE records[x]]
      /\ left' = left \ {p} /\ UNCHANGED pc
  BY DEF Pair
<1>2. /\ p \in left /\ p \in (DOMAIN sourceList) \X (DOMAIN destList)
      /\ p \in (DOMAIN Rules) \X (DOMAIN Rules) /\ p = <<p[1], p[2]>>
      /\ p[1] \in 1..N /\ p[2] \in 1..N
  BY <1>1, NextPairIs
<1>3. said = "nothing" /\ question \in Form /\ sourceList \in Lists /\ destList \in Lists
  BY <1>1 DEF Kinds
<1>4. sourceList[p[1]] = Rules[p[1]].v /\ destList[p[2]] = Rules[p[2]].v
  BY <1>1, <1>2 DEF Recorded, Entries
<1>5. w \in Window /\ w[1] = p[1] + 1 /\ w[2] = p[2] /\ p \in Window
  BY <1>1, <1>2, TraceAssumption DEF Between, Window
<1>6. Rules[p[1]].v \in SUBSET Vars /\ Rules[p[2]].v \in SUBSET Vars
  BY <1>2, TraceAssumption DEF Row
<1>7. sources \in SUBSET Vars /\ sinks \in SUBSET Vars
  BY <1>4, <1>6, WidenedType
<1>8. mat \subseteq Pairs
  BY QueryMatrixType
<1>9. mat \cap (sources \X sinks) = Truth(p[1], p[2], question, isOne2OneQuery)
  BY <1>4, <1>5, PairIsTrue
<1> HIDE DEF sources, sinks, mat, w, p
<1>10. /\ sourceList' \in Lists /\ DOMAIN sourceList' = DOMAIN sourceList
       /\ destList' \in Lists /\ DOMAIN destList' = DOMAIN destList
  BY <1>1, <1>2, <1>3, <1>7, ListExcept
<1>11. isOne2OneQuery' = isOne2OneQuery
  BY <1>10 DEF isOne2OneQuery
<1>12. isOne2OneQuery => left' = {} /\ heap = {}
  <2> SUFFICES ASSUME isOne2OneQuery
               PROVE  left' = {} /\ heap = {}
    OBVIOUS
  <2>1. DOMAIN sourceList \in SUBSET (1..N) /\ DOMAIN destList \in SUBSET (1..N)
    BY <1>3, ListRows
  <2>2. (DOMAIN sourceList) \X (DOMAIN destList) = {p}
    BY <1>2, <2>1, OnePair DEF isOne2OneQuery
  <2>3. left \subseteq {p}
    BY <2>2 DEF Kinds
  <2> QED
    BY <1>1, <2>3 DEF Owned
<1>13. Kinds'
  <2>1. left' \subseteq (DOMAIN sourceList') \X (DOMAIN destList')
    BY <1>1, <1>10 DEF Kinds
  <2>2. DOMAIN records' \subseteq Window
    BY <1>1, <1>5 DEF Kinds
  <2>3. \A x \in DOMAIN records' : records'[x] \subseteq Pairs
    BY <1>1, <1>8 DEF Kinds
  <2> QED
    BY <1>1, <1>3, <1>10, <2>1, <2>2, <2>3 DEF Kinds
<1>14. Owned'
  BY <1>1, <1>5, <1>11, <1>12 DEF Owned
<1>15. Parsed'
  BY <1>1 DEF Parsed
<1>16. Recorded'
  <2>1. left' # {} => Entries(sourceList)' /\ Entries(destList)'
    <3> SUFFICES ASSUME left' # {}
                 PROVE  Entries(sourceList)' /\ Entries(destList)'
      OBVIOUS
    <3>1. ~isOne2OneQuery
      BY <1>12
    <3>2. sources = sourceList[p[1]] /\ sinks = destList[p[2]]
      BY <3>1 DEF sources, sinks, Widened
    <3>3. Entries(sourceList) /\ Entries(destList)
      BY <1>1 DEF Recorded
    <3> QED
      BY <1>1, <1>4, <1>10, <3>2, <3>3 DEF Entries
  <2>2. DOMAIN records' = D \ left'
    <3>1. DOMAIN records = D \ left
      BY <1>1 DEF Recorded
    <3>2. p \in D
      BY <1>1, <1>2 DEF p
    <3> HIDE DEF D
    <3> QED
      BY <1>1, <1>2, <3>1, <3>2
  <2>3. \A x \in DOMAIN records' : records'[x] = Truth(x[1], x[2], question, isOne2OneQuery)
    BY <1>1, <1>9 DEF Recorded
  <2>4. /\ Fills(sourceList, question.srcs, <<>>)'
        /\ Fills(destList, question.dests, <<>>)'
    BY <1>1, <1>10 DEF Recorded, Fills
  <2> QED
    BY <1>1, <1>3, <1>10, <1>11, <2>1, <2>2, <2>3, <2>4 DEF Recorded
<1> QED
  BY <1>13, <1>14, <1>15, <1>16

LEMMA PairStep ==
  ASSUME IInv, Pair
  PROVE  IInv'
<1>1. CASE pc' # "dead"
  BY <1>1, PairAnswered
<1>2. CASE pc' = "dead"
  <2>1. /\ pc = "pairs"
        /\ UNCHANGED <<question, side, todo, said, heap, lastResult, sourceList, destList,
                       records, left>>
    BY <1>2 DEF Pair
  <2>2. said = "nothing"
    BY <2>1 DEF IInv, Kinds
  <2>3. Kinds'
    BY <1>2, <2>1 DEF IInv, Kinds
  <2>4. Owned'
    BY <1>2, <2>1 DEF IInv, Owned
  <2>5. Parsed' /\ Recorded'
    BY <1>2, <2>1, <2>2 DEF Parsed, Recorded
  <2> QED
    BY <2>3, <2>4, <2>5 DEF IInv
<1> QED
  BY <1>1, <1>2

LEMMA Inductive == Spec => []IInv
<1>1. Init => IInv
  <2> SUFFICES ASSUME Init
               PROVE  IInv
    OBVIOUS
  <2>1. Kinds
    BY NoEntries DEF Init, Kinds, Answers
  <2> QED
    BY <2>1 DEF Init, IInv, Owned, Parsed, Recorded
<1>2. IInv /\ [Next]_vars => IInv'
  <2> SUFFICES ASSUME IInv, [Next]_vars
               PROVE  IInv'
    OBVIOUS
  <2>1. ASSUME NEW q \in Questions, Ask(q)
        PROVE  IInv'
    BY <2>1, AskStep
  <2>2. CASE ParseWord
    BY <2>2, ParseWordStep
  <2>3. CASE Throw
    BY <2>3, ThrowStep
  <2>4. CASE NextSide
    BY <2>4, NextSideStep
  <2>5. CASE Select
    BY <2>5, SelectStep
  <2>6. CASE Skip
    BY <2>6, SkipStep
  <2>7. CASE Pair
    BY <2>7, PairStep
  <2>8. CASE Answer
    BY <2>8, AnswerStep
  <2>9. CASE UNCHANGED vars
    BY <2>9 DEF vars, IInv, Kinds, Owned, Parsed, Recorded, Fills, Entries, isOne2OneQuery
  <2> QED
    BY <2>1, <2>2, <2>3, <2>4, <2>5, <2>6, <2>7, <2>8, <2>9 DEF Next
<1> QED
  BY <1>1, <1>2, PTL DEF Spec

-----------------------------------------------------------------------------
(* Results *)

(* The lists speak of instructions that have a row, the pairs of the lists,*)
(* the records of variables, and there is one last result at most.         *)
THEOREM QuestionTypeOK == Spec => []TypeOK
<1>1. IInv => TypeOK
  <2> SUFFICES ASSUME IInv
               PROVE  TypeOK
    OBVIOUS
  <2>1. Range(records) \subseteq SUBSET Pairs
    BY DEF IInv, Kinds, Range
  <2>2. lastResult \subseteq Window /\ heap \subseteq Window
    BY DEF IInv, Owned
  <2>3. Cardinality(lastResult) <= 1
    <3>1. CASE lastResult = {}
      BY <3>1, FS_EmptySet
    <3>2. CASE \E w \in Window : lastResult = {w}
      <4>1. PICK w \in Window : lastResult = {w}
        BY <3>2
      <4>2. Cardinality({w}) = 1
        BY FS_Singleton
      <4> QED
        BY <4>1, <4>2
    <3> QED
      BY <3>1, <3>2 DEF IInv, Owned
  <2> QED
    BY <2>1, <2>2, <2>3 DEF IInv, Kinds, TypeOK
<1> QED
  BY <1>1, Inductive, PTL

(* At the prompt only the last result is allocated, whatever was asked and *)
(* however it ended.                                                       *)
THEOREM MatricesAreFreed == Spec => []MatricesFreed
<1>1. IInv => MatricesFreed
  BY DEF IInv, Owned, MatricesFreed
<1> QED
  BY <1>1, Inductive, PTL

(* The records of a well-formed question are the flows between what it     *)
(* selects, for every trace, syscalls and words.                           *)
THEOREM AnswersAreTrue == Spec => []AnswerIsTrue
<1>1. IInv => AnswerIsTrue
  <2> SUFFICES ASSUME IInv, said = "answers",
                      WellFormed(question.srcs), WellFormed(question.dests)
               PROVE  LET S == Selected(question.srcs, RangeOf(question))
                          T == Selected(question.dests, RangeOf(question))
                          one == Cardinality(S) = 1 /\ Cardinality(T) = 1
                      IN  /\ DOMAIN records = {p \in S \X T : p[1] < p[2]}
                          /\ \A p \in DOMAIN records :
                               records[p] = Truth(p[1], p[2], question, one)
    BY DEF AnswerIsTrue
  <2>1. /\ DOMAIN sourceList = Selected(question.srcs, RangeOf(question))
        /\ DOMAIN destList = Selected(question.dests, RangeOf(question))
    BY SelectedNone DEF IInv, Recorded, Fills
  <2>2. /\ DOMAIN records = {p \in (DOMAIN sourceList) \X (DOMAIN destList) : p[1] < p[2]}
        /\ \A p \in DOMAIN records :
             records[p] = Truth(p[1], p[2], question, isOne2OneQuery)
    BY DEF IInv, Recorded
  <2> QED
    BY <2>1, <2>2 DEF isOne2OneQuery
<1> QED
  BY <1>1, Inductive, PTL
=============================================================================
