------------------------------ MODULE Question ------------------------------
(***************************************************************************)
(* One question to QueryCLI after another: QueryInRange (Query asks it for *)
(* the whole span).  The words of a question are looked up one by one      *)
(* (ParseVars) into two lists of instructions with their variables; then   *)
(* each source is paired with each later sink, the query tree is asked for *)
(* the flow from behind the source to the sink, and the flows between      *)
(* their variables are printed.  What the query tree answers is the flow   *)
(* of DataFlow: FlowTree is the model of how it is computed.               *)
(***************************************************************************)
EXTENDS DataFlow, FiniteSets, Functions

CONSTANTS
  Asm,        \* Asm[i]: the mnemonic of instruction i
  Syscalls,   \* the syscalls of the trace, in order: [instr_id, name]
  Span,       \* <<startPos, endPos>> of the query object
  Questions   \* what a user may ask

(* The words of a question, after the commas are split.  "index" is a      *)
(* number, "asm" a mnemonic, "name" the name of a syscall, "nth" a name    *)
(* with a number in brackets, "garbled" one whose brackets are wrong.      *)
Word == [kind : {"index", "asm", "name", "nth", "garbled"}, word : STRING, n : Int]
Types == {"syscall", "instr", "register", "memory"}
Directions == {"to", "forward", "backward"}

(* What can be typed after Query or QueryInRange.                          *)
Form == [range : {<<>>} \cup (Int \X Int), direction : STRING,
         srcType : STRING, srcs : Seq(Word), destType : STRING, dests : Seq(Word)]

ASSUME QuestionAssumption ==
  /\ DOMAIN Asm = 1..N
  /\ Syscalls \in Seq([instr_id : 1..N, name : STRING])
  /\ \A j, k \in DOMAIN Syscalls : j < k => Syscalls[j].instr_id < Syscalls[k].instr_id
  /\ Span \in (1..N) \X (1..N) /\ Span[1] <= Span[2]
  /\ Questions \subseteq Form

VARIABLES
  pc,          \* "prompt", "parse", "pairs", or "dead"
  question,
  side, todo,  \* the list being filled and the words to look up for it
  sourceList, destList,
  left,        \* the pairs of a source and a sink still to be visited
  records,     \* what was printed: records[pair] is the set of flows
  lastResult,  \* the matrices this pointer may be used for: at most one
  heap,        \* the matrices that are allocated
  said         \* how the last question ended

vars == <<pc, question, side, todo, sourceList, destList, left, records, lastResult,
          heap, said>>

Unasked == "none"
Answers == {"nothing", "unknown", "invalidRange", "noSource", "noDest", "exception", "answers"}

Lists == UNION {[S -> SUBSET Vars] : S \in SUBSET (DOMAIN Rules)}
TypeOK ==
  /\ pc \in {"prompt", "parse", "pairs", "dead"}
  /\ side \in {"source", "dest"}
  /\ sourceList \in Lists /\ destList \in Lists
  /\ left \subseteq (DOMAIN sourceList) \X (DOMAIN destList)
  /\ DOMAIN records \subseteq Window /\ Range(records) \subseteq SUBSET Pairs
  /\ lastResult \subseteq Window /\ heap \subseteq Window /\ Cardinality(lastResult) <= 1
  /\ said \in Answers

Init ==
  /\ pc = "prompt" /\ question = Unasked /\ side = "source" /\ todo = <<>>
  /\ sourceList = <<>> /\ destList = <<>> /\ left = {} /\ records = <<>>
  /\ lastResult = {} /\ heap = {} /\ said = "nothing"

-----------------------------------------------------------------------------
(* Lookups in the tables of the trace *)

RangeOf(q) == IF q.range = <<>> THEN Span ELSE q.range

(* GetInfluenceRangeByInstrIdx.                                            *)
HasRow(i) == i \in DOMAIN Rules

(* GetInstrIdxByASM: the instructions of the range whose text begins so.   *)
GetInstrIdxByASM(asm, range) == {i \in range[1]..range[2] : HasRow(i) /\ Asm[i] = asm}

(* The two statements of GetSyscallsByname: how many there are, and all of *)
(* them or the num-th.  -1: a row was expected and there is none.          *)
NamedIn(name, range) ==
  {k \in DOMAIN Syscalls : /\ Syscalls[k].name = name
                           /\ range[1] <= Syscalls[k].instr_id
                           /\ Syscalls[k].instr_id <= range[2]}

Chosen(named, num) == {k \in named : num = 0 \/ Cardinality({j \in named : j < k}) = num - 1}

GetSyscallsByname(name, range, num) ==
  LET named == NamedIn(name, range)
  IN  [ids |-> {Syscalls[k].instr_id : k \in Chosen(named, num)},
       die |-> num < 0 \/ (named # {} /\ Chosen(named, num) = {})]

(* What a word adds to a list.                                             *)
LookUp(type, w, range) ==
  CASE w.kind = "index" -> [ids |-> {w.n} \cap DOMAIN Rules, die |-> FALSE]
    [] w.kind = "asm" -> [ids |-> GetInstrIdxByASM(w.word, range), die |-> FALSE]
    [] w.kind = "name" -> GetSyscallsByname(w.word, range, 0)
    [] w.kind = "nth" -> GetSyscallsByname(w.word, range, w.n)

(* A slip: the set collects the entries of the row.                        *)
Enlarged_Entries(list, ids) ==
  [i \in (DOMAIN list) \cup (ids \cap DOMAIN Rules) |->
     (IF i \in DOMAIN list THEN list[i] ELSE {}) \cup Rules[i].m]

(* MakeSourceSinkSet, for each of them.                                    *)
Enlarged(list, ids) ==
  [i \in (DOMAIN list) \cup (ids \cap DOMAIN Rules) |->
     (IF i \in DOMAIN list THEN list[i] ELSE {}) \cup Rules[i].v]

-----------------------------------------------------------------------------
(* QueryInRange *)

(* How the head of a question can be refused.                             *)
Refusal(q) ==
  LET range == RangeOf(q)
  IN  CASE q.direction \notin Directions -> "unknown"
        [] range[1] > range[2] \/ range[1] < Span[1] \/ range[2] > Span[2] -> "invalidRange"
        [] ~ {q.srcType, q.destType} \subseteq Types -> "unknown"
        [] OTHER -> "no"

(* A slip: the last result is forgotten without being deleted.             *)
DeleteLastResult_Leaks == lastResult' = {} /\ UNCHANGED heap

DeleteLastResult == lastResult' = {} /\ heap' = heap \ lastResult

(* The last result goes before the arguments are looked at.                *)
Ask(q) ==
  /\ pc = "prompt"
  /\ question' = q
  /\ DeleteLastResult
  /\ sourceList' = <<>> /\ destList' = <<>> /\ left' = {} /\ records' = <<>>
  /\ side' = "source" /\ todo' = q.srcs
  /\ IF Refusal(q) = "no" THEN pc' = "parse" /\ said' = "nothing"
     ELSE pc' = "prompt" /\ said' = Refusal(q)

Type == IF side = "source" THEN question.srcType ELSE question.destType

(* A slip: the loop goes round again.                                      *)
AfterGarbled_Again == todo

AfterGarbled == <<>>

(* One word.  One that is garbled, or has the number -1, ends the list.    *)
ParseWord ==
  LET w == Head(todo)
      found == LookUp(Type, w, RangeOf(question))
  IN  /\ pc = "parse" /\ todo # <<>> /\ Type \in {"syscall", "instr"}
      /\ IF w.kind = "garbled" \/ (w.kind = "nth" /\ w.n = -1)
         THEN todo' = AfterGarbled /\ UNCHANGED <<pc, sourceList, destList>>
         ELSE IF found.die
         THEN pc' = "dead" /\ UNCHANGED <<todo, sourceList, destList>>
         ELSE /\ todo' = Tail(todo)
              /\ IF side = "source"
                 THEN sourceList' = Enlarged(sourceList, found.ids) /\ UNCHANGED destList
                 ELSE destList' = Enlarged(destList, found.ids) /\ UNCHANGED sourceList
              /\ UNCHANGED pc
  /\ UNCHANGED <<question, side, left, records, lastResult, heap, said>>

(* Registers and memory are refused with an exception; the CLI library     *)
(* catches it.                                                             *)
Throw ==
  /\ pc = "parse" /\ Type \in {"register", "memory"}
  /\ pc' = "prompt" /\ said' = "exception"
  /\ UNCHANGED <<question, side, todo, sourceList, destList, left, records, lastResult, heap>>

NextSide ==
  /\ pc = "parse" /\ todo = <<>> /\ side = "source" /\ Type \in {"syscall", "instr"}
  /\ side' = "dest" /\ todo' = question.dests
  /\ UNCHANGED <<pc, question, sourceList, destList, left, records, lastResult, heap, said>>

Select ==
  /\ pc = "parse" /\ todo = <<>> /\ side = "dest" /\ Type \in {"syscall", "instr"}
  /\ LET refused == IF DOMAIN sourceList = {} THEN "noSource"
                    ELSE IF DOMAIN destList = {} THEN "noDest" ELSE "no"
     IN  IF refused = "no"
         THEN pc' = "pairs" /\ left' = (DOMAIN sourceList) \X (DOMAIN destList) /\ UNCHANGED said
         ELSE pc' = "prompt" /\ said' = refused /\ UNCHANGED left
  /\ UNCHANGED <<question, side, todo, sourceList, destList, records, lastResult, heap>>

isOne2OneQuery == Cardinality(DOMAIN sourceList) = 1 /\ Cardinality(DOMAIN destList) = 1

(* The loops run over the instructions in ascending order.                 *)
Before(p, q) == p[1] < q[1] \/ (p[1] = q[1] /\ p[2] < q[2])
NextPair == CHOOSE p \in left : \A q \in left : p = q \/ Before(p, q)

(* FMQuery::Query: the entries and the valid indices of a range.           *)
QueryMatrix(l, r) ==
  LET valid == UNION {Rules[i].v : i \in DOMAIN Rules \cap l..r}
  IN  Flows[<<l, r>>] \cap (valid \X valid)

Skip == /\ pc = "pairs" /\ left # {} /\ NextPair[1] >= NextPair[2]
        /\ left' = left \ {NextPair}
        /\ UNCHANGED <<pc, question, side, todo, sourceList, destList, records,
                       lastResult, heap, said>>

Widened(set, more, mode) == IF question.direction = mode /\ isOne2OneQuery THEN set \cup more ELSE set

(* A slip: the query begins at the source itself.                          *)
Between_WithSource(p) == p

(* What a pair asks the query tree for.                                    *)
Between(p) == <<p[1] + 1, p[2]>>

(* One pair: the flow from behind the source to the sink.  Out of the span *)
(* the program ends; it may, too, when there is no flow at all (FlowTree). *)
(* A pair without a flow between its variables has an empty record.        *)
Pair ==
  LET p == NextPair
      w == Between(p)
      result_mat == QueryMatrix(w[1], w[2])
      sources == Widened(sourceList[p[1]], {e[1] : e \in result_mat}, "backward")
      sinks == Widened(destList[p[2]], {e[2] : e \in result_mat}, "forward")
  IN  /\ pc = "pairs" /\ left # {} /\ p[1] < p[2]
      /\ \/ /\ Span[1] <= w[1] /\ w[2] <= Span[2]
            /\ heap' = IF isOne2OneQuery THEN heap \cup {w} ELSE heap
            /\ lastResult' = IF isOne2OneQuery THEN {w} ELSE lastResult
            /\ sourceList' = [sourceList EXCEPT ![p[1]] = sources]
            /\ destList' = [destList EXCEPT ![p[2]] = sinks]
            /\ records' = [x \in (DOMAIN records) \cup {p} |->
                 IF x = p THEN result_mat \cap (sources \X sinks) ELSE records[x]]
            /\ left' = left \ {p} /\ UNCHANGED pc
         \/ /\ w[1] < Span[1] \/ w[2] > Span[2] \/ result_mat = {}
            /\ pc' = "dead"
            /\ UNCHANGED <<heap, lastResult, sourceList, destList, records, left>>
      /\ UNCHANGED <<question, side, todo, said>>

Answer ==
  /\ pc = "pairs" /\ left = {}
  /\ pc' = "prompt" /\ said' = "answers"
  /\ UNCHANGED <<question, side, todo, sourceList, destList, left, records, lastResult, heap>>

Next == \/ \E q \in Questions : Ask(q)
        \/ ParseWord \/ Throw \/ NextSide \/ Select \/ Skip \/ Pair \/ Answer

(* The program goes through a question by itself.                          *)
Fairness == WF_vars(ParseWord) /\ WF_vars(Throw) /\ WF_vars(NextSide) /\ WF_vars(Select)
              /\ WF_vars(Skip) /\ WF_vars(Pair) /\ WF_vars(Answer)

Spec == Init /\ [][Next]_vars /\ Fairness

-----------------------------------------------------------------------------
(* Properties *)

(* The k-th syscall of a name, counted from 1 as the README says.          *)
IsNth(i, name, k, range) ==
  /\ \E s \in NamedIn(name, range) : Syscalls[s].instr_id = i
  /\ k = 0 \/ Cardinality({s \in NamedIn(name, range) : Syscalls[s].instr_id <= i}) = k

Means(w, i, range) ==
  CASE w.kind = "index" -> i = w.n
    [] w.kind = "asm" -> i \in range[1]..range[2] /\ Asm[i] = w.word
    [] w.kind = "name" -> IsNth(i, w.word, 0, range)
    [] w.kind = "nth" -> IsNth(i, w.word, w.n, range)
    [] OTHER -> FALSE

Selected(words, range) == {i \in DOMAIN Rules : \E k \in DOMAIN words : Means(words[k], i, range)}

WellFormed(words) == \A k \in DOMAIN words : words[k].kind # "garbled" /\ words[k].n # -1

(* A flow from the variables of s, just behind s, to those of d, behind d. *)
Truth(s, d, q, one) ==
  LET m == QueryMatrix(s + 1, d)
  IN  {e \in m : /\ e[1] \in Rules[s].v \/ (one /\ q.direction = "backward")
                 /\ e[2] \in Rules[d].v \/ (one /\ q.direction = "forward")}

(* The answer to a well-formed question has a record for each source and   *)
(* each later sink it selects, and the record holds exactly the flows      *)
(* between them: the sets of one pair are not left over from another.      *)
AnswerIsTrue ==
  said = "answers" /\ pc = "prompt" /\ WellFormed(question.srcs) /\ WellFormed(question.dests) =>
    LET S == Selected(question.srcs, RangeOf(question))
        T == Selected(question.dests, RangeOf(question))
        one == Cardinality(S) = 1 /\ Cardinality(T) = 1
    IN  /\ DOMAIN records = {p \in S \X T : p[1] < p[2]}
        /\ \A p \in DOMAIN records : records[p] = Truth(p[1], p[2], question, one)

(* At the prompt the only matrix that is allocated is the last result, and *)
(* the last result is allocated: none leaks, none is used after delete.    *)
MatricesFreed == pc = "prompt" => heap = lastResult

(* A question comes to an end, if only to that of the program.             *)
QuestionsEnd == (pc = "parse") ~> (pc \in {"prompt", "dead"})

=============================================================================
