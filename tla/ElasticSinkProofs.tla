------------------------- MODULE ElasticSinkProofs -------------------------
(***************************************************************************)
(* Proofs about ElasticSink, for any programs, indexes, events and faults: *)
(* what Write returned nil for is stored although nobody reads the answer  *)
(* for it, and every copy of an event has a fault of its own behind it.    *)
(***************************************************************************)
EXTENDS ElasticSink, FiniteSetTheorems, SequenceTheorems, TLAPS

USE ElasticAssumption DEF ElasticAssumption

(***************************************************************************)
(* The list CreateIndexes works through.                                   *)
(***************************************************************************)

\* A sequence of all elements of a finite set, each once, leaves none out.
LEMMA SetToSeqsOnto ==
  ASSUME NEW S, IsFiniteSet(S), NEW f \in SetToSeqs(S)
  PROVE  /\ Cardinality(S) \in Nat
         /\ f \in [1 .. Cardinality(S) -> S]
         /\ \A x \in S : \E n \in 1 .. Cardinality(S) : f[n] = x
<1> DEFINE D == 1 .. Cardinality(S)
<1>1. Cardinality(S) \in Nat
  BY FS_CardinalityType
<1>2. f \in [D -> S] /\ \A i, j \in D : i # j => f[i] # f[j]
  BY DEF SetToSeqs
<1>3. f \in Injection(D, S)
  BY <1>2 DEF Injection, IsInjective
<1>4. Cardinality(D) = Cardinality(S)
  BY <1>1, FS_Interval
<1>5. f \in Surjection(D, S)
  BY <1>3, <1>4, FS_Injection
<1> QED
  BY <1>1, <1>2, <1>5 DEF Surjection

LEMMA NeededAreIndexes ==
  /\ Needed \subseteq Index
  /\ \A n \in Number : IndexOf(n) \in Index
  /\ \A n \in Number : IndexOf(n) # NoIndex => IndexOf(n) \in Needed
BY DEF Needed, Index, IndexOf, Range

\* Every list CreateIndexes is called with has every index that is needed.
LEMMA ListsComplete ==
  ASSUME NEW list \in Lists
  PROVE  /\ list \in Seq(Index)
         /\ AutoCreateIndexes => Needed \subseteq Range(list)
<1>1. CASE ~AutoCreateIndexes
  BY <1>1 DEF Lists
<1>2. CASE AutoCreateIndexes
  <2> DEFINE first == IF DefaultIndex = NoIndex THEN <<>> ELSE <<DefaultIndex>>
  <2>1. PICK names \in SetToSeqs(DOMAIN EventIndexMap) :
          list = first \o [n \in DOMAIN names |-> EventIndexMap[names[n]]]
    BY <1>2 DEF Lists
  <2> DEFINE mapped == [n \in DOMAIN names |-> EventIndexMap[names[n]]]
             len == Cardinality(DOMAIN EventIndexMap)
  <2>2. /\ len \in Nat
        /\ names \in [1 .. len -> DOMAIN EventIndexMap]
        /\ \A x \in DOMAIN EventIndexMap : \E n \in 1 .. len : names[n] = x
    BY SetToSeqsOnto
  <2>3. mapped \in [1 .. len -> Index]
    BY <2>2 DEF Index, Range
  <2>4. mapped \in Seq(Index) /\ Len(mapped) = len
    BY <2>2, <2>3
  <2>5. first \in Seq(Index) /\ DefaultIndex \in Index
    BY DEF Index
  <2>6. \A x \in Range(EventIndexMap) : \E n \in 1 .. len : mapped[n] = x
    BY <2>2 DEF Range
  <2>7. list \in Seq(Index) /\ list = first \o mapped
    BY <2>1, <2>4, <2>5
  <2>8. Range(list) = Range(first) \cup Range(mapped)
    <3> HIDE DEF first, mapped, len
    <3> QED
      BY <2>4, <2>5, <2>7, RangeConcatenation
  <2>9. Range(EventIndexMap) \subseteq Range(mapped)
    <3>1. DOMAIN mapped = 1 .. len
      BY <2>3
    <3> HIDE DEF mapped, len
    <3> QED
      BY <2>6, <3>1 DEF Range
  <2>10. DefaultIndex # NoIndex => DefaultIndex \in Range(first)
    BY DEF Range
  <2> QED
    BY <2>7, <2>8, <2>9, <2>10 DEF Needed
<1> QED
  BY <1>1, <1>2

\* Working through a list.
LEMMA TailOf ==
  ASSUME NEW list \in Seq(Index), list # <<>>
  PROVE  /\ Head(list) \in Index
         /\ Tail(list) \in Seq(Index)
         /\ Len(list) = 1 <=> Tail(list) = <<>>
         /\ Range(list) \subseteq {Head(list)} \cup Range(Tail(list))
<1>1. Head(list) \in Index /\ Tail(list) \in Seq(Index)
  BY HeadTailProperties
<1>2. Len(Tail(list)) = Len(list) - 1 /\ Len(list) \in Nat /\ Len(list) > 0
  BY HeadTailProperties, EmptySeq
<1>3. Range(list) = {list[i] : i \in 1 .. Len(list)}
  BY RangeEquality
<1>4. Range(list) \subseteq {Head(list)} \cup Range(Tail(list))
  <2> SUFFICES ASSUME NEW i \in 1 .. Len(list), i # 1
               PROVE  list[i] \in Range(Tail(list))
    BY <1>2, <1>3
  <2> DEFINE k == i - 1
  <2>1. k \in 1 .. Len(list) - 1 /\ k + 1 = i
    BY <1>2
  <2>2. k \in 1 .. Len(Tail(list))
    BY <1>2, <2>1
  <2>3. Tail(list)[k] = list[i]
    <3> HIDE DEF k
    <3> QED
      BY <2>1, <2>2, HeadTailProperties
  <2>4. Range(Tail(list)) = {Tail(list)[n] : n \in 1 .. Len(Tail(list))}
    BY <1>1, RangeEquality
  <2> QED
    BY <2>2, <2>3, <2>4
<1>5. Len(list) = 1 <=> Tail(list) = <<>>
  <2>1. Tail(list) = <<>> <=> Len(Tail(list)) = 0
    BY <1>1, EmptySeq
  <2> QED
    BY <1>2, <2>1
<1> QED
  BY <1>1, <1>4, <1>5

(***************************************************************************)
(* The steps, by what they change.                                         *)
(***************************************************************************)
Places == {"closed", "info", "exists", "create", "open"}

\* The list of a program in Open: it is taken anew, given up, or what is taken
\* off it is in Elastic.
Relists(p, place, list) ==
  /\ pc' = [pc EXCEPT ![p] = place]
  /\ todo' = [todo EXCEPT ![p] = list]
  /\ list # <<>> <=> place \in {"exists", "create"}
  /\ place \in {"exists", "create", "open"} =>
       \/ list \in Lists
       \/ /\ pc[p] \in {"exists", "create", "open"}
          /\ Range(todo[p]) \subseteq indexes' \cup Range(list)

LEMMA StepKinds ==
  ASSUME [Next]_vars
  PROVE  \/ UNCHANGED vars
         \/ \E p \in Programs :
              \/ /\ Opening(p) \/ Close(p)
                 /\ UNCHANGED <<docs, deleted, at, saved, refused, repeats>>
              \/ Write(p) \/ WriteRefused(p) \/ WriteError(p)
              \/ Save(p) \/ BreakOff(p) \/ Kill(p)
         \/ \E i \in Index : Delete(i)
BY DEF Next, Opening, Open, Info, Exists, NotThere, Create, AlreadyExists,
   OpenError, OpenFails, Close, cluster

LEMMA FaultsGrow ==
  ASSUME TypeOK, [Next]_vars
  PROVE  faults' \in 0 .. MaxFaults /\ faults' >= faults
BY DEF TypeOK, Fault, Next, vars, Opening, Open, Info, Exists, NotThere, Create,
   AlreadyExists, OpenError, Close, Kill, Write, WriteRefused, WriteError, Save,
   BreakOff, Delete

\* What Open does to the list and the indexes.
LEMMA OpenStep ==
  ASSUME TypeOK, NEW p \in Programs, Opening(p) \/ Close(p) \/ Kill(p)
  PROVE  /\ \E place \in Places, list \in Seq(Index) : Relists(p, place, list)
         /\ indexes \subseteq indexes' /\ indexes' \subseteq Index
<1> USE DEF TypeOK
<1>0. /\ todo[p] \in Seq(Index) /\ <<>> \in Seq(Index)
      /\ todo = [todo EXCEPT ![p] = todo[p]] /\ pc[p] \in Places
  BY EmptySeq DEF Places
<1>h. todo[p] # <<>> => Head(todo[p]) \in Index
  BY <1>0, TailOf
<1>1. CASE Open(p) \/ Close(p)
  <2>1. /\ pc' = [pc EXCEPT ![p] = IF Open(p) THEN "info" ELSE "closed"]
        /\ UNCHANGED <<todo, indexes>> /\ todo[p] = <<>>
    BY <1>1 DEF Open, Close, Goto, cluster
  <2>2. \E place \in {"info", "closed"} : pc' = [pc EXCEPT ![p] = place]
    BY <2>1
  <2> QED
    BY <1>0, <2>1, <2>2 DEF Relists, Places
<1>2. CASE Info(p)
  <2>1. PICK list \in Lists :
          /\ todo' = [todo EXCEPT ![p] = list]
          /\ pc' = [pc EXCEPT ![p] = IF list = <<>> THEN "open" ELSE "exists"]
    BY <1>2 DEF Info, Goto
  <2>2. Relists(p, IF list = <<>> THEN "open" ELSE "exists", list)
    BY <2>1 DEF Relists
  <2>3. list \in Seq(Index) /\ UNCHANGED indexes
    BY <1>2, ListsComplete DEF Info, cluster
  <2> QED
    BY <2>2, <2>3 DEF Places
<1>3. CASE Exists(p) \/ Create(p)
  <2> DEFINE place == IF Len(todo[p]) = 1 THEN "open" ELSE "exists"
             list == Tail(todo[p])
  <2>1. /\ todo[p] # <<>> /\ pc[p] \in {"exists", "create"} /\ Proceed(p)
        /\ Head(todo[p]) \in indexes' /\ indexes \subseteq indexes'
        /\ indexes' \subseteq indexes \cup {Head(todo[p])}
    BY <1>3 DEF Exists, Create, cluster
  <2>2. /\ pc' = [pc EXCEPT ![p] = place] /\ todo' = [todo EXCEPT ![p] = list]
    BY <2>1 DEF Proceed, Goto
  <2>3. /\ list \in Seq(Index) /\ (list # <<>> <=> place = "exists")
        /\ Range(todo[p]) \subseteq {Head(todo[p])} \cup Range(list)
    BY <1>0, <2>1, TailOf
  <2>4. Relists(p, place, list)
    <3> HIDE DEF list
    <3> QED
      BY <2>1, <2>2, <2>3 DEF Relists
  <2>5. place \in Places
    BY DEF Places
  <2> HIDE DEF place, list
  <2> QED
    BY <1>h, <2>1, <2>3, <2>4, <2>5
<1>4. CASE NotThere(p)
  <2>1. /\ pc' = [pc EXCEPT ![p] = "create"] /\ UNCHANGED <<todo, indexes>>
        /\ pc[p] = "exists"
    BY <1>4 DEF NotThere, Goto, cluster
  <2> QED
    BY <1>0, <2>1 DEF Relists, Places
<1>5. CASE AlreadyExists(p) \/ OpenError(p) \/ Kill(p)
  <2>1. /\ pc' = [pc EXCEPT ![p] = "closed"]
        /\ todo' = [todo EXCEPT ![p] = <<>>]
    BY <1>5 DEF AlreadyExists, OpenError, OpenFails, Kill, Goto
  <2>2. indexes' = indexes \/ (pc[p] = "create" /\ indexes' = indexes \cup {Head(todo[p])})
    BY <1>5 DEF AlreadyExists, OpenError, Kill, cluster
  <2>3. Relists(p, "closed", <<>>)
    BY <2>1 DEF Relists
  <2> QED
    BY <1>0, <1>h, <2>2, <2>3 DEF Places
<1> QED
  BY <1>1, <1>2, <1>3, <1>4, <1>5 DEF Opening

\* What a program writes is an event, and its index is one of the indexes.
LEMMA WriteEvent ==
  ASSUME TypeOK, NEW p \in Programs, Writing(p)
  PROVE  /\ <<p, at[p]>> \in Event
         /\ IndexOf(at[p]) \in Index
         /\ at[p] \in Nat
BY NeededAreIndexes DEF TypeOK, Writing, Event, Number

(***************************************************************************)
(* The documents: once when Write returns, once more for every fault that  *)
(* makes the program write the event again.                                *)
(***************************************************************************)
EventInv(e) ==
  /\ repeats[e] <= faults
  /\ docs[e] <= repeats[e] + 1
  /\ ~Returned(e) => docs[e] <= repeats[e]

\* A fault while a program writes: a request may be carried out unheard, and
\* the poll may start again behind the saved position.
FaultStep(p) ==
  /\ faults' = faults + 1
  /\ UNCHANGED saved
  /\ \E stored \in SUBSET (Event \cap {<<p, at[p]>>}), again \in {{}, Unsaved(p)} :
       /\ docs' = [e \in Event |-> docs[e] + IF e \in stored THEN 1 ELSE 0]
       /\ repeats' = [e \in Event |->
                        repeats[e] + IF e \in stored \cup again THEN 1 ELSE 0]
       /\ at' = [at EXCEPT ![p] = IF again = {} THEN at[p] ELSE saved[p] + 1]

\* Nothing is read again when nothing was written behind the saved position.
LEMMA NothingUnsaved ==
  ASSUME TypeOK, DocsInv, NEW p \in Programs, Unsaved(p) = {}
  PROVE  at[p] = saved[p] + 1
<1>1. at[p] \in Nat /\ saved[p] \in Nat /\ saved[p] < at[p]
  BY DEF TypeOK, DocsInv
<1>2. ASSUME saved[p] + 1 < at[p] PROVE FALSE
  <2>1. <<p, saved[p] + 1>> \in Unsaved(p)
    BY <1>1, <1>2 DEF Unsaved
  <2> QED
    BY <2>1
<1> QED
  BY <1>1, <1>2

LEMMA FaultKinds ==
  ASSUME TypeOK, DocsInv, NEW p \in Programs, WriteError(p) \/ BreakOff(p) \/ Kill(p)
  PROVE  FaultStep(p)
<1> USE DEF TypeOK
<1>1. /\ faults' = faults + 1 /\ UNCHANGED saved
  BY DEF WriteError, BreakOff, Kill, Fault, EndPoll, program
<1>2. \A e \in Event : docs[e] + 0 = docs[e]
  OBVIOUS
<1>3. docs = [e \in Event |-> docs[e] + IF e \in {} THEN 1 ELSE 0]
  BY <1>2
<1>4. at[p] = [at EXCEPT ![p] = at[p]][p] /\ at = [at EXCEPT ![p] = at[p]]
  OBVIOUS
<1>5. Unsaved(p) = {} => [at EXCEPT ![p] = saved[p] + 1] = at
  <2>1. Unsaved(p) = {} => saved[p] + 1 = at[p]
    BY NothingUnsaved
  <2> QED
    BY <1>4, <2>1
<1>6. CASE BreakOff(p) \/ Kill(p)
  <2>1. /\ UNCHANGED docs
        /\ repeats' = [e \in Event |-> repeats[e] + IF e \in {} \cup Unsaved(p) THEN 1 ELSE 0]
        /\ at' = [at EXCEPT ![p] = saved[p] + 1]
    BY <1>6 DEF BreakOff, Kill, EndPoll, Repeat, cluster
  <2>2. at' = [at EXCEPT ![p] = IF Unsaved(p) = {} THEN at[p] ELSE saved[p] + 1]
    BY <1>4, <1>5, <2>1
  <2> QED
    BY <1>1, <1>3, <2>1, <2>2 DEF FaultStep
<1>7. CASE WriteError(p)
  <2>0. <<p, at[p]>> \in Event
    BY <1>7, WriteEvent DEF WriteError
  <2>1. PICK stored \in SUBSET {<<p, at[p]>>} :
          /\ \/ stored = {} /\ UNCHANGED cluster
             \/ stored # {} /\ Accepts(IndexOf(at[p])) /\ Store(p)
          /\ \/ UNCHANGED program /\ Repeat(stored)
             \/ EndPoll(p) /\ Repeat(stored \cup Unsaved(p))
    BY <1>7 DEF WriteError
  <2>2. docs' = [e \in Event |-> docs[e] + IF e \in stored THEN 1 ELSE 0]
    <3>1. CASE stored = {}
      BY <1>3, <2>1, <3>1 DEF cluster
    <3>2. CASE stored # {}
      <4>1. stored = Payload(p)
        BY <2>1, <3>2 DEF Payload
      <4> QED
        BY <2>1, <3>2, <4>1 DEF Store
    <3> QED
      BY <3>1, <3>2
  <2>3. stored \in SUBSET (Event \cap {<<p, at[p]>>})
    BY <2>0, <2>1
  <2>4. CASE UNCHANGED program /\ Repeat(stored)
    <3>1. /\ repeats' = [e \in Event |-> repeats[e] + IF e \in stored \cup {} THEN 1 ELSE 0]
          /\ at' = [at EXCEPT ![p] = IF {} = {} THEN at[p] ELSE saved[p] + 1]
      BY <1>4, <2>4 DEF Repeat, program
    <3> QED
      BY <1>1, <2>2, <2>3, <3>1 DEF FaultStep
  <2>5. CASE EndPoll(p) /\ Repeat(stored \cup Unsaved(p))
    <3>1. /\ repeats' = [e \in Event |->
                           repeats[e] + IF e \in stored \cup Unsaved(p) THEN 1 ELSE 0]
          /\ at' = [at EXCEPT ![p] = IF Unsaved(p) = {} THEN at[p] ELSE saved[p] + 1]
      BY <1>4, <1>5, <2>5 DEF Repeat, EndPoll
    <3> QED
      BY <1>1, <2>2, <2>3, <3>1 DEF FaultStep
  <2> QED
    BY <2>1, <2>4, <2>5
<1> QED
  BY <1>6, <1>7

\* What a step has to keep, for the types and the invariant of the documents.
DocsKept ==
  /\ docs' \in [Event -> 0 .. MaxFaults + 1]
  /\ repeats' \in [Event -> 0 .. MaxFaults]
  /\ at' \in [Programs -> 1 .. Len(Kinds) + 1]
  /\ saved' \in [Programs -> 0 .. Len(Kinds)]
  /\ DocsInv'

\* It is enough to look at every program and every event.
LEMMA DocsKeptIf ==
  ASSUME TypeOK, faults' \in 0 .. MaxFaults,
         DOMAIN docs' = Event, docs' = [e \in Event |-> docs'[e]],
         repeats' = [e \in Event |-> repeats'[e]],
         at' = [p \in Programs |-> at'[p]],
         saved' = [p \in Programs |-> saved'[p]],
         \A p \in Programs : /\ at'[p] \in 1 .. Len(Kinds) + 1
                             /\ saved'[p] \in Nat /\ saved'[p] < at'[p],
         \A e \in Event : docs'[e] \in Nat /\ repeats'[e] \in Nat /\ EventInv(e)'
  PROVE  DocsKept
<1>0. Len(Kinds) \in Nat
  BY LenProperties
<1>1. ASSUME NEW e \in Event
      PROVE  docs'[e] \in 0 .. MaxFaults + 1 /\ repeats'[e] \in 0 .. MaxFaults
  <2>1. /\ docs'[e] \in Nat /\ repeats'[e] \in Nat
        /\ repeats'[e] <= faults' /\ docs'[e] <= repeats'[e] + 1
    BY DEF EventInv
  <2> QED
    BY <2>1
<1>2. \A p \in Programs : saved'[p] \in 0 .. Len(Kinds)
  BY <1>0
<1>3. DocsInv'
  <2>1. ASSUME NEW e \in Event
        PROVE  /\ repeats'[e] <= faults'
               /\ docs'[e] <= repeats'[e] + IF Returned(e)' THEN 1 ELSE 0
    <3>1. docs'[e] \in Nat /\ repeats'[e] \in Nat /\ EventInv(e)'
      OBVIOUS
    <3> QED
      BY <3>1 DEF EventInv
  <2> QED
    BY <2>1 DEF DocsInv
<1> QED
  BY <1>1, <1>2, <1>3 DEF DocsKept

LEMMA EventFacts ==
  ASSUME TypeOK, DocsInv
  PROVE  /\ Len(Kinds) \in Nat /\ faults \in Nat
         /\ \A e \in Event :
              /\ e[1] \in Programs /\ e[2] \in Nat /\ e = <<e[1], e[2]>>
              /\ docs[e] \in Nat /\ repeats[e] \in Nat /\ EventInv(e)
         /\ \A p \in Programs :
              /\ at[p] \in 1 .. Len(Kinds) + 1 /\ at[p] \in Nat
              /\ saved[p] \in Nat /\ saved[p] < at[p]
<1>1. Len(Kinds) \in Nat
  BY LenProperties
<1>2. ASSUME NEW e \in Event
      PROVE  e[1] \in Programs /\ e[2] \in Nat /\ e = <<e[1], e[2]>>
  BY DEF Event, Number
<1>3. ASSUME NEW e \in Event
      PROVE  docs[e] \in Nat /\ repeats[e] \in Nat /\ EventInv(e)
  <2>1. docs[e] \in Nat /\ repeats[e] \in Nat
    BY DEF TypeOK
  <2>2. /\ repeats[e] <= faults
        /\ docs[e] <= repeats[e] + IF Returned(e) THEN 1 ELSE 0
    BY DEF DocsInv
  <2> QED
    BY <2>1, <2>2 DEF EventInv
<1>4. /\ faults \in Nat
      /\ \A p \in Programs : /\ at[p] \in 1 .. Len(Kinds) + 1 /\ at[p] \in Nat
                             /\ saved[p] \in Nat /\ saved[p] < at[p]
  BY <1>1 DEF TypeOK, DocsInv
<1> QED
  BY <1>1, <1>2, <1>3, <1>4

\* The invariant of an event is kept when its numbers and the faults allow it.
LEMMA EventKept ==
  ASSUME NEW e \in Event, docs'[e] \in Nat, repeats'[e] \in Nat,
         repeats'[e] <= faults', docs'[e] <= repeats'[e] + 1,
         Returned(e)' \/ docs'[e] <= repeats'[e]
  PROVE  docs'[e] \in Nat /\ repeats'[e] \in Nat /\ EventInv(e)'
BY DEF EventInv

\* Write returns nil: the event is stored once, or refused.
LEMMA ReturnStep ==
  ASSUME TypeOK, DocsInv, NEW p \in Programs, Write(p) \/ WriteRefused(p),
         faults' \in 0 .. MaxFaults, faults' >= faults
  PROVE  DocsKept
<1>0. Writing(p)
  BY DEF Write, WriteRefused
<1>1. PICK e0 \in Event : e0 = <<p, at[p]>>
  BY <1>0, WriteEvent
<1>2. /\ at' = [at EXCEPT ![p] = @ + 1] /\ UNCHANGED <<saved, repeats>>
  BY DEF Write, WriteRefused, Returns
<1>3. \/ docs' = [e \in Event |-> docs[e] + IF e = e0 THEN 1 ELSE 0]
      \/ UNCHANGED docs
  BY <1>1 DEF Write, WriteRefused, Store, Payload, cluster
<1>4. at[p] \in 1 .. Len(Kinds) /\ Len(Kinds) \in Nat
  BY <1>0, EventFacts DEF Writing, Number
<1>5. ASSUME NEW q \in Programs
      PROVE  /\ at'[q] \in 1 .. Len(Kinds) + 1
             /\ saved'[q] \in Nat /\ saved'[q] < at'[q]
  <2>1. at'[q] = IF q = p THEN at[q] + 1 ELSE at[q]
    BY <1>2 DEF TypeOK
  <2>2. /\ at[q] \in 1 .. Len(Kinds) + 1 /\ saved[q] \in Nat /\ saved[q] < at[q]
        /\ Len(Kinds) \in Nat
    BY EventFacts
  <2>3. q = p => at[q] \in 1 .. Len(Kinds)
    BY <1>4
  <2>4. saved'[q] = saved[q]
    BY <1>2
  <2> QED
    BY <2>1, <2>2, <2>3, <2>4
<1>6. ASSUME NEW e \in Event
      PROVE  docs'[e] \in Nat /\ repeats'[e] \in Nat /\ EventInv(e)'
  <2>1. /\ e[1] \in Programs /\ e[2] \in Nat /\ e = <<e[1], e[2]>>
        /\ docs[e] \in Nat /\ repeats[e] \in Nat /\ EventInv(e)
        /\ at[e[1]] \in Nat /\ faults \in Nat
    BY EventFacts
  <2>2. at'[e[1]] = IF e[1] = p THEN at[e[1]] + 1 ELSE at[e[1]]
    BY <1>2, <2>1 DEF TypeOK
  <2>3. Returned(e) => Returned(e)'
    BY <2>1, <2>2 DEF Returned
  <2>a. /\ repeats[e] <= faults /\ docs[e] <= repeats[e] + 1
        /\ ~Returned(e) => docs[e] <= repeats[e]
    BY <2>1 DEF EventInv
  <2>b. repeats'[e] = repeats[e] /\ repeats'[e] <= faults'
    BY <1>2, <2>1, <2>a
  <2>4. CASE docs'[e] = docs[e]
    <3>1. docs'[e] \in Nat /\ docs'[e] <= repeats'[e] + 1
      BY <2>1, <2>4, <2>a, <2>b
    <3>2. Returned(e)' \/ docs'[e] <= repeats'[e]
      BY <2>3, <2>4, <2>a, <2>b
    <3> QED
      BY <2>1, <2>b, <3>1, <3>2, EventKept
  <2>5. CASE e = e0 /\ docs'[e] = docs[e] + 1
    <3>1. e[1] = p /\ e[2] = at[p]
      BY <1>1, <2>5
    <3>2. ~Returned(e) /\ Returned(e)'
      BY <2>1, <2>2, <3>1 DEF Returned
    <3>3. docs'[e] \in Nat /\ docs'[e] <= repeats'[e] + 1
      BY <2>1, <2>5, <2>a, <2>b, <3>2
    <3> QED
      BY <2>1, <2>b, <3>2, <3>3, EventKept
  <2>6. docs'[e] = docs[e] \/ (e = e0 /\ docs'[e] = docs[e] + 1)
    <3>1. CASE docs' = [f \in Event |-> docs[f] + IF f = e0 THEN 1 ELSE 0]
      <4>1. docs'[e] = docs[e] + IF e = e0 THEN 1 ELSE 0
        BY <3>1
      <4> QED
        BY <2>1, <4>1
    <3> QED
      BY <1>3, <3>1
  <2> QED
    BY <2>4, <2>5, <2>6
<1>7. /\ docs' = [e \in Event |-> docs'[e]] /\ DOMAIN docs' = Event
      /\ repeats' = [e \in Event |-> repeats'[e]]
      /\ at' = [q \in Programs |-> at'[q]] /\ saved' = [q \in Programs |-> saved'[q]]
  BY <1>2, <1>3 DEF TypeOK
<1> QED
  BY <1>5, <1>6, <1>7, DocsKeptIf

LEMMA FaultDocs ==
  ASSUME TypeOK, DocsInv, NEW p \in Programs, FaultStep(p), faults' \in 0 .. MaxFaults
  PROVE  DocsKept
<1>1. PICK stored \in SUBSET (Event \cap {<<p, at[p]>>}), again \in {{}, Unsaved(p)} :
       /\ docs' = [e \in Event |-> docs[e] + IF e \in stored THEN 1 ELSE 0]
       /\ repeats' = [e \in Event |->
                        repeats[e] + IF e \in stored \cup again THEN 1 ELSE 0]
       /\ at' = [at EXCEPT ![p] = IF again = {} THEN at[p] ELSE saved[p] + 1]
  BY DEF FaultStep
<1>2. faults' = faults + 1 /\ UNCHANGED saved
  BY DEF FaultStep
<1>3. ASSUME NEW q \in Programs
      PROVE  /\ at'[q] \in 1 .. Len(Kinds) + 1
             /\ saved'[q] \in Nat /\ saved'[q] < at'[q]
  <2>1. at'[q] = at[q] \/ at'[q] = saved[q] + 1
    BY <1>1
  <2>2. /\ at[q] \in 1 .. Len(Kinds) + 1 /\ saved[q] \in Nat /\ saved[q] < at[q]
        /\ Len(Kinds) \in Nat
    BY EventFacts
  <2>3. saved'[q] = saved[q]
    BY <1>2
  <2> QED
    BY <2>1, <2>2, <2>3
<1>4. ASSUME NEW e \in Event
      PROVE  docs'[e] \in Nat /\ repeats'[e] \in Nat /\ EventInv(e)'
  <2>1. /\ e[1] \in Programs /\ e[2] \in Nat /\ e = <<e[1], e[2]>>
        /\ docs[e] \in Nat /\ repeats[e] \in Nat /\ EventInv(e)
        /\ at[e[1]] \in Nat /\ saved[e[1]] \in Nat /\ faults \in Nat
        /\ saved[e[1]] < at[e[1]]
    BY EventFacts
  <2>2. /\ docs'[e] = docs[e] + IF e \in stored THEN 1 ELSE 0
        /\ repeats'[e] = repeats[e] + IF e \in stored \cup again THEN 1 ELSE 0
    BY <1>1
  <2>3. e \in stored => ~Returned(e)
    <3> SUFFICES ASSUME e \in stored PROVE ~Returned(e)
      OBVIOUS
    <3>1. e = <<p, at[p]>>
      BY <1>1
    <3>2. e[1] = p /\ e[2] = at[p]
      BY <3>1
    <3> QED
      BY <2>1, <3>2 DEF Returned
  <2>4. Returned(e) /\ ~Returned(e)' => e \in again
    <3> SUFFICES ASSUME Returned(e), ~Returned(e)' PROVE e \in again
      OBVIOUS
    <3>1. e[1] = p /\ again # {} /\ at'[p] = saved[p] + 1
      BY <1>1, <2>1 DEF Returned
    <3>2. e[2] < at[p] /\ ~(e[2] < saved[p] + 1)
      BY <3>1 DEF Returned
    <3>3. e[2] \in saved[p] + 1 .. at[p] - 1
      BY <2>1, <3>1, <3>2
    <3>4. e \in Unsaved(p)
      BY <2>1, <3>1, <3>3 DEF Unsaved
    <3> QED
      BY <1>1, <3>1, <3>4
  <2> HIDE DEF Event
  <2>5. e \in stored \cup again <=> (e \in stored \/ e \in again)
    OBVIOUS
  <2>a. /\ repeats[e] <= faults /\ docs[e] <= repeats[e] + 1
        /\ ~Returned(e) => docs[e] <= repeats[e]
    BY <2>1 DEF EventInv
  <2>6. /\ docs'[e] \in Nat /\ repeats'[e] \in Nat /\ repeats'[e] <= faults'
        /\ repeats'[e] >= repeats[e]
    <3>1. repeats'[e] = repeats[e] \/ repeats'[e] = repeats[e] + 1
      BY <2>1, <2>2
    <3>2. docs'[e] \in Nat
      BY <2>1, <2>2
    <3> QED
      BY <1>2, <2>1, <2>a, <3>1, <3>2
  <2>7. docs'[e] <= repeats'[e] + 1
    BY <2>1, <2>2, <2>3, <2>5, <2>a
  <2>8. Returned(e)' \/ docs'[e] <= repeats'[e]
    <3>1. CASE Returned(e) /\ ~Returned(e)'
      <4>1. e \notin stored /\ e \in again
        BY <2>3, <2>4, <3>1
      <4>2. docs'[e] = docs[e] + 0 /\ repeats'[e] = repeats[e] + 1
        BY <2>2, <4>1
      <4> QED
        BY <2>1, <2>a, <4>2
    <3>2. CASE ~Returned(e)
      <4>1. docs[e] <= repeats[e]
        BY <2>a, <3>2
      <4> QED
        BY <2>1, <2>2, <2>5, <4>1
    <3> QED
      BY <3>1, <3>2
  <2> QED
    BY <2>6, <2>7, <2>8, EventKept
<1>5. /\ docs' = [e \in Event |-> docs'[e]] /\ DOMAIN docs' = Event
      /\ repeats' = [e \in Event |-> repeats'[e]]
      /\ at' = [q \in Programs |-> at'[q]] /\ saved' = [q \in Programs |-> saved'[q]]
  BY <1>1, <1>2 DEF TypeOK
<1> QED
  BY <1>3, <1>4, <1>5, DocsKeptIf

LEMMA DocsStep ==
  ASSUME TypeOK, DocsInv, [Next]_vars
  PROVE  DocsKept /\ refused' \subseteq Event
<1> USE DEF TypeOK
<1>0. faults' \in 0 .. MaxFaults /\ faults' >= faults /\ faults \in 0 .. MaxFaults
  BY FaultsGrow
<1>1. CASE UNCHANGED <<docs, at, saved, refused, repeats>>
  <2>1. \A e \in Event : EventInv(e)'
    BY <1>0, <1>1, EventFacts DEF EventInv, Returned
  <2> QED
    BY <1>0, <1>1, <2>1 DEF DocsKept, DocsInv, EventInv
<1>2. ASSUME NEW p \in Programs, Write(p) \/ WriteRefused(p)
      PROVE  DocsKept /\ refused' \subseteq Event
  <2>1. refused' \subseteq Event
    BY <1>2, WriteEvent DEF Write, WriteRefused
  <2> QED
    BY <1>0, <1>2, <2>1, ReturnStep
<1>3. ASSUME NEW p \in Programs, WriteError(p) \/ BreakOff(p) \/ Kill(p)
      PROVE  DocsKept /\ refused' \subseteq Event
  <2>1. UNCHANGED refused
    BY <1>3 DEF WriteError, BreakOff, Kill
  <2> QED
    BY <1>0, <1>3, <2>1, FaultKinds, FaultDocs
<1>4. ASSUME NEW p \in Programs, Save(p)
      PROVE  DocsKept /\ refused' \subseteq Event
  <2>1. /\ saved' = [saved EXCEPT ![p] = at[p] - 1]
        /\ UNCHANGED <<docs, at, refused, repeats>>
    BY <1>4 DEF Save, cluster
  <2>2. \A q \in Programs : /\ at'[q] \in 1 .. Len(Kinds) + 1
                            /\ saved'[q] \in Nat /\ saved'[q] < at'[q]
    BY <2>1, EventFacts
  <2>3. \A e \in Event : docs'[e] \in Nat /\ repeats'[e] \in Nat /\ EventInv(e)'
    <3>1. UNCHANGED <<docs, at, repeats>> /\ faults' = faults
      BY <1>4, <2>1 DEF Save
    <3>2. \A e \in Event : docs[e] \in Nat /\ repeats[e] \in Nat /\ EventInv(e)
      BY EventFacts
    <3> QED
      BY <3>1, <3>2 DEF EventInv, Returned
  <2> QED
    BY <1>0, <2>1, <2>2, <2>3, DocsKeptIf
<1>5. ASSUME NEW i \in Index, Delete(i)
      PROVE  DocsKept /\ refused' \subseteq Event
  <2>1. /\ docs' = [e \in Event |-> IF IndexOf(e[2]) = i THEN 0 ELSE docs[e]]
        /\ UNCHANGED <<at, saved, refused, repeats>>
    BY <1>5 DEF Delete, program
  <2>2. ASSUME NEW e \in Event
        PROVE  docs'[e] \in Nat /\ repeats'[e] \in Nat /\ EventInv(e)'
    <3>1. docs'[e] \in {0, docs[e]}
      BY <2>1
    <3>2. docs[e] \in Nat /\ repeats[e] \in Nat /\ EventInv(e)
      BY EventFacts
    <3> QED
      BY <1>0, <2>1, <3>1, <3>2 DEF EventInv, Returned
  <2>3. \A q \in Programs : /\ at'[q] \in 1 .. Len(Kinds) + 1
                            /\ saved'[q] \in Nat /\ saved'[q] < at'[q]
    BY <2>1, EventFacts
  <2> QED
    BY <1>0, <2>1, <2>2, <2>3, DocsKeptIf
<1> QED
  BY <1>1, <1>2, <1>3, <1>4, <1>5, StepKinds DEF vars, cluster, program

(***************************************************************************)
(* The indexes: there, deleted, or still on the list.                      *)
(***************************************************************************)
LEMMA IndexesKept ==
  ASSUME TypeOK, [Next]_vars
  PROVE  /\ indexes' \subseteq Index /\ deleted' \subseteq Index
         /\ indexes \cup deleted \subseteq indexes' \cup deleted'
         /\ deleted \subseteq deleted'
<1> USE DEF TypeOK
<1>1. CASE UNCHANGED vars
  BY <1>1 DEF vars, cluster
<1>2. ASSUME NEW p \in Programs, Opening(p) \/ Close(p), UNCHANGED deleted
      PROVE  /\ indexes' \subseteq Index /\ deleted' \subseteq Index
             /\ indexes \cup deleted \subseteq indexes' \cup deleted'
             /\ deleted \subseteq deleted'
  BY <1>2, OpenStep
<1>5. ASSUME NEW p \in Programs, Save(p) \/ BreakOff(p) \/ Kill(p)
      PROVE  UNCHANGED <<indexes, deleted>>
  BY <1>5 DEF Save, BreakOff, Kill, cluster
<1>3. ASSUME NEW p \in Programs, Write(p) \/ WriteRefused(p) \/ WriteError(p)
      PROVE  /\ indexes' \subseteq Index /\ deleted' \subseteq Index
             /\ indexes \cup deleted \subseteq indexes' \cup deleted'
             /\ deleted \subseteq deleted'
  <2>1. Writing(p)
    BY <1>3 DEF Write, WriteRefused, WriteError
  <2>2. UNCHANGED deleted /\ indexes' \in {indexes, indexes \cup {IndexOf(at[p])}}
    BY <1>3 DEF Write, WriteRefused, WriteError, Store, cluster
  <2> QED
    BY <2>1, <2>2, WriteEvent
<1>4. ASSUME NEW i \in Index, Delete(i)
      PROVE  /\ indexes' \subseteq Index /\ deleted' \subseteq Index
             /\ indexes \cup deleted \subseteq indexes' \cup deleted'
             /\ deleted \subseteq deleted'
  BY <1>4 DEF Delete
<1> QED
  BY <1>1, <1>2, <1>3, <1>4, <1>5, StepKinds

\* Only Open, Close and the end of a program touch its place and its list.
LEMMA PlacesKept ==
  ASSUME TypeOK, [Next]_vars
  PROVE  \/ UNCHANGED <<pc, todo>>
         \/ \E p \in Programs, place \in Places, list \in Seq(Index) :
              Relists(p, place, list)
<1>1. ASSUME NEW p \in Programs, Opening(p) \/ Close(p) \/ Kill(p)
      PROVE  \E place \in Places, list \in Seq(Index) : Relists(p, place, list)
  BY <1>1, OpenStep
<1>2. ASSUME NEW p \in Programs,
             Write(p) \/ WriteRefused(p) \/ Save(p) \/ BreakOff(p)
      PROVE  UNCHANGED <<pc, todo>>
  BY <1>2 DEF Write, WriteRefused, Save, BreakOff, EndPoll, Returns, program
<1>4. ASSUME NEW p \in Programs, WriteError(p)
      PROVE  \/ UNCHANGED <<pc, todo>>
             \/ \E place \in Places, list \in Seq(Index) : Relists(p, place, list)
  <2>1. /\ UNCHANGED todo /\ pc' \in {pc, [pc EXCEPT ![p] = "closed"]}
        /\ pc[p] = "open"
    BY <1>4 DEF WriteError, EndPoll, program, Writing
  <2>2. todo[p] = <<>> /\ todo[p] \in Seq(Index) /\ todo = [todo EXCEPT ![p] = todo[p]]
    BY <2>1 DEF TypeOK
  <2>3. CASE pc' = [pc EXCEPT ![p] = "closed"]
    <3>1. Relists(p, "closed", todo[p])
      BY <2>1, <2>2, <2>3 DEF Relists
    <3> QED
      BY <2>2, <3>1 DEF Places
  <2> QED
    BY <2>1, <2>3
<1>3. ASSUME NEW i \in Index, Delete(i)
      PROVE  UNCHANGED <<pc, todo>>
  BY <1>3 DEF Delete, program
<1> QED
  BY <1>1, <1>2, <1>3, <1>4, StepKinds DEF vars, program

LEMMA IndexStep ==
  ASSUME TypeOK, IndexInv, [Next]_vars
  PROVE  IndexInv'
<1> SUFFICES ASSUME AutoCreateIndexes, NEW q \in Programs,
                    pc'[q] \in {"exists", "create", "open"}
             PROVE  Needed \subseteq indexes' \cup deleted' \cup Range(todo'[q])
  BY DEF IndexInv
<1>0. indexes \cup deleted \subseteq indexes' \cup deleted'
  BY IndexesKept
<1>1. pc[q] \in {"exists", "create", "open"} =>
        Needed \subseteq indexes \cup deleted \cup Range(todo[q])
  BY DEF IndexInv
<1>2. CASE pc'[q] = pc[q] /\ todo'[q] = todo[q]
  BY <1>0, <1>1, <1>2
<1>3. ASSUME NEW place \in Places, NEW list \in Seq(Index), Relists(q, place, list)
      PROVE  Needed \subseteq indexes' \cup deleted' \cup Range(todo'[q])
  <2>1. pc'[q] = place /\ todo'[q] = list
    BY <1>3 DEF TypeOK, Relists
  <2>2. CASE list \in Lists
    BY <2>1, <2>2, ListsComplete
  <2>3. CASE /\ pc[q] \in {"exists", "create", "open"}
             /\ Range(todo[q]) \subseteq indexes' \cup Range(list)
    BY <1>0, <1>1, <2>1, <2>3
  <2> QED
    BY <1>3, <2>1, <2>2, <2>3 DEF Relists
<1>4. ASSUME NEW p \in Programs, NEW place \in Places, NEW list \in Seq(Index),
             Relists(p, place, list), p # q
      PROVE  pc'[q] = pc[q] /\ todo'[q] = todo[q]
  BY <1>4 DEF TypeOK, Relists
<1> QED
  BY <1>2, <1>3, <1>4, PlacesKept

(***************************************************************************)
(* What Write returned nil for.                                            *)
(***************************************************************************)

\* A program that writes with an index for every event finds it accepted, or
\* somebody has deleted it.
LEMMA Accepted ==
  ASSUME TypeOK, IndexInv, EveryEventHasIndex, NEW p \in Programs, Writing(p)
  PROVE  Accepts(IndexOf(at[p])) \/ IndexOf(at[p]) \in deleted
<1>1. IndexOf(at[p]) # NoIndex /\ IndexOf(at[p]) \in Needed
  BY NeededAreIndexes DEF EveryEventHasIndex, Writing
<1>2. CASE ClusterCreates
  BY <1>1, <1>2 DEF Accepts
<1>3. CASE AutoCreateIndexes
  <2>1. todo[p] = <<>>
    BY DEF Writing, TypeOK
  <2>2. Needed \subseteq indexes \cup deleted \cup Range(todo[p])
    BY <1>3 DEF IndexInv, Writing
  <2>3. Range(todo[p]) = {}
    BY <2>1 DEF Range
  <2> QED
    BY <1>1, <2>2, <2>3 DEF Accepts
<1> QED
  BY <1>2, <1>3 DEF EveryEventHasIndex

LEMMA StoredStep ==
  ASSUME TypeOK, IndexInv, DocsInv, EveryEventHasIndex, ReturnedIsStored,
         [Next]_vars
  PROVE  ReturnedIsStored'
<1> SUFFICES ASSUME NEW q \in Programs, NEW n \in 1 .. at'[q] - 1
             PROVE  \/ docs'[<<q, n>>] > 0
                    \/ <<q, n>> \in refused' \/ IndexOf(n) \in deleted'
  BY DEF ReturnedIsStored
<1> USE DEF TypeOK
<1>0. Len(Kinds) \in Nat
  BY LenProperties
<1>a. at' \in [Programs -> 1 .. Len(Kinds) + 1]
  BY DocsStep DEF DocsKept
<1>b. at'[q] \in 1 .. Len(Kinds) + 1
  BY <1>a
<1>c. n \in 1 .. Len(Kinds)
  BY <1>0, <1>b
<1>1. PICK e \in Event : e = <<q, n>>
  BY <1>c DEF Event, Number
<1>2. docs[e] \in Nat /\ at[q] \in Nat /\ n \in Nat
  BY <1>1 DEF Event, Number
<1>3. n < at[q] => docs[e] > 0 \/ e \in refused \/ IndexOf(n) \in deleted
  BY <1>1, <1>2 DEF ReturnedIsStored
<1>4. CASE /\ UNCHANGED <<docs, deleted, refused>>
           /\ at'[q] \in {at[q], saved[q] + 1}
  <2>1. saved[q] \in Nat /\ saved[q] < at[q]
    BY DEF DocsInv
  <2> QED
    BY <1>1, <1>2, <1>3, <1>4, <2>1
<1>5. ASSUME NEW p \in Programs, Write(p) \/ WriteRefused(p) \/ WriteError(p)
      PROVE  docs'[e] > 0 \/ e \in refused' \/ IndexOf(n) \in deleted'
  <2>1. Writing(p) /\ UNCHANGED deleted /\ refused \subseteq refused'
    BY <1>5 DEF Write, WriteRefused, WriteError, Store, cluster
  <2>2. docs'[e] >= docs[e] /\ docs'[e] \in Nat
    <3>1. CASE UNCHANGED docs
      BY <1>2, <3>1
    <3>2. CASE docs' = [f \in Event |-> docs[f] + IF f \in Payload(p) THEN 1 ELSE 0]
      BY <1>2, <3>2
    <3> QED
      BY <1>5, <3>1, <3>2 DEF Write, WriteRefused, WriteError, Store, cluster
  <2>3. CASE n < at[q]
    BY <1>2, <1>3, <2>1, <2>2, <2>3
  <2>4. CASE ~(n < at[q])
    <3>0. saved[q] \in Nat /\ saved[q] < at[q]
      BY DEF DocsInv
    <3>a. \/ at' = [at EXCEPT ![p] = at[p] + 1]
          \/ at' = at
          \/ at' = [at EXCEPT ![p] = saved[p] + 1]
      BY <1>5 DEF Write, WriteRefused, WriteError, EndPoll, Returns, program
    <3>b. \/ p = q /\ at'[q] = at[q] + 1
          \/ at'[q] = at[q]
          \/ at'[q] = saved[q] + 1
      BY <3>a
    <3>c. n \in Nat /\ n <= at'[q] - 1 /\ n >= at[q]
      BY <1>2, <1>b, <2>4
    <3>d. at[q] \in Nat /\ at'[q] # at[q] /\ at'[q] # saved[q] + 1
      BY <1>2, <3>0, <3>c
    <3>e. p = q /\ at'[q] = at[q] + 1
      BY <3>b, <3>d
    <3>1. p = q /\ at'[q] = at[q] + 1 /\ n = at[q]
      BY <3>c, <3>d, <3>e
    <3>2. CASE Write(p)
      <4>1. docs' = [f \in Event |-> docs[f] + IF f \in Payload(p) THEN 1 ELSE 0]
        BY <3>2 DEF Write, Store
      <4>2. e \in Payload(p)
        BY <1>1, <3>1 DEF Payload
      <4> QED
        BY <1>2, <4>1, <4>2
    <3>3. CASE WriteRefused(p) /\ ~Accepts(IndexOf(at[p]))
      BY <2>1, <3>1, <3>3, Accepted
    <3>4. CASE WriteRefused(p) /\ refused' = refused \cup {<<p, at[p]>>}
      BY <1>1, <3>1, <3>4
    <3>5. CASE WriteError(p)
      BY <1>2, <3>0, <3>1, <3>5 DEF WriteError, EndPoll, program
    <3> QED
      BY <1>5, <3>2, <3>3, <3>4, <3>5 DEF WriteRefused
  <2> QED
    BY <2>3, <2>4
<1>6. ASSUME NEW i \in Index, Delete(i)
      PROVE  docs'[e] > 0 \/ e \in refused' \/ IndexOf(n) \in deleted'
  <2>1. /\ UNCHANGED <<at, refused>> /\ deleted' = deleted \cup {i}
        /\ docs'[e] = IF IndexOf(n) = i THEN 0 ELSE docs[e]
    BY <1>1, <1>6 DEF Delete, program
  <2> QED
    BY <1>2, <1>3, <2>1
<1>7. ASSUME NEW p \in Programs, Save(p) \/ BreakOff(p) \/ Kill(p)
      PROVE  /\ UNCHANGED <<docs, deleted, refused>>
             /\ at'[q] \in {at[q], saved[q] + 1}
  BY <1>7 DEF Save, BreakOff, Kill, EndPoll, cluster
<1> QED
  BY <1>1, <1>4, <1>5, <1>6, <1>7, StepKinds DEF vars, cluster, program

(***************************************************************************)
(* The invariant.                                                          *)
(***************************************************************************)
LEMMA TypeStep ==
  ASSUME TypeOK, DocsInv, [Next]_vars
  PROVE  TypeOK'
<1>1. /\ docs' \in [Event -> 0 .. MaxFaults + 1]
      /\ at' \in [Programs -> 1 .. Len(Kinds) + 1]
      /\ saved' \in [Programs -> 0 .. Len(Kinds)]
      /\ refused' \subseteq Event /\ repeats' \in [Event -> 0 .. MaxFaults]
  BY DocsStep DEF DocsKept
<1>2. indexes' \subseteq Index /\ deleted' \subseteq Index
  BY IndexesKept
<1>3. faults' \in 0 .. MaxFaults
  BY FaultsGrow
<1>4. /\ pc' \in [Programs -> {"closed", "info", "exists", "create", "open"}]
      /\ todo' \in [Programs -> Seq(Index)]
      /\ \A p \in Programs : todo'[p] # <<>> <=> pc'[p] \in {"exists", "create"}
  <2>1. CASE UNCHANGED <<pc, todo>>
    BY <2>1 DEF TypeOK
  <2>2. ASSUME NEW p \in Programs, NEW place \in Places, NEW list \in Seq(Index),
               Relists(p, place, list)
        PROVE  /\ pc' \in [Programs -> Places]
               /\ todo' \in [Programs -> Seq(Index)]
               /\ \A r \in Programs : todo'[r] # <<>> <=> pc'[r] \in {"exists", "create"}
    BY <2>2 DEF Relists, TypeOK, Places
  <2> QED
    BY <2>1, <2>2, PlacesKept DEF Places
<1> QED
  BY <1>1, <1>2, <1>3, <1>4 DEF TypeOK

LEMMA InitInv == Init => IInv
<1> SUFFICES ASSUME Init PROVE IInv
  OBVIOUS
<1>0. Len(Kinds) \in Nat /\ <<>> \in Seq(Index)
  BY LenProperties, EmptySeq
<1>1. TypeOK
  BY <1>0 DEF Init, TypeOK
<1>2. IndexInv
  BY DEF Init, IndexInv
<1>3. DocsInv
  <2>1. \A e \in Event : docs[e] = 0 /\ repeats[e] = 0
    BY DEF Init
  <2> QED
    BY <2>1 DEF Init, DocsInv
<1>4. ReturnedIsStored
  BY DEF Init, ReturnedIsStored
<1> QED
  BY <1>1, <1>2, <1>3, <1>4 DEF IInv

\* Every conjunct of IInv is there because a step lemma above uses it:
\* ReturnedIsStored alone is not inductive, it says nothing of the indexes.
THEOREM InvariantHolds == Spec => []IInv
<1>1. IInv /\ [Next]_vars => IInv'
  BY TypeStep, IndexStep, DocsStep, StoredStep DEF IInv, EveryEventHasIndex, Number,
     IndexOf, DocsKept
<1> QED
  BY InitInv, <1>1, PTL DEF Spec

\* No state of the sink or of Elastic is outside the types (TypeOK).
THEOREM TypeCorrect == Spec => []TypeOK
<1>1. IInv => TypeOK
  BY DEF IInv
<1> QED
  BY InvariantHolds, <1>1, PTL

\* With an index for every event, whatever Write returned nil for is in Elastic,
\* or was refused or deleted there, for any number of programs that create the
\* indexes at once and any number of failures.
THEOREM ReturnedIsStoredHolds ==
  ASSUME EveryEventHasIndex
  PROVE  Spec => []ReturnedIsStored
<1>1. IInv => ReturnedIsStored
  BY DEF IInv
<1> QED
  BY InvariantHolds, <1>1, PTL

\* Every copy of an event beyond the first has a lost answer or a broken-off
\* poll of its own behind it, for any number of programs, events and faults
\* (CopiesHaveCause).
THEOREM CopiesHaveCauseHolds == Spec => []CopiesHaveCause
<1>1. IInv => CopiesHaveCause
  <2> SUFFICES ASSUME IInv, NEW e \in Event PROVE docs[e] <= 1 + repeats[e]
    BY DEF CopiesHaveCause
  <2>1. docs[e] <= repeats[e] + IF Returned(e) THEN 1 ELSE 0
    BY DEF IInv, DocsInv
  <2>2. docs[e] \in Nat /\ repeats[e] \in Nat
    BY DEF IInv, TypeOK
  <2> QED
    BY <2>1, <2>2
<1> QED
  BY InvariantHolds, <1>1, PTL
=============================================================================
