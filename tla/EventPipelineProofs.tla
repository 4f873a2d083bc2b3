------------------------ MODULE EventPipelineProofs ------------------------
(***************************************************************************)
(* Proofs about EventPipeline, for any configurations, kinds of events and *)
(* databases: every value the server recorded is in the event, a database  *)
(* name that was looked up is that of the event's own database, what is    *)
(* sent was asked for, no value is lost among the adds, copies and moves,  *)
(* and the order they are gone through in does not show when none meets    *)
(* another.                                                                *)
(***************************************************************************)
EXTENDS EventPipeline, SequenceTheorems, TLAPS

(***************************************************************************)
(* Paths.                                                                  *)
(***************************************************************************)
LEMMA PrefixIs ==
  ASSUME NEW K, NEW p \in Seq(K), NEW q \in Seq(K)
  PROVE  IsPrefix(p, q) <=> /\ Len(p) <= Len(q)
                            /\ \A i \in 1 .. Len(p) : p[i] = q[i]
<1>1. CASE Len(p) <= Len(q)
  <2>1. /\ SubSeq(p, 1, Len(p)) \in Seq(K) /\ SubSeq(q, 1, Len(p)) \in Seq(K)
        /\ Len(SubSeq(p, 1, Len(p))) = Len(p)
        /\ Len(SubSeq(q, 1, Len(p))) = Len(p)
        /\ \A i \in 1 .. Len(p) : /\ SubSeq(p, 1, Len(p))[i] = p[i]
                                  /\ SubSeq(q, 1, Len(p))[i] = q[i]
    BY <1>1
  <2>2. SubSeq(p, 1, Len(p)) = SubSeq(q, 1, Len(p)) <=>
          \A i \in 1 .. Len(p) : p[i] = q[i]
    BY <2>1, SeqEqual
  <2> QED
    BY <1>1, <2>2 DEF IsPrefix
<1>2. CASE ~(Len(p) <= Len(q))
  BY <1>2 DEF IsPrefix
<1> QED
  BY <1>1, <1>2

\* What q has below p, put below s.
Below(p, s, q) == s \o SubSeq(q, Len(p) + 1, Len(q))

IsBelow(b, p, s, q, K) ==
  /\ b \in Seq(K)
  /\ Len(b) = Len(s) + Len(q) - Len(p)
  /\ \A i \in 1 .. Len(s) : b[i] = s[i]
  /\ \A i \in 1 .. Len(q) - Len(p) : b[Len(s) + i] = q[Len(p) + i]

LEMMA BelowIs ==
  ASSUME NEW K, NEW p \in Seq(K), NEW s \in Seq(K), NEW q \in Seq(K), Len(p) <= Len(q)
  PROVE  IsBelow(Below(p, s, q), p, s, q, K)
<1>1. PICK t : t = SubSeq(q, Len(p) + 1, Len(q))
  OBVIOUS
<1>2. /\ t \in Seq(K) /\ Len(t) = Len(q) - Len(p)
      /\ \A i \in 1 .. Len(q) - Len(p) : t[i] = q[Len(p) + i]
  <2>1. CASE Len(p) = Len(q)
    BY <1>1, <2>1
  <2>2. CASE Len(p) < Len(q)
    <3>1. Len(p) + 1 \in 1 .. Len(q) /\ Len(q) \in Nat /\ Len(p) \in Nat
      BY <2>2
    <3> QED
      BY <1>1, <3>1
  <2> QED
    BY <2>1, <2>2
<1>3. PICK b : b = s \o t
  OBVIOUS
<1>4. b \in Seq(K) /\ Len(b) = Len(s) + Len(t)
  <2>1. t \in Seq(K)
    BY <1>2
  <2>2. s \o t \in Seq(K)
    BY <2>1
  <2>3. Len(s \o t) = Len(s) + Len(t)
    BY <2>1
  <2> QED
    BY <1>3, <2>2, <2>3
<1>5. \A i \in 1 .. Len(s) : b[i] = s[i]
  BY <1>2, <1>3
<1>6. \A i \in 1 .. Len(t) : b[Len(s) + i] = t[i]
  BY <1>2, <1>3
<1>7. Len(s) \in Nat /\ Len(q) \in Nat /\ Len(p) \in Nat
  OBVIOUS
<1>8. Len(b) = Len(s) + Len(q) - Len(p)
  BY <1>2, <1>4, <1>7
<1>9. \A i \in 1 .. Len(q) - Len(p) : b[Len(s) + i] = q[Len(p) + i]
  BY <1>2, <1>6
<1>10. Below(p, s, q) = b
  BY <1>1, <1>3 DEF Below
<1>11. IsBelow(b, p, s, q, K)
  BY <1>4, <1>5, <1>8, <1>9 DEF IsBelow
<1> QED
  BY <1>10, <1>11

LEMMA SamePath ==
  ASSUME NEW K, NEW p \in Seq(K), NEW s \in Seq(K), NEW q \in Seq(K), NEW u \in Seq(K),
         IsPrefix(p, q), IsPrefix(p, u), Below(p, s, q) = Below(p, s, u)
  PROVE  q = u
<1>1. /\ Len(p) <= Len(q) /\ Len(p) <= Len(u)
      /\ \A i \in 1 .. Len(p) : p[i] = q[i] /\ p[i] = u[i]
  BY PrefixIs
<1>2. PICK b : b = Below(p, s, q)
  OBVIOUS
<1>3. /\ Len(b) = Len(s) + Len(q) - Len(p)
      /\ \A i \in 1 .. Len(q) - Len(p) : b[Len(s) + i] = q[Len(p) + i]
  <2>1. IsBelow(b, p, s, q, K)
    BY <1>1, <1>2, BelowIs
  <2> QED
    BY <2>1 DEF IsBelow
<1>4. /\ Len(b) = Len(s) + Len(u) - Len(p)
      /\ \A i \in 1 .. Len(u) - Len(p) : b[Len(s) + i] = u[Len(p) + i]
  <2>1. IsBelow(b, p, s, u, K)
    BY <1>1, <1>2, BelowIs
  <2> QED
    BY <2>1 DEF IsBelow
<1>5. Len(q) = Len(u)
  BY <1>3, <1>4
<1>6. ASSUME NEW i \in 1 .. Len(q) PROVE q[i] = u[i]
  <2>1. CASE i <= Len(p)
    BY <1>1, <2>1
  <2>2. CASE i > Len(p)
    <3>1. PICK j \in 1 .. Len(q) - Len(p) : i = Len(p) + j
      <4>1. i - Len(p) \in 1 .. Len(q) - Len(p) /\ i = Len(p) + (i - Len(p))
        BY <2>2
      <4> QED
        BY <4>1
    <3> QED
      BY <1>3, <1>4, <1>5, <3>1
  <2> QED
    BY <2>1, <2>2
<1> QED
  BY <1>5, <1>6, SeqEqual

\* A path below s is below p only if s is, or if s is itself above p.
LEMMA StaysBelow ==
  ASSUME NEW K, NEW p \in Seq(K), NEW s \in Seq(K), NEW q \in Seq(K),
         IsPrefix(p, q), IsPrefix(p, Below(p, s, q))
  PROVE  IsPrefix(p, s) \/ IsPrefix(s, q)
<1>1. Len(p) <= Len(q) /\ \A i \in 1 .. Len(p) : p[i] = q[i]
  BY PrefixIs
<1>2. PICK b : b = Below(p, s, q)
  OBVIOUS
<1>3. b \in Seq(K) /\ \A i \in 1 .. Len(s) : b[i] = s[i]
  <2>1. IsBelow(b, p, s, q, K)
    BY <1>1, <1>2, BelowIs
  <2> QED
    BY <2>1 DEF IsBelow
<1>4. Len(p) <= Len(b) /\ \A i \in 1 .. Len(p) : p[i] = b[i]
  <2>1. IsPrefix(p, b)
    BY <1>2
  <2> QED
    BY <1>3, <2>1, PrefixIs
<1>5. CASE Len(p) <= Len(s)
  <2>1. \A i \in 1 .. Len(p) : p[i] = s[i]
    BY <1>3, <1>4, <1>5
  <2> QED
    BY <1>5, <2>1, PrefixIs
<1>6. CASE Len(s) < Len(p)
  <2>1. \A i \in 1 .. Len(s) : s[i] = q[i]
    BY <1>1, <1>3, <1>4, <1>6
  <2>2. Len(s) <= Len(q)
    BY <1>1, <1>6
  <2> QED
    BY <2>1, <2>2, PrefixIs
<1> QED
  BY <1>5, <1>6

(***************************************************************************)
(* Records: a function from paths to values.                               *)
(***************************************************************************)
LEMMA PrefixTransitive ==
  ASSUME NEW K, NEW p \in Seq(K), NEW q \in Seq(K), NEW u \in Seq(K),
         IsPrefix(p, q), IsStrictPrefix(q, u)
  PROVE  IsStrictPrefix(p, u)
<1>1. /\ Len(p) <= Len(q) /\ \A i \in 1 .. Len(p) : p[i] = q[i]
      /\ Len(q) <= Len(u) /\ \A i \in 1 .. Len(q) : q[i] = u[i]
  BY PrefixIs DEF IsStrictPrefix
<1>2. Len(q) # Len(u)
  <2>1. Len(q) = Len(u) => q = u
    BY <1>1, SeqEqual
  <2> QED
    BY <2>1 DEF IsStrictPrefix
<1>3. Len(p) < Len(u)
  BY <1>1, <1>2
<1>4. IsPrefix(p, u)
  <2>1. Len(p) <= Len(u) /\ \A i \in 1 .. Len(p) : p[i] = u[i]
    BY <1>1, <1>3
  <2> QED
    BY <2>1, PrefixIs
<1> QED
  BY <1>3, <1>4 DEF IsStrictPrefix

\* A record whose scalars are not above p is not changed to make way for p.
ClearOf(r, p) == \A q \in DOMAIN r : ~IsStrictPrefix(q, p)

LEMMA OpenedIs ==
  ASSUME NEW r, NEW p, ClearOf(r, p)
  PROVE  /\ DOMAIN Opened(r, p) = DOMAIN r
         /\ \A q \in DOMAIN r : Opened(r, p)[q] = r[q]
BY DEF ClearOf, Opened, Restrict

IsGrafted(g, r, p, s, K) ==
  /\ DOMAIN g = DOMAIN r \cup {Below(p, s, q) : q \in Leaves(r, p)}
  /\ DOMAIN g \subseteq Seq(K)
  /\ \A q \in DOMAIN r : g[q] = r[q]
  /\ \A q \in Leaves(r, p) : g[Below(p, s, q)] = Converted(r[q], q = p)

LEMMA GraftedIs ==
  ASSUME NEW K, NEW r, DOMAIN r \subseteq Seq(K), NEW p \in Seq(K), NEW s \in Seq(K),
         ~Exists(r, s), ClearOf(r, s)
  PROVE  IsGrafted(Grafted(r, p, s), r, p, s, K)
<1> DEFINE new == {Below(p, s, q) : q \in Leaves(r, p)}
           source(b) == CHOOSE q \in Leaves(r, p) : Below(p, s, q) = b
           graft == [b \in DOMAIN r \cup new |->
                       IF b \in new THEN Converted(r[source(b)], source(b) = p) ELSE r[b]]
<1>1. Grafted(r, p, s) = graft
  <2>1. DOMAIN Opened(r, s) = DOMAIN r
    BY OpenedIs
  <2> QED
    BY <2>1 DEF Grafted, Below
<1>2. \A q \in Leaves(r, p) : /\ q \in DOMAIN r /\ q \in Seq(K)
                              /\ IsPrefix(p, q) /\ Len(p) <= Len(q)
  BY PrefixIs DEF Leaves
<1>3. ASSUME NEW q \in Leaves(r, p)
      PROVE  Below(p, s, q) \in Seq(K) /\ Below(p, s, q) \notin DOMAIN r
  <2>1. PICK b : b = Below(p, s, q)
    OBVIOUS
  <2>2. /\ b \in Seq(K) /\ Len(b) = Len(s) + Len(q) - Len(p)
        /\ \A i \in 1 .. Len(s) : b[i] = s[i]
    <3>1. IsBelow(b, p, s, q, K)
      BY <1>2, <2>1, BelowIs
    <3> QED
      BY <3>1 DEF IsBelow
  <2>3. Len(s) <= Len(b)
    BY <1>2, <2>2
  <2>4. IsPrefix(s, b)
    BY <2>2, <2>3, PrefixIs
  <2> QED
    BY <2>1, <2>2, <2>4 DEF Exists, Leaves
<1>4. ASSUME NEW q \in Leaves(r, p) PROVE source(Below(p, s, q)) = q
  <2>1. \E u \in Leaves(r, p) : Below(p, s, u) = Below(p, s, q)
    OBVIOUS
  <2>2. PICK u : u = source(Below(p, s, q))
    OBVIOUS
  <2>3. u \in Leaves(r, p) /\ Below(p, s, u) = Below(p, s, q)
    BY <2>1, <2>2
  <2>4. u = q
    BY <1>2, <2>3, SamePath
  <2> QED
    BY <2>2, <2>4
<1> HIDE DEF source
<1>5. \A q \in DOMAIN r : q \notin new
  BY <1>3
<1>6. \A q \in Leaves(r, p) : graft[Below(p, s, q)] = Converted(r[q], q = p)
  BY <1>4
<1>7. \A q \in DOMAIN r : graft[q] = r[q]
  BY <1>5
<1>8. DOMAIN graft = DOMAIN r \cup new /\ DOMAIN graft \subseteq Seq(K)
  BY <1>3
<1> HIDE DEF graft
<1>9. IsGrafted(graft, r, p, s, K)
  BY <1>6, <1>7, <1>8 DEF IsGrafted
<1> QED
  BY <1>1, <1>9

IsDeleted(d, r, p) ==
  /\ DOMAIN d = DOMAIN r \ Leaves(r, p)
  /\ \A q \in DOMAIN r \ Leaves(r, p) : d[q] = r[q]

LEMMA DeleteIs ==
  ASSUME NEW r, NEW p
  PROVE  IsDeleted(Delete(r, p), r, p)
BY DEF IsDeleted, Delete, Restrict

IsPut(g, r, k) ==
  /\ DOMAIN g = DOMAIN r \cup {k}
  /\ \A q \in DOMAIN r : q # k => g[q] = r[q]

LEMMA PutIs ==
  ASSUME NEW r, NEW k, NEW v
  PROVE  IsPut(Put(r, k, v), r, k)
BY DEF IsPut, Put

LEMMA PutAllIs ==
  ASSUME NEW r, NEW s
  PROVE  DOMAIN PutAll(r, s) = DOMAIN r \cup DOMAIN s
BY DEF PutAll


(***************************************************************************)
(* One entry of a map.  When no value lies above a destination, in D, and  *)
(* no destination above another, this stays so; what is not taken away     *)
(* stays, and what is taken away is elsewhere, converted or not, unless an *)
(* object is moved into itself.                                            *)
(***************************************************************************)
Kept(x) == {x, Converted(x, TRUE), Converted(x, FALSE)}

Keeps(r, out, D, K, taken) ==
  /\ DOMAIN out \subseteq Seq(K)
  /\ \A d \in D : ClearOf(out, d)
  /\ \A q \in DOMAIN r \ taken : q \in DOMAIN out /\ out[q] = r[q]
  /\ \A q \in DOMAIN r : \E b \in DOMAIN out : out[b] \in Kept(r[q])

LEMMA SameKeeps ==
  ASSUME NEW K, NEW D, NEW r, DOMAIN r \subseteq Seq(K), \A d \in D : ClearOf(r, d), NEW taken
  PROVE  Keeps(r, r, D, K, taken)
BY DEF Keeps, Kept

LEMMA AddKeeps ==
  ASSUME NEW K, NEW r, DOMAIN r \subseteq Seq(K), NEW D \in SUBSET Seq(K),
         \A d \in D : ClearOf(r, d), \A d, e \in D : ~IsStrictPrefix(d, e),
         NEW p \in D, NEW v
  PROVE  Keeps(r, AddEntry(r, p, v).rec, D, K, {})
<1>1. CASE Exists(r, p)
  BY <1>1, SameKeeps DEF AddEntry, Stopped
<1>2. CASE ~Exists(r, p)
  <2>1. PICK o : o = Opened(r, p)
    OBVIOUS
  <2>2. DOMAIN o = DOMAIN r /\ \A q \in DOMAIN r : o[q] = r[q]
    <3>1. /\ DOMAIN Opened(r, p) = DOMAIN r
          /\ \A q \in DOMAIN r : Opened(r, p)[q] = r[q]
      BY OpenedIs
    <3> QED
      BY <2>1, <3>1
  <2>3. PICK g : g = Put(o, p, AddedValue(v))
    OBVIOUS
  <2>4. DOMAIN g = DOMAIN o \cup {p} /\ \A q \in DOMAIN o : q # p => g[q] = o[q]
    <3>1. IsPut(g, o, p)
      BY <2>3, PutIs
    <3> QED
      BY <3>1 DEF IsPut
  <2>5. p \notin DOMAIN r
    <3>1. p \in Seq(K)
      OBVIOUS
    <3>2. IsPrefix(p, p)
      BY <3>1, PrefixIs
    <3> QED
      BY <1>2, <3>2 DEF Exists, Leaves
  <2>6. AddEntry(r, p, v).rec = g
    BY <1>2, <2>1, <2>3 DEF AddEntry, GoneOn
  <2>7. \A q \in DOMAIN r : q \in DOMAIN g /\ g[q] = r[q]
    BY <2>2, <2>4, <2>5
  <2>8. \A d \in D : ClearOf(g, d)
    BY <2>2, <2>4 DEF ClearOf
  <2>9. DOMAIN g \subseteq Seq(K)
    BY <2>2, <2>4
  <2>10. Keeps(r, g, D, K, {})
    BY <2>7, <2>8, <2>9 DEF Keeps, Kept
  <2> QED
    BY <2>6, <2>10
<1> QED
  BY <1>1, <1>2

\* What is grafted lies below a destination, so above none.
LEMMA GraftedClear ==
  ASSUME NEW K, NEW r, DOMAIN r \subseteq Seq(K), NEW D \in SUBSET Seq(K),
         \A d \in D : ClearOf(r, d), \A d, e \in D : ~IsStrictPrefix(d, e),
         NEW p \in Seq(K), NEW s \in D, NEW g, IsGrafted(g, r, p, s, K)
  PROVE  \A d \in D : ClearOf(g, d)
<1> SUFFICES ASSUME NEW d \in D, NEW b \in DOMAIN g PROVE ~IsStrictPrefix(b, d)
  BY DEF ClearOf
<1>1. CASE b \in DOMAIN r
  BY <1>1 DEF ClearOf
<1>2. CASE b \notin DOMAIN r
  <2>1. PICK q \in Leaves(r, p) : b = Below(p, s, q)
    BY <1>2 DEF IsGrafted
  <2>2. q \in Seq(K) /\ s \in Seq(K) /\ IsPrefix(p, q)
    BY <2>1 DEF Leaves
  <2>3. Len(p) <= Len(q)
    BY <2>2, PrefixIs
  <2>4. IsBelow(b, p, s, q, K)
    BY <2>1, <2>2, <2>3, BelowIs
  <2>5. IsPrefix(s, b)
    <3>1. /\ b \in Seq(K) /\ Len(b) = Len(s) + Len(q) - Len(p)
          /\ \A i \in 1 .. Len(s) : b[i] = s[i]
      BY <2>4 DEF IsBelow
    <3>2. Len(s) \in Nat /\ Len(q) \in Nat /\ Len(p) \in Nat
      BY <2>2
    <3>3. Len(s) <= Len(b)
      BY <2>3, <3>1, <3>2
    <3> QED
      BY <2>2, <3>1, <3>3, PrefixIs
  <2>6. b \in Seq(K) /\ d \in Seq(K)
    BY <2>4 DEF IsBelow
  <2> QED
    BY <2>2, <2>5, <2>6, PrefixTransitive
<1> QED
  BY <1>1, <1>2

LEMMA CopyKeeps ==
  ASSUME NEW K, NEW r, DOMAIN r \subseteq Seq(K), NEW D \in SUBSET Seq(K),
         \A d \in D : ClearOf(r, d), \A d, e \in D : ~IsStrictPrefix(d, e),
         NEW p \in Seq(K), NEW s \in D
  PROVE  Keeps(r, CopyEntry(r, p, s).rec, D, K, {})
<1>1. CASE CopyEntry(r, p, s).rec = r
  BY <1>1, SameKeeps
<1>2. CASE ~Exists(r, s) /\ CopyEntry(r, p, s).rec = Grafted(r, p, s)
  <2>1. PICK g : g = Grafted(r, p, s)
    OBVIOUS
  <2>2. IsGrafted(g, r, p, s, K)
    <3>1. s \in Seq(K) /\ ClearOf(r, s)
      OBVIOUS
    <3> QED
      BY <1>2, <2>1, <3>1, GraftedIs
  <2>3. DOMAIN r \subseteq DOMAIN g /\ DOMAIN g \subseteq Seq(K)
        /\ \A q \in DOMAIN r : g[q] = r[q]
    BY <2>2 DEF IsGrafted
  <2>4. \A d \in D : ClearOf(g, d)
    BY <2>2, GraftedClear
  <2>5. Keeps(r, g, D, K, {})
    BY <2>3, <2>4 DEF Keeps, Kept
  <2> QED
    BY <1>2, <2>1, <2>5
<1> QED
  BY <1>1, <1>2 DEF CopyEntry, Stopped, GoneOn

LEMMA MoveKeeps ==
  ASSUME NEW K, NEW r, DOMAIN r \subseteq Seq(K), NEW D \in SUBSET Seq(K),
         \A d \in D : ClearOf(r, d), \A d, e \in D : ~IsStrictPrefix(d, e),
         NEW p \in Seq(K), NEW s \in D, ~IsStrictPrefix(p, s)
  PROVE  Keeps(r, MoveEntry(r, p, s).rec, D, K, Leaves(r, p))
<1>1. CASE MoveEntry(r, p, s).rec = r
  BY <1>1, SameKeeps
<1>2. CASE ~Exists(r, s) /\ MoveEntry(r, p, s).rec = Delete(Grafted(r, p, s), p)
  <2>1. PICK g : g = Grafted(r, p, s)
    OBVIOUS
  <2>2. s \in Seq(K) /\ ClearOf(r, s)
    OBVIOUS
  <2>3. IsGrafted(g, r, p, s, K)
    BY <1>2, <2>2, <2>1, GraftedIs
  <2>4. /\ DOMAIN g = DOMAIN r \cup {Below(p, s, q) : q \in Leaves(r, p)}
        /\ DOMAIN g \subseteq Seq(K)
        /\ \A q \in DOMAIN r : g[q] = r[q]
        /\ \A q \in Leaves(r, p) : g[Below(p, s, q)] = Converted(r[q], q = p)
    BY <2>3 DEF IsGrafted
  <2>5. PICK d : d = Delete(g, p)
    OBVIOUS
  <2>6. /\ DOMAIN d = DOMAIN g \ Leaves(g, p)
        /\ \A q \in DOMAIN g \ Leaves(g, p) : d[q] = g[q]
    <3>1. IsDeleted(d, g, p)
      BY <2>5, DeleteIs
    <3> QED
      BY <3>1 DEF IsDeleted
  <2>7. ASSUME NEW q \in DOMAIN r
        PROVE  /\ q \notin Leaves(r, p) => q \in DOMAIN d /\ d[q] = r[q]
               /\ \E b \in DOMAIN d : d[b] \in Kept(r[q])
    <3>1. CASE ~IsPrefix(p, q)
      <4>1. q \in DOMAIN g \ Leaves(g, p)
        BY <2>4, <3>1 DEF Leaves
      <4> QED
        BY <2>4, <2>6, <4>1 DEF Kept
    <3>2. CASE IsPrefix(p, q)
      <4>1. q \in Leaves(r, p) /\ q \in Seq(K)
        BY <3>2 DEF Leaves
      <4>2. ~IsPrefix(s, q)
        BY <1>2 DEF Exists, Leaves
      <4>3. ~IsPrefix(p, s)
        BY <3>2, <4>2 DEF IsStrictPrefix
      <4>4. ~IsPrefix(p, Below(p, s, q))
        BY <2>2, <3>2, <4>1, <4>2, <4>3, StaysBelow
      <4>5. Below(p, s, q) \in DOMAIN g \ Leaves(g, p)
        BY <2>4, <4>1, <4>4 DEF Leaves
      <4>6. Converted(r[q], q = p) \in Kept(r[q])
        BY DEF Kept
      <4> QED
        BY <2>4, <2>6, <4>1, <4>5, <4>6
    <3> QED
      BY <3>1, <3>2
  <2>8. MoveEntry(r, p, s).rec = d
    BY <1>2, <2>1, <2>5
  <2>9. DOMAIN d \subseteq Seq(K)
    BY <2>4, <2>6
  <2>10. \A e \in D : ClearOf(d, e)
    <3>1. \A e \in D : ClearOf(g, e)
      BY <2>3, GraftedClear
    <3> QED
      BY <2>6, <3>1 DEF ClearOf
  <2>11. Keeps(r, d, D, K, Leaves(r, p))
    BY <2>7, <2>9, <2>10 DEF Keeps
  <2> QED
    BY <2>8, <2>11
<1> QED
  BY <1>1, <1>2 DEF MoveEntry, Stopped, GoneOn

(***************************************************************************)
(* Steps.  What the program and the server leave alone:                    *)
(***************************************************************************)
NextParts ==
  \/ CreateDatabase \/ DropDatabase \/ RenameDatabase \/ Elapse \/ Record
  \/ LoadConfig \/ ReadInfo \/ EndPoll \/ ParseRow
  \/ Filter \/ DoEntry \/ NextMap \/ Send
  \/ UNCHANGED vars

LEMMA Steps == [Next]_vars => NextParts
BY DEF Next, NextParts

USE DEF Waiting, vars, world, work, files

LEMMA NextMapGoes ==
  ASSUME NextMap
  PROVE  \/ pc = "adds" /\ pc' = "copies" /\ todo' = DOMAIN settings.copies
         \/ pc = "copies" /\ pc' = "moves" /\ todo' = DOMAIN settings.moves
         \/ pc = "moves" /\ pc' = "case" /\ todo' = {}
<1>1. CASE pc = "adds"
  BY <1>1 DEF NextMap
<1>2. CASE pc = "copies"
  BY <1>2 DEF NextMap
<1>3. CASE pc = "moves"
  BY <1>3 DEF NextMap
<1> QED
  BY <1>1, <1>2, <1>3 DEF NextMap

LEMMA DoEntryGoes ==
  ASSUME DoEntry
  PROVE  /\ pc \in {"adds", "copies", "moves"}
         /\ pc' \in {pc, "case"} /\ todo' \subseteq todo
         /\ pc' = "case" => todo' = {}
<1>1. PICK k \in todo : /\ todo' = IF Entry(k).stop THEN {} ELSE todo \ {k}
                        /\ pc' = IF Entry(k).stop THEN "case" ELSE pc
  BY DEF DoEntry
<1>2. pc \in {"adds", "copies", "moves"}
  BY DEF DoEntry
<1> QED
  BY <1>1, <1>2

LEMMA TimesStep == IInv /\ [Next]_vars => TimesInv'
<1> SUFFICES ASSUME IInv, [Next]_vars PROVE TimesInv'
  OBVIOUS
<1>t. TimesInv
  BY DEF IInv
<1>m. MaxTick \in Nat
  BY TickAssumption
<1>1. CASE CreateDatabase
  <2>1. /\ clock' = clock + 1 /\ clock < MaxTick /\ idents' = idents + 1
        /\ UNCHANGED <<zone, xml, pc>>
    BY <1>1 DEF CreateDatabase
  <2>2. PICK n \in DbNames : db' = [name |-> n, created |-> clock', ident |-> idents']
    BY <1>1 DEF CreateDatabase
  <2>3. clock' \in 1 .. MaxTick /\ clock' \in 0 .. clock' /\ idents' \in Nat \ {0}
    BY <1>t, <1>m, <2>1 DEF TimesInv
  <2>4. db' \in [name : DbNames, created : 0 .. clock', ident : Nat \ {0}]
    BY <2>2, <2>3
  <2>5. xml # NoXml => xml.time \in 1 .. clock'
    BY <1>t, <2>1 DEF TimesInv
  <2> QED
    BY <1>t, <2>1, <2>3, <2>4, <2>5 DEF TimesInv
<1>2. CASE DropDatabase
  BY <1>t, <1>2 DEF DropDatabase, TimesInv
<1>3. CASE RenameDatabase
  <2>1. db \in [name : DbNames, created : 0 .. clock, ident : Nat \ {0}]
    BY <1>t, <1>3 DEF RenameDatabase, TimesInv
  <2>2. db' \in [name : DbNames, created : 0 .. clock, ident : Nat \ {0}]
    BY <1>3, <2>1 DEF RenameDatabase
  <2> QED
    BY <1>t, <1>3, <2>2 DEF RenameDatabase, TimesInv
<1>4. CASE Elapse
  <2>1. clock' = clock + 1 /\ clock < MaxTick /\ UNCHANGED <<zone, db, idents, xml, pc>>
    BY <1>4 DEF Elapse
  <2>2. clock' \in 1 .. MaxTick /\ 0 .. clock \subseteq 0 .. clock'
    BY <1>t, <1>m, <2>1 DEF TimesInv
  <2>3. db = NoDb \/ db \in [name : DbNames, created : 0 .. clock', ident : Nat \ {0}]
    BY <1>t, <2>2 DEF TimesInv
  <2>4. xml # NoXml => xml.time \in 1 .. clock'
    BY <1>t, <2>1 DEF TimesInv
  <2> QED
    BY <1>t, <2>1, <2>2, <2>3, <2>4 DEF TimesInv
<1>5. CASE Record
  <2>1. xml'.time = clock
    BY <1>5 DEF Record
  <2> QED
    BY <1>t, <1>5, <2>1 DEF Record, TimesInv
<1>6. CASE LoadConfig \/ ReadInfo \/ EndPoll \/ ParseRow
  BY <1>t, <1>6 DEF LoadConfig, ReadInfo, EndPoll, ParseRow, TimesInv
<1>7. CASE Filter \/ Send
  BY <1>t, <1>7 DEF Filter, Send, TimesInv
<1>8. CASE DoEntry
  BY <1>t, <1>8, DoEntryGoes DEF DoEntry, TimesInv
<1>9. CASE NextMap
  BY <1>t, <1>9, NextMapGoes DEF NextMap, TimesInv
<1>10. CASE UNCHANGED vars
  BY <1>t, <1>10 DEF TimesInv
<1> QED
  BY <1>1, <1>2, <1>3, <1>4, <1>5, <1>6, <1>7, <1>8, <1>9, <1>10, Steps DEF NextParts

LEMMA SourceStep == IInv /\ [Next]_vars => SourceInv'
<1> SUFFICES ASSUME IInv, [Next]_vars PROVE SourceInv'
  OBVIOUS
<1>t. TimesInv /\ SourceInv
  BY DEF IInv
<1>1. CASE CreateDatabase
  <2>1. clock' = clock + 1 /\ UNCHANGED <<xml, pc, event>>
    BY <1>1 DEF CreateDatabase
  <2>2. db'.created = clock'
    BY <1>1 DEF CreateDatabase
  <2>3. xml # NoXml => ~(xml.time >= db'.created)
    BY <1>t, <2>1, <2>2 DEF TimesInv
  <2> QED
    BY <1>t, <2>1, <2>3 DEF SourceInv
<1>2. CASE DropDatabase
  BY <1>t, <1>2 DEF DropDatabase, SourceInv
<1>3. CASE RenameDatabase
  <2>1. db # NoDb /\ db \in [name : DbNames, created : 0 .. clock, ident : Nat \ {0}]
    BY <1>t, <1>3 DEF RenameDatabase, TimesInv
  <2>2. db'.created = db.created /\ db'.ident = db.ident
    BY <1>3, <2>1 DEF RenameDatabase
  <2>3. UNCHANGED <<xml, pc, event>>
    BY <1>3 DEF RenameDatabase
  <2> QED
    BY <1>t, <2>1, <2>2, <2>3 DEF SourceInv
<1>4. CASE Elapse
  BY <1>t, <1>4 DEF Elapse, SourceInv
<1>5. CASE Record
  <2>1. PICK k \in Kinds :
          xml' = [kind |-> "event", name |-> k.name, data |-> k.data,
                  actions |-> k.actions, time |-> clock, from |-> db.ident]
    BY <1>5 DEF Record
  <2>2. /\ xml'.name = k.name /\ xml'.data = k.data /\ xml'.actions = k.actions
        /\ xml'.from = db.ident
    BY <2>1
  <2>3. UNCHANGED <<db, pc, event>>
    BY <1>5 DEF Record
  <2> QED
    BY <1>t, <2>2, <2>3 DEF SourceInv
<1>6. CASE LoadConfig \/ ReadInfo \/ EndPoll
  BY <1>t, <1>6 DEF LoadConfig, ReadInfo, EndPoll, SourceInv
<1>7. CASE ParseRow \/ Filter \/ Send
  BY <1>t, <1>7 DEF ParseRow, Filter, Send, SourceInv
<1>8. CASE DoEntry
  <2>1. pc' \in {"adds", "copies", "moves", "case"}
    BY <1>8, DoEntryGoes
  <2> QED
    BY <1>t, <1>8, <2>1 DEF DoEntry, SourceInv
<1>9. CASE NextMap
  <2>1. pc' \in {"adds", "copies", "moves", "case"}
    BY <1>9, NextMapGoes
  <2> QED
    BY <1>t, <1>9, <2>1 DEF NextMap, SourceInv
<1>10. CASE UNCHANGED vars
  BY <1>t, <1>10 DEF SourceInv
<1> QED
  BY <1>1, <1>2, <1>3, <1>4, <1>5, <1>6, <1>7, <1>8, <1>9, <1>10, Steps DEF NextParts

(***************************************************************************)
(* The event in hand.                                                      *)
(***************************************************************************)
LEMMA ParsedStep == IInv /\ [Next]_vars => ParsedInv'
<1> SUFFICES ASSUME IInv, [Next]_vars PROVE ParsedInv'
  OBVIOUS
<1>t. ParsedInv
  BY DEF IInv
<1>1. CASE CreateDatabase \/ DropDatabase \/ RenameDatabase \/ Elapse \/ Record
  <2>1. pc' \in {"boot", "idle", "poll"}
    BY <1>1 DEF CreateDatabase, DropDatabase, RenameDatabase, Elapse, Record
  <2> QED
    BY <2>1 DEF ParsedInv
<1>2. CASE LoadConfig \/ ReadInfo \/ EndPoll
  <2>1. pc' \in {"refused", "idle", "poll"}
    BY <1>2 DEF LoadConfig, ReadInfo, EndPoll
  <2> QED
    BY <2>1 DEF ParsedInv
<1>3. CASE ParseRow
  <2>1. /\ pc' = "filter" /\ xml # NoXml /\ event' = Parse(info, xml)
        /\ UNCHANGED <<info, xml>>
    BY <1>3 DEF ParseRow
  <2> QED
    BY <2>1 DEF ParsedInv
<1>4. CASE Filter
  <2>1. pc = "filter" /\ UNCHANGED <<info, xml, event, conf, settings>>
    BY <1>4 DEF Filter
  <2>2. PICK e : e = WithDerived(event, ReadFrom)
    OBVIOUS
  <2>3. pc' = "dropped" \/ (pc' = "adds" /\ ~Excluded(e))
    BY <1>4, <2>2 DEF Filter
  <2>4. ~Excluded(e) => /\ xml.name \notin settings.excludedEvents
                        /\ ~(xml.time < settings.startAt)
                        /\ "exclude_17830" \in settings.flags /\ xml.name = "error_reported" =>
                             ~IsNumber(e, "error_number", "17830")
    BY DEF Excluded
  <2> QED
    BY <1>t, <2>1, <2>2, <2>3, <2>4 DEF ParsedInv
<1>5. CASE DoEntry \/ NextMap \/ Send \/ UNCHANGED vars
  <2>1. UNCHANGED <<info, xml, event, conf, settings>>
    BY <1>5 DEF DoEntry, NextMap, Send
  <2>2. \/ UNCHANGED pc
        \/ /\ pc \in {"adds", "copies", "moves", "case"}
           /\ pc' \in {"adds", "copies", "moves", "case", "sent"}
    <3>1. CASE DoEntry
      BY <3>1, DoEntryGoes
    <3>2. CASE NextMap
      BY <3>2, NextMapGoes
    <3>3. CASE Send \/ UNCHANGED vars
      BY <3>3 DEF Send
    <3> QED
      BY <1>5, <3>1, <3>2, <3>3
  <2> QED
    BY <1>t, <2>1, <2>2 DEF ParsedInv
<1> QED
  BY <1>1, <1>2, <1>3, <1>4, <1>5, Steps DEF NextParts

(***************************************************************************)
(* The metadata of a poll.                                                 *)
(***************************************************************************)
LEMMA ReadInfoIs ==
  ASSUME ReadInfo
  PROVE  /\ info'.readAt = clock
         /\ info'.databases \in {DatabasesNow, <<>>}
<1> DEFINE read == [databases |-> DatabasesNow, readAt |-> clock]
<1>1. PICK all :
        /\ \E s : all = PutAll(s, read)
        /\ info' \in {all} \cup {[all EXCEPT ![x] = <<>>] : x \in {"fields", "actions", "databases"}}
                     \cup {[all EXCEPT ![x] = {}] : x \in {"loginErrors", "loggedErrors"}}
  BY DEF ReadInfo
<1>2. PICK s : all = PutAll(s, read)
  BY <1>1
<1>3. DOMAIN read = {"databases", "readAt"} /\ read.databases = DatabasesNow /\ read.readAt = clock
  OBVIOUS
<1> HIDE DEF read
<1>4. all = [x \in DOMAIN s \cup DOMAIN read |-> IF x \in DOMAIN read THEN read[x] ELSE s[x]]
  BY <1>2 DEF PutAll
<1>5. /\ "databases" \in DOMAIN all /\ "readAt" \in DOMAIN all
      /\ all.databases = DatabasesNow /\ all.readAt = clock
  BY <1>3, <1>4
<1>6. CASE info' = all
  BY <1>5, <1>6
<1>7. CASE \E x \in {"fields", "actions", "databases"} : info' = [all EXCEPT ![x] = <<>>]
  <2>1. PICK x \in {"fields", "actions", "databases"} : info' = [all EXCEPT ![x] = <<>>]
    BY <1>7
  <2>2. info'.readAt = clock
    BY <1>5, <2>1
  <2>3. info'.databases \in {DatabasesNow, <<>>}
    BY <1>5, <2>1
  <2> QED
    BY <2>2, <2>3
<1>8. CASE \E x \in {"loginErrors", "loggedErrors"} : info' = [all EXCEPT ![x] = {}]
  <2>1. PICK x \in {"loginErrors", "loggedErrors"} : info' = [all EXCEPT ![x] = {}]
    BY <1>8
  <2>2. info'.readAt = clock
    BY <1>5, <2>1
  <2>3. info'.databases \in {DatabasesNow, <<>>}
    BY <1>5, <2>1
  <2> QED
    BY <2>2, <2>3
<1> QED
  BY <1>1, <1>6, <1>7, <1>8

LEMMA NoDatabases == DOMAIN <<>> = {}
<1>1. PICK d : d = <<>>
  OBVIOUS
<1>2. d \in Seq(STRING) /\ Len(d) = 0
  BY <1>1
<1>3. DOMAIN d = {}
  BY <1>2
<1> QED
  BY <1>1, <1>3

LEMMA DatabasesAre ==
  ASSUME NEW list \in {DatabasesNow, <<>>}
  PROVE  /\ DOMAIN list \subseteq {DbId}
         /\ \A i \in DOMAIN list : db # NoDb /\ list[i] = [db EXCEPT !.created = @ + zone]
<1>1. CASE list = <<>>
  BY <1>1, NoDatabases
<1>2. CASE list = DatabasesNow
  BY <1>2 DEF DatabasesNow
<1> QED
  BY <1>1, <1>2

\* InfoInv but for its hypothesis.
Known(i, x, d, now, z) ==
  /\ i.readAt \in 1 .. now
  /\ DOMAIN i.databases \subseteq {DbId}
  /\ \A n \in DOMAIN i.databases :
       /\ i.databases[n].created \in Int
       /\ i.readAt = now /\ d # NoDb => i.databases[n].ident = d.ident
       /\ x # NoXml /\ x.time <= i.readAt /\ x.time >= i.databases[n].created - z
          => i.databases[n].ident = x.from

LEMMA InfoStep == IInv /\ [Next]_vars => InfoInv'
<1> SUFFICES ASSUME IInv, [Next]_vars PROVE InfoInv'
  OBVIOUS
<1>t. TimesInv /\ SourceInv /\ InfoInv
  BY DEF IInv
<1>k. InfoInv <=> (pc \notin {"boot", "refused", "idle"} => Known(info, xml, db, clock, zone))
  BY DEF InfoInv, Known
<1>p. InfoInv' <=> (pc' \notin {"boot", "refused", "idle"} => Known(info', xml', db', clock', zone'))
  BY DEF InfoInv, Known
<1>1. CASE CreateDatabase \/ Elapse
  <2>1. clock' = clock + 1 /\ UNCHANGED <<info, xml, pc, zone>>
    BY <1>1 DEF CreateDatabase, Elapse
  <2>2. Known(info, xml, db, clock, zone) => Known(info, xml, db', clock', zone)
    <3> SUFFICES ASSUME Known(info, xml, db, clock, zone) PROVE Known(info, xml, db', clock', zone)
      OBVIOUS
    <3>1. info.readAt \in 1 .. clock' /\ info.readAt # clock'
      BY <1>t, <2>1 DEF Known, TimesInv
    <3> QED
      BY <3>1 DEF Known
  <2> QED
    BY <1>t, <1>k, <1>p, <2>1, <2>2
<1>2. CASE DropDatabase
  <2>1. db' = NoDb /\ UNCHANGED <<info, xml, pc, clock, zone>>
    BY <1>2 DEF DropDatabase
  <2>2. Known(info, xml, db, clock, zone) => Known(info, xml, db', clock, zone)
    BY <2>1 DEF Known
  <2> QED
    BY <1>t, <1>k, <1>p, <2>1, <2>2
<1>3. CASE RenameDatabase
  <2>1. db # NoDb /\ db \in [name : DbNames, created : 0 .. clock, ident : Nat \ {0}]
    BY <1>t, <1>3 DEF RenameDatabase, TimesInv
  <2>2. db'.ident = db.ident
    BY <1>3, <2>1 DEF RenameDatabase
  <2>3. UNCHANGED <<info, xml, pc, clock, zone>>
    BY <1>3 DEF RenameDatabase
  <2>4. Known(info, xml, db, clock, zone) => Known(info, xml, db', clock, zone)
    BY <2>1, <2>2 DEF Known
  <2> QED
    BY <1>t, <1>k, <1>p, <2>3, <2>4
<1>4. CASE Record
  <2>1. xml'.time = clock /\ xml'.from = db.ident
    BY <1>4 DEF Record
  <2>2. db # NoDb /\ UNCHANGED <<info, db, pc, clock, zone>>
    BY <1>4 DEF Record
  <2>3. Known(info, xml, db, clock, zone) => Known(info, xml', db, clock, zone)
    <3> SUFFICES ASSUME Known(info, xml, db, clock, zone), NEW n \in DOMAIN info.databases,
                        clock <= info.readAt
                 PROVE  info.databases[n].ident = db.ident
      BY <2>1 DEF Known
    <3>1. info.readAt = clock
      BY <1>t DEF Known, TimesInv
    <3> QED
      BY <2>2, <3>1 DEF Known
  <2> QED
    BY <1>t, <1>k, <1>p, <2>2, <2>3
<1>5. CASE LoadConfig
  BY <1>5 DEF LoadConfig, InfoInv
<1>6. CASE ReadInfo
  <2>1. info'.readAt = clock /\ info'.databases \in {DatabasesNow, <<>>}
    BY <1>6, ReadInfoIs
  <2>2. UNCHANGED <<db, xml, clock, zone>>
    BY <1>6 DEF ReadInfo
  <2>3. PICK list : list = info'.databases
    OBVIOUS
  <2>4. /\ DOMAIN list \subseteq {DbId}
        /\ \A i \in DOMAIN list : db # NoDb /\ list[i] = [db EXCEPT !.created = @ + zone]
    BY <2>1, <2>3, DatabasesAre
  <2>5. \A i \in DOMAIN list :
          /\ list[i].created \in Int
          /\ db # NoDb => list[i].ident = db.ident
          /\ xml # NoXml /\ xml.time >= list[i].created - zone => list[i].ident = xml.from
    <3> SUFFICES ASSUME NEW i \in DOMAIN list
                 PROVE  /\ list[i].created \in Int
                        /\ list[i].ident = db.ident
                        /\ xml # NoXml /\ xml.time >= list[i].created - zone => db.ident = xml.from
      BY <2>4
    <3>1. db # NoDb
      BY <2>4
    <3>2. db \in [name : DbNames, created : 0 .. clock, ident : Nat \ {0}]
      BY <1>t, <3>1 DEF TimesInv
    <3>3. /\ list[i].created = db.created + zone /\ list[i].ident = db.ident
          /\ db.created \in Nat
      BY <2>4, <3>2
    <3>4. zone \in Int
      BY <1>t DEF TimesInv
    <3>5. list[i].created \in Int /\ list[i].created - zone = db.created
      BY <3>3, <3>4
    <3> QED
      BY <1>t, <3>1, <3>3, <3>5 DEF SourceInv
  <2>6. clock \in 1 .. clock
    BY <1>t DEF TimesInv
  <2>7. Known(info', xml, db, clock, zone)
    BY <2>1, <2>3, <2>4, <2>5, <2>6 DEF Known
  <2> QED
    BY <1>p, <2>2, <2>7
<1>7. CASE EndPoll
  BY <1>7 DEF EndPoll, InfoInv
<1>8. CASE ParseRow \/ Filter \/ Send \/ DoEntry \/ NextMap
  <2>1. UNCHANGED <<info, xml, db, clock, zone>>
    BY <1>8 DEF ParseRow, Filter, Send, DoEntry, NextMap
  <2>2. pc \notin {"boot", "refused", "idle"}
    BY <1>8 DEF ParseRow, Filter, Send, DoEntry, NextMap
  <2> QED
    BY <1>t, <1>k, <1>p, <2>1, <2>2
<1>9. CASE UNCHANGED vars
  BY <1>t, <1>9 DEF InfoInv
<1> QED
  BY <1>1, <1>2, <1>3, <1>4, <1>5, <1>6, <1>7, <1>8, <1>9, Steps DEF NextParts

(***************************************************************************)
(* The settings of the source.                                             *)
(***************************************************************************)
LEMMA SettingsStep == IInv /\ [Next]_vars => SettingsInv'
<1> SUFFICES ASSUME IInv, [Next]_vars PROVE SettingsInv'
  OBVIOUS
<1>t. TimesInv /\ SettingsInv
  BY DEF IInv
<1>1. CASE LoadConfig
  <2>1. conf' = conf /\ loadedAt' = clock
    BY <1>1 DEF LoadConfig
  <2>2. PICK c : c = GetConfig(conf, clock)
    OBVIOUS
  <2>3. IF c = Refused THEN pc' = "refused" ELSE pc' = "idle" /\ settings' = c[1]
    BY <1>1, <2>2 DEF LoadConfig
  <2> QED
    BY <1>t, <2>1, <2>2, <2>3 DEF SettingsInv, TimesInv
<1>2. CASE ~LoadConfig
  <2>1. UNCHANGED <<conf, settings, loadedAt>>
    BY <1>2, Steps DEF NextParts, CreateDatabase, DropDatabase, RenameDatabase, Elapse,
       Record, ReadInfo, EndPoll, ParseRow, Filter, DoEntry, NextMap, Send
  <2>2. pc' \notin {"boot", "refused"} => pc \notin {"boot", "refused"}
    BY <1>2, Steps DEF NextParts, CreateDatabase, DropDatabase, RenameDatabase, Elapse,
       Record, ReadInfo, EndPoll, ParseRow, Filter, DoEntry, NextMap, Send
  <2> QED
    BY <1>t, <2>1, <2>2 DEF SettingsInv
<1> QED
  BY <1>1, <1>2

(***************************************************************************)
(* Where a database name comes from.                                       *)
(***************************************************************************)
Named(e) == "database_name" \in DOMAIN e

LEMMA PutNames ==
  ASSUME NEW e, NEW k, NEW v, k # "database_name", Named(Put(e, k, v))
  PROVE  Named(e)
BY DEF Named, Put

LEMMA DerivedNames ==
  ASSUME NEW e, NEW keys, "database_name" \notin keys, Named(WithDerived(e, keys))
  PROVE  Named(e)
BY DEF Named, WithDerived, PutAll

LEMMA FromDataNames ==
  ASSUME NEW i, NEW x, x.name \o "_timestamp" # "database_name", Named(FromData(i, x))
  PROVE  "database_name" \in DOMAIN x.data
<1>1. PICK f \in DOMAIN x.data : DataKey(x, f) = "database_name"
  BY DEF Named, FromData
<1> QED
  BY <1>1 DEF DataKey

LEMMA ActionNames ==
  ASSUME NEW i, NEW x, NEW e, \A a \in DOMAIN x.actions : a \o "_action" # "database_name",
         Named(WithActions(i, x, e))
  PROVE  Named(e) \/ "database_name" \in DOMAIN x.actions
<1>1. ActionsKept(x) \subseteq DOMAIN x.actions
  BY DEF ActionsKept
<1>2. "database_name" \in DOMAIN e
        \cup {IF a \in DOMAIN e THEN a \o "_action" ELSE a : a \in ActionsKept(x)}
  BY DEF Named, WithActions
<1>3. CASE "database_name" \in DOMAIN e
  BY <1>3 DEF Named
<1>4. CASE \E a \in ActionsKept(x) :
             "database_name" = IF a \in DOMAIN e THEN a \o "_action" ELSE a
  BY <1>1, <1>4
<1> QED
  BY <1>2, <1>3, <1>4

LEMMA ErrorLogNames ==
  ASSUME NEW x, NEW e, Named(ErrorLog(x, e))
  PROVE  Named(e)
<1>1. CASE ErrorLog(x, e) = e
  BY <1>1
<1>2. CASE ErrorLog(x, e) # e
  <2> DEFINE said == e["message"].v
             found == IF said \in DOMAIN MessageErrors THEN MessageErrors[said] ELSE <<>>
             base == WithDerived(e, {"errorlog_raw", "errorlog_process", "errorlog_message"})
             more == [k \in DOMAIN found |-> Value(found[k], "int64")]
  <2>1. "database_name" \notin DOMAIN found
    <3>1. CASE said \in DOMAIN MessageErrors
      BY <3>1, DatabaseNameAssumption
    <3>2. CASE said \notin DOMAIN MessageErrors
      BY <3>2, NoDatabases
    <3> QED
      BY <3>1, <3>2
  <2>2. ErrorLog(x, e) = PutAll(base, more)
    BY <1>2 DEF ErrorLog
  <2>3. "database_name" \notin DOMAIN more
    BY <2>1
  <2> HIDE DEF more, base
  <2>4. Named(base)
    BY <2>2, <2>3 DEF Named, PutAll
  <2> QED
    BY <2>4, DerivedNames DEF base
<1> QED
  BY <1>1, <1>2

LEMMA RenameNames ==
  ASSUME NEW e, Named(Rename(e, "error", "error_number"))
  PROVE  Named(e)
BY DEF Named, Rename

LEMMA EnrichedNames ==
  ASSUME NEW i, NEW x, NEW e, Named(Enriched(i, x, e))
  PROVE  \/ Named(e)
         \/ \E d \in DOMAIN i.databases : ~(x.time < i.databases[d].created)
<1> DEFINE server == Value(i.server, "string")
           logged == IF NumberIn(e, "error_number", i.loggedErrors)
                     THEN WithDerived(e, {"xe_is_event_logged"}) ELSE e
           put == Put(logged, "mssql_server_name", server)
           base == SetIfEmpty(put, "server_instance_name", server)
           all == WithDerived(base, {"xe_severity_value", "xe_severity_keyword", "mssql_domain",
                    "mssql_computer", "mssql_version", "mssql_product_version"})
<1>1. Named(logged) => Named(e)
  BY DerivedNames
<1> HIDE DEF logged
<1>2. Named(put) => Named(logged)
  BY PutNames
<1> HIDE DEF put
<1>3. Named(base) => Named(put)
  BY PutNames DEF SetIfEmpty
<1> HIDE DEF base
<1>4. Named(all) => Named(base)
  BY DerivedNames
<1>5. Enriched(i, x, e) = SetDatabaseName(i, x, all)
  BY DEF Enriched, base, put, logged
<1> HIDE DEF all
<1>6. \/ SetDatabaseName(i, x, all) = all
      \/ \E d \in DOMAIN i.databases : ~(x.time < i.databases[d].created)
  BY DEF SetDatabaseName
<1> QED
  BY <1>1, <1>2, <1>3, <1>4, <1>5, <1>6

LEMMA DescribedNames ==
  ASSUME NEW i, NEW x, NEW e, Named(Described(i, x, e))
  PROVE  Named(e)
<1> DEFINE login == x.name = "error_reported" /\ NumberIn(e, "error_number", i.loginErrors)
           keys == {"xe_description", "xe_category"} \cup AppSource(e)
                     \cup (IF login THEN {"login_failed"} ELSE {})
<1>1. "database_name" \notin AppSource(e)
  BY DEF AppSource
<1>2. "database_name" \notin keys
  BY <1>1
<1>3. Described(i, x, e) = WithDerived(e, keys)
  BY DEF Described
<1> HIDE DEF keys
<1> QED
  BY <1>2, <1>3, DerivedNames

LEMMA ParseNames ==
  ASSUME NEW i, NEW x, x.name \o "_timestamp" # "database_name",
         \A a \in DOMAIN x.actions : a \o "_action" # "database_name",
         Named(Parse(i, x))
  PROVE  \/ "database_name" \in DOMAIN x.data \cup DOMAIN x.actions
         \/ \E d \in DOMAIN i.databases : ~(x.time < i.databases[d].created)
<1> DEFINE data == FromData(i, x)
           fields == WithActions(i, x, data)
           stamped == Put(fields, "timestamp", EventTime)
           named == Put(stamped, "name", Value(x.name, "string"))
           logged == ErrorLog(x, named)
           numbered == Rename(logged, "error", "error_number")
           enriched == Enriched(i, x, numbered)
<1>1. Named(data) => "database_name" \in DOMAIN x.data
  BY FromDataNames
<1> HIDE DEF data
<1>2. Named(fields) => Named(data) \/ "database_name" \in DOMAIN x.actions
  BY ActionNames
<1> HIDE DEF fields
<1>3. Named(stamped) => Named(fields)
  BY PutNames
<1> HIDE DEF stamped
<1>4. Named(named) => Named(stamped)
  BY PutNames
<1> HIDE DEF named
<1>5. Named(logged) => Named(named)
  BY ErrorLogNames
<1> HIDE DEF logged
<1>6. Named(numbered) => Named(logged)
  BY RenameNames
<1> HIDE DEF numbered
<1>7. Named(enriched) => \/ Named(numbered)
                         \/ \E d \in DOMAIN i.databases : ~(x.time < i.databases[d].created)
  BY EnrichedNames
<1> HIDE DEF enriched
<1>8. Parse(i, x) = Described(i, x, enriched)
  BY DEF Parse, enriched, numbered, logged, named, stamped, fields, data
<1>9. Named(enriched)
  BY <1>8, DescribedNames
<1> QED
  BY <1>1, <1>2, <1>3, <1>4, <1>5, <1>6, <1>7, <1>9

LEMMA NamedStep == IInv /\ [Next]_vars => NamedAsItWas'
<1> SUFFICES ASSUME IInv, [Next]_vars PROVE NamedAsItWas'
  OBVIOUS
<1>t. TimesInv /\ SourceInv /\ InfoInv /\ NamedAsItWas
  BY DEF IInv
<1>1. CASE CreateDatabase \/ DropDatabase \/ RenameDatabase \/ Elapse \/ Record
  <2>1. UNCHANGED event /\ pc \in {"boot", "idle", "poll"}
    BY <1>1 DEF CreateDatabase, DropDatabase, RenameDatabase, Elapse, Record
  <2> QED
    BY <1>t, <2>1 DEF SourceInv, NamedAsItWas, Parsed
<1>2. CASE LoadConfig \/ ReadInfo \/ EndPoll
  <2>1. UNCHANGED event /\ pc \in {"boot", "idle", "poll"}
    BY <1>2 DEF LoadConfig, ReadInfo, EndPoll
  <2> QED
    BY <1>t, <2>1 DEF SourceInv, NamedAsItWas, Parsed
<1>3. CASE ParseRow
  <2>1. /\ pc = "poll" /\ xml # NoXml /\ event' = Parse(info, xml)
        /\ UNCHANGED <<info, xml, zone>>
    BY <1>3 DEF ParseRow
  <2> SUFFICES ASSUME Named(Parse(info, xml)), xml.time <= info.readAt,
                      "database_name" \notin DOMAIN xml.data \cup DOMAIN xml.actions
               PROVE  \/ info.databases[DbId].ident = xml.from
                      \/ LET read == info.databases[DbId].created IN
                         zone < 0 /\ xml.time \in read .. read - zone - 1
    <3>1. Known(info, xml, db, clock, zone)
      BY <1>t, <2>1 DEF InfoInv, Known
    <3>2. xml.time > info.readAt <=> ~(xml.time <= info.readAt)
      BY <1>t, <2>1, <3>1 DEF Known, TimesInv
    <3> QED
      BY <2>1, <3>2 DEF NamedAsItWas, Parsed, Named
  <2>2. PICK k \in Kinds : xml.name = k.name /\ xml.data = k.data /\ xml.actions = k.actions
    BY <1>t, <2>1 DEF SourceInv
  <2>3. /\ xml.name \o "_timestamp" # "database_name"
        /\ \A a \in DOMAIN xml.actions : a \o "_action" # "database_name"
    BY <2>2, DatabaseNameAssumption
  <2>4. PICK d \in DOMAIN info.databases : ~(xml.time < info.databases[d].created)
    BY <2>3, ParseNames
  <2>5. Known(info, xml, db, clock, zone)
    BY <1>t, <2>1 DEF InfoInv, Known
  <2>6. d = DbId /\ info.databases[d].created \in Int
    BY <2>5 DEF Known
  <2>7. PICK read : read = info.databases[DbId].created
    OBVIOUS
  <2>8. /\ read \in Int /\ xml.time \in Int /\ zone \in Int
        /\ xml.time >= read
    BY <1>t, <2>1, <2>4, <2>6, <2>7 DEF TimesInv
  <2>9. xml.time >= read - zone => info.databases[DbId].ident = xml.from
    BY <2>1, <2>5, <2>6, <2>7 DEF Known
  <2>10. xml.time >= read - zone \/ (zone < 0 /\ xml.time \in read .. read - zone - 1)
    BY <2>8
  <2> QED
    BY <2>7, <2>9, <2>10
<1>4. CASE Filter \/ DoEntry \/ NextMap \/ Send \/ UNCHANGED vars
  <2>1. UNCHANGED <<event, xml, info, zone>>
    BY <1>4 DEF Filter, DoEntry, NextMap, Send
  <2> QED
    BY <1>t, <2>1 DEF NamedAsItWas, Parsed
<1> QED
  BY <1>1, <1>2, <1>3, <1>4, Steps DEF NextParts

(***************************************************************************)
(* The record in work.                                                     *)
(***************************************************************************)
LEMMA BuildPaths ==
  ASSUME NEW K, NEW e, DOMAIN e \subseteq K,
         settings.text["payload_field_name"] \in K, settings.text["timestamp_field_name"] \in K
  PROVE  DOMAIN Build(e) \subseteq Seq(K)
<1> DEFINE payload == settings.text["payload_field_name"]
           stamp == settings.text["timestamp_field_name"]
           Under(k) == IF payload = NotSet THEN <<k>> ELSE <<payload, k>>
           placed == [p \in {Under(k) : k \in DOMAIN e} |-> e[p[Len(p)]]]
           stamped == Put(placed, <<stamp>>, e["timestamp"])
<1>1. ASSUME NEW k \in K PROVE Under(k) \in Seq(K)
  <2>1. <<k>> \in Seq(K) /\ <<payload, k>> \in Seq(K)
    OBVIOUS
  <2> QED
    BY <2>1
<1>2. <<stamp>> \in Seq(K)
  OBVIOUS
<1>3. DOMAIN placed \subseteq Seq(K)
  BY <1>1
<1> HIDE DEF placed
<1>4. DOMAIN stamped \subseteq Seq(K)
  <2>1. IsPut(stamped, placed, <<stamp>>)
    BY PutIs
  <2> HIDE DEF stamped
  <2> QED
    BY <1>2, <1>3, <2>1 DEF IsPut
<1> HIDE DEF stamped
<1>5. Build(e) \in {stamped, Delete(stamped, <<"timestamp">>)}
  BY DEF Build, stamped, placed
<1>6. DOMAIN Delete(stamped, <<"timestamp">>) \subseteq DOMAIN stamped
  <2>1. IsDeleted(Delete(stamped, <<"timestamp">>), stamped, <<"timestamp">>)
    BY DeleteIs
  <2> QED
    BY <2>1 DEF IsDeleted
<1> QED
  BY <1>4, <1>5, <1>6

LEMMA WiderPaths ==
  ASSUME NEW A, NEW B, A \subseteq B, NEW p \in Seq(A)
  PROVE  p \in Seq(B)
OBVIOUS

\* One entry, whichever map it is of.
TakenBy(k) == IF pc = "moves" THEN Leaves(rec, Path[k]) ELSE {}

LEMMA EntryKeeps ==
  ASSUME IInv, pc \in {"adds", "copies", "moves"}, Harmless, NEW k \in todo
  PROVE  Keeps(rec, Entry(k).rec, Destinations, FieldNames, TakenBy(k))
<1>1. TimesInv /\ SettingsInv /\ RecordInv
  BY DEF IInv
<1>2. /\ conf \in Configs /\ loadedAt \in 1 .. MaxTick
      /\ GetConfig(conf, loadedAt) # Refused /\ settings = GetConfig(conf, loadedAt)[1]
  BY <1>1 DEF SettingsInv
<1>3. NamesIn(settings) \subseteq DOMAIN Path
  BY <1>2, PathAssumption
<1>4. \A n \in NamesIn(settings) : Path[n] \in Seq(FieldNames)
  <2> SUFFICES ASSUME NEW n \in NamesIn(settings) PROVE Path[n] \in Seq(FieldNames)
    OBVIOUS
  <2>1. Path[n] \in Seq(STRING)
    BY <1>3, PathAssumption
  <2>2. STRING \subseteq FieldNames
    BY DEF FieldNames
  <2> QED
    BY <2>1, <2>2, WiderPaths
<1>5. /\ DOMAIN rec \subseteq Seq(FieldNames)
      /\ \A d \in Destinations : ClearOf(rec, d)
  BY <1>1 DEF RecordInv, ClearOf
<1>d. Destinations \in SUBSET Seq(FieldNames)
  BY <1>4 DEF Destinations, NamesIn
<1>e. \A d, e \in Destinations : ~IsStrictPrefix(d, e)
  BY DEF Harmless
<1>6. CASE pc = "adds"
  <2>1. Path[k] \in Destinations
    BY <1>1, <1>6 DEF RecordInv, Destinations
  <2>2. Entry(k) = AddEntry(rec, Path[k], settings.adds[k]) /\ TakenBy(k) = {}
    BY <1>6 DEF Entry, TakenBy
  <2> QED
    BY <1>5, <1>d, <1>e, <2>1, <2>2, AddKeeps
<1>7. CASE pc = "copies"
  <2>1. k \in DOMAIN settings.copies
    BY <1>1, <1>7 DEF RecordInv
  <2>2. Path[k] \in Seq(FieldNames) /\ Path[settings.copies[k]] \in Destinations
    BY <1>4, <2>1 DEF NamesIn, Destinations, Range
  <2>3. Entry(k) = CopyEntry(rec, Path[k], Path[settings.copies[k]]) /\ TakenBy(k) = {}
    BY <1>7 DEF Entry, TakenBy
  <2> QED
    BY <1>5, <1>d, <1>e, <2>2, <2>3, CopyKeeps
<1>8. CASE pc = "moves"
  <2>1. k \in DOMAIN settings.moves
    BY <1>1, <1>8 DEF RecordInv
  <2>2. Path[k] \in Seq(FieldNames) /\ Path[settings.moves[k]] \in Destinations
    BY <1>4, <2>1 DEF NamesIn, Destinations, Range
  <2>3. /\ Entry(k) = MoveEntry(rec, Path[k], Path[settings.moves[k]])
        /\ TakenBy(k) = Leaves(rec, Path[k])
    BY <1>8 DEF Entry, TakenBy
  <2>4. ~IsStrictPrefix(Path[k], Path[settings.moves[k]])
    BY <2>1 DEF Harmless
  <2> QED
    BY <1>5, <1>d, <1>e, <2>2, <2>3, <2>4, MoveKeeps
<1> QED
  BY <1>6, <1>7, <1>8

LEMMA RecordStep == IInv /\ [Next]_vars => RecordInv'
<1> SUFFICES ASSUME IInv, [Next]_vars PROVE RecordInv'
  OBVIOUS
<1>t. RecordInv
  BY DEF IInv
<1>1. CASE \/ CreateDatabase \/ DropDatabase \/ RenameDatabase \/ Elapse \/ Record
           \/ LoadConfig \/ ReadInfo \/ EndPoll \/ ParseRow
  <2>1. pc' \notin {"adds", "copies", "moves", "case"}
    BY <1>1 DEF CreateDatabase, DropDatabase, RenameDatabase, Elapse, Record,
                LoadConfig, ReadInfo, EndPoll, ParseRow
  <2> QED
    BY <2>1 DEF RecordInv
<1>2. CASE Filter
  <2>1. PICK e : e = WithDerived(event, ReadFrom)
    OBVIOUS
  <2>2. UNCHANGED <<event, settings>>
    BY <1>2 DEF Filter
  <2>3. \/ pc' = "dropped"
        \/ rec' = Build(e) /\ todo' = DOMAIN settings.adds /\ pc' = "adds"
    BY <1>2, <2>1 DEF Filter
  <2>4. DOMAIN e \subseteq FieldNames
    <3>1. DOMAIN e = DOMAIN event \cup ReadFrom
      BY <2>1 DEF WithDerived, PutAll
    <3> QED
      BY <3>1 DEF FieldNames
  <2>5. DOMAIN Build(e) \subseteq Seq(FieldNames)
    <3>1. /\ settings.text["payload_field_name"] \in FieldNames
          /\ settings.text["timestamp_field_name"] \in FieldNames
      BY DEF FieldNames
    <3> QED
      BY <2>4, <3>1, BuildPaths
  <2>6. FieldNames' = FieldNames
    BY <2>2 DEF FieldNames
  <2>7. pc' = "dropped" \/ made' = rec'
    BY <1>2 DEF Filter
  <2>8. Harmless' => \A q \in DOMAIN made', d \in Destinations' : ~IsStrictPrefix(q, d)
    BY DEF Harmless
  <2> QED
    BY <2>2, <2>3, <2>5, <2>6, <2>7, <2>8 DEF RecordInv
<1>3. CASE DoEntry
  <2>1. PICK k \in todo : rec' = Entry(k).rec
    BY <1>3 DEF DoEntry
  <2>2. UNCHANGED <<event, settings, made>>
    BY <1>3 DEF DoEntry
  <2>3. /\ pc \in {"adds", "copies", "moves"}
        /\ pc' \in {pc, "case"} /\ todo' \subseteq todo
    BY <1>3, DoEntryGoes
  <2>4. Harmless => /\ DOMAIN rec' \subseteq Seq(FieldNames)
                    /\ \A q \in DOMAIN rec', d \in Destinations : ~IsStrictPrefix(q, d)
    <3>1. Harmless => Keeps(rec, rec', Destinations, FieldNames, TakenBy(k))
      BY <2>1, <2>3, EntryKeeps
    <3> QED
      BY <3>1 DEF Keeps, ClearOf
  <2>5. /\ FieldNames' = FieldNames
        /\ Harmless' = Harmless /\ Destinations' = Destinations
    BY <2>2 DEF FieldNames, Harmless, Destinations
  <2> QED
    BY <1>t, <2>2, <2>3, <2>4, <2>5 DEF RecordInv
<1>4. CASE NextMap
  <2>1. UNCHANGED <<event, settings, rec, made>>
    BY <1>4 DEF NextMap
  <2>2. /\ FieldNames' = FieldNames
        /\ Harmless' = Harmless /\ Destinations' = Destinations
    BY <2>1 DEF FieldNames, Harmless, Destinations
  <2> QED
    BY <1>4, <1>t, <2>1, <2>2, NextMapGoes DEF RecordInv
<1>5. CASE Send
  BY <1>5 DEF Send, RecordInv
<1>6. CASE UNCHANGED vars
  <2>1. /\ FieldNames' = FieldNames
        /\ Harmless' = Harmless /\ Destinations' = Destinations
    BY <1>6 DEF FieldNames, Harmless, Destinations
  <2> QED
    BY <1>t, <1>6, <2>1 DEF RecordInv
<1> QED
  BY <1>1, <1>2, <1>3, <1>4, <1>5, <1>6, Steps DEF NextParts

\* A value survives as another: unchanged, if no conversion changes it.
Survives(x, y) == Remnant(x, y) /\ (Robust(x) => y = x)

LEMMA SurvivesKept ==
  ASSUME NEW x, NEW y, DOMAIN y = {"v", "t", "case", "conv"}, Survives(x, y), NEW z \in Kept(y)
  PROVE  Survives(x, z)
<1>1. z = y \/ z = [y EXCEPT !.conv = 1] \/ z = [y EXCEPT !.conv = @ + 1]
  BY DEF Kept, Converted
<1>2. z.v = y.v /\ z.t = y.t /\ z.case = y.case
  BY <1>1
<1>3. Robust(y) => z = y
  <2>1. Converted(y, FALSE) \in {y, Converted(y, TRUE)}
    BY DEF Converted
  <2> QED
    BY <2>1 DEF Kept, Robust
<1> QED
  BY <1>2, <1>3 DEF Survives, Remnant

\* NothingLost but for its hypotheses.
Present(m, r) ==
  \A p \in DOMAIN m :
    /\ \/ p \in DOMAIN r /\ r[p] = m[p]
       \/ \E k \in DOMAIN settings.moves : IsPrefix(Path[k], p)
    /\ \E q \in DOMAIN r : Survives(m[p], r[q])

LEMMA PresentIs ==
  NothingLost <=>
    (pc \in {"adds", "copies", "moves", "case"} /\ Harmless => Present(made, rec))
BY DEF NothingLost, Present, Survives

LEMMA PresentKept ==
  ASSUME IInv, pc \in {"adds", "copies", "moves"}, Harmless, Present(made, rec),
         NEW k \in todo
  PROVE  Present(made, Entry(k).rec)
<1>1. PICK out : out = Entry(k).rec
  OBVIOUS
<1>2. Keeps(rec, out, Destinations, FieldNames, TakenBy(k))
  BY <1>1, EntryKeeps
<1>3. \A q \in DOMAIN rec : DOMAIN rec[q] = {"v", "t", "case", "conv"}
  BY DEF IInv, TypeOK
<1>4. ASSUME NEW p \in DOMAIN made
      PROVE  /\ \/ p \in DOMAIN out /\ out[p] = made[p]
                \/ \E j \in DOMAIN settings.moves : IsPrefix(Path[j], p)
             /\ \E b \in DOMAIN out : Survives(made[p], out[b])
  <2>1. \/ p \in DOMAIN rec /\ rec[p] = made[p]
        \/ \E j \in DOMAIN settings.moves : IsPrefix(Path[j], p)
    BY DEF Present
  <2>2. p \in DOMAIN rec /\ p \notin TakenBy(k) => p \in DOMAIN out /\ out[p] = rec[p]
    BY <1>2 DEF Keeps
  <2>3. PICK q \in DOMAIN rec : Survives(made[p], rec[q])
    BY DEF Present
  <2>4. PICK b \in DOMAIN out : out[b] \in Kept(rec[q])
    BY <1>2 DEF Keeps
  <2>5. Survives(made[p], out[b])
    BY <1>3, <2>3, <2>4, SurvivesKept
  <2>6. p \in TakenBy(k) => \E j \in DOMAIN settings.moves : IsPrefix(Path[j], p)
    <3>1. CASE p \in TakenBy(k)
      <4>1. pc = "moves" /\ IsPrefix(Path[k], p)
        BY <3>1 DEF TakenBy, Leaves
      <4> QED
        BY <4>1 DEF IInv, RecordInv
    <3> QED
      BY <3>1
  <2> QED
    BY <2>1, <2>2, <2>5, <2>6
<1> QED
  BY <1>1, <1>4 DEF Present

LEMMA LostStep == IInv /\ [Next]_vars => NothingLost'
<1> SUFFICES ASSUME IInv, [Next]_vars PROVE NothingLost'
  OBVIOUS
<1>t. NothingLost
  BY DEF IInv
<1>1. CASE \/ CreateDatabase \/ DropDatabase \/ RenameDatabase \/ Elapse \/ Record
           \/ LoadConfig \/ ReadInfo \/ EndPoll \/ ParseRow \/ Send
  <2>1. pc' \notin {"adds", "copies", "moves", "case"}
    BY <1>1 DEF CreateDatabase, DropDatabase, RenameDatabase, Elapse, Record,
                LoadConfig, ReadInfo, EndPoll, ParseRow, Send
  <2> QED
    BY <2>1 DEF NothingLost
<1>2. CASE Filter
  <2>1. pc' = "dropped" \/ rec' = made'
    BY <1>2 DEF Filter
  <2> QED
    BY <2>1 DEF NothingLost, Remnant
<1>3. CASE DoEntry
  <2>1. PICK k \in todo : rec' = Entry(k).rec
    BY <1>3 DEF DoEntry
  <2>2. UNCHANGED <<made, settings>> /\ pc \in {"adds", "copies", "moves"}
    BY <1>3 DEF DoEntry
  <2>3. Harmless' = Harmless
    BY <2>2 DEF Harmless, Destinations
  <2>4. Harmless => Present(made, rec)
    BY <1>t, <2>2, PresentIs
  <2>5. Harmless => Present(made, rec')
    BY <2>1, <2>2, <2>4, PresentKept
  <2> QED
    BY <2>2, <2>3, <2>5 DEF NothingLost, Present, Survives
<1>4. CASE NextMap
  <2>1. UNCHANGED <<made, rec, settings>> /\ pc \in {"adds", "copies", "moves"}
    BY <1>4 DEF NextMap
  <2>2. Harmless' = Harmless
    BY <2>1 DEF Harmless, Destinations
  <2> QED
    BY <1>t, <2>1, <2>2 DEF NothingLost
<1>5. CASE UNCHANGED vars
  <2>1. Harmless' = Harmless
    BY <1>5 DEF Harmless, Destinations
  <2> QED
    BY <1>t, <1>5, <2>1 DEF NothingLost
<1> QED
  BY <1>1, <1>2, <1>3, <1>4, <1>5, Steps DEF NextParts

(***************************************************************************)
(* What Parse keeps.                                                       *)
(***************************************************************************)
Same(e, out, k) == k \in DOMAIN e => k \in DOMAIN out /\ out[k] = e[k]

LEMMA PutSame ==
  ASSUME NEW e, NEW key, NEW v, NEW k, k # key
  PROVE  Same(e, Put(e, key, v), k)
BY DEF Same, Put

LEMMA PutAllSame ==
  ASSUME NEW e, NEW more, NEW k, k \notin DOMAIN more
  PROVE  Same(e, PutAll(e, more), k)
BY DEF Same, PutAll

LEMMA DerivedSame ==
  ASSUME NEW e, NEW keys, NEW k, k \notin keys
  PROVE  Same(e, WithDerived(e, keys), k)
BY PutAllSame DEF WithDerived

LEMMA SameThrough ==
  ASSUME NEW a, NEW b, NEW c, NEW k, Same(a, b, k), Same(b, c, k)
  PROVE  Same(a, c, k)
BY DEF Same

\* No text of the error log sets k.
NotInLog(x, k) ==
  x.name = "errorlog_written" => \A m \in DOMAIN MessageErrors : k \notin DOMAIN MessageErrors[m]

LEMMA ErrorLogSame ==
  ASSUME NEW x, NEW e, NEW k, k \notin SetByParse, NotInLog(x, k)
  PROVE  /\ Same(e, ErrorLog(x, e), k)
         /\ k \in DOMAIN ErrorLog(x, e) => k \in DOMAIN e
<1>1. CASE ErrorLog(x, e) = e
  BY <1>1 DEF Same
<1>2. CASE ErrorLog(x, e) # e
  <2> DEFINE said == e["message"].v
             found == IF said \in DOMAIN MessageErrors THEN MessageErrors[said] ELSE <<>>
             base == WithDerived(e, {"errorlog_raw", "errorlog_process", "errorlog_message"})
             more == [n \in DOMAIN found |-> Value(found[n], "int64")]
  <2>1. k \notin DOMAIN found
    <3>1. x.name = "errorlog_written"
      BY <1>2 DEF ErrorLog
    <3>2. CASE said \in DOMAIN MessageErrors
      BY <3>1, <3>2 DEF NotInLog
    <3>3. CASE said \notin DOMAIN MessageErrors
      BY <3>3, NoDatabases
    <3> QED
      BY <3>2, <3>3
  <2>2. ErrorLog(x, e) = PutAll(base, more)
    BY <1>2 DEF ErrorLog
  <2>3. k \notin DOMAIN more
    BY <2>1
  <2>4. k \notin {"errorlog_raw", "errorlog_process", "errorlog_message"}
    BY DEF SetByParse
  <2>5. Same(e, base, k) /\ (k \in DOMAIN base => k \in DOMAIN e)
    <3>1. Same(e, base, k)
      BY <2>4, DerivedSame
    <3>2. DOMAIN base = DOMAIN e \cup {"errorlog_raw", "errorlog_process", "errorlog_message"}
      BY DEF WithDerived, PutAll
    <3> QED
      BY <2>4, <3>1, <3>2
  <2> HIDE DEF more, base
  <2>6. Same(base, PutAll(base, more), k) /\ (k \in DOMAIN PutAll(base, more) => k \in DOMAIN base)
    BY <2>3, PutAllSame DEF PutAll
  <2> QED
    BY <2>2, <2>5, <2>6, SameThrough
<1> QED
  BY <1>1, <1>2

LEMMA SetDatabaseNameSame ==
  ASSUME NEW i, NEW x, NEW e, NEW k
  PROVE  Same(e, SetDatabaseName(i, x, e), k)
<1>1. CASE SetDatabaseName(i, x, e) = e
  BY <1>1 DEF Same
<1>2. CASE SetDatabaseName(i, x, e) # e
  <2>1. PICK v : SetDatabaseName(i, x, e) = Put(e, "database_name", v)
    BY <1>2 DEF SetDatabaseName
  <2>2. "database_name" \notin DOMAIN e
    BY <1>2 DEF SetDatabaseName
  <2>3. k = "database_name" => Same(e, SetDatabaseName(i, x, e), k)
    BY <2>2 DEF Same
  <2> QED
    BY <2>1, <2>3, PutSame
<1> QED
  BY <1>1, <1>2

LEMMA SetIfEmptySame ==
  ASSUME NEW e, NEW key, NEW v, NEW k
  PROVE  Same(e, SetIfEmpty(e, key, v), k)
BY DEF Same, SetIfEmpty, Put

LEMMA EnrichedSame ==
  ASSUME NEW i, NEW x, NEW e, NEW k, k \notin SetByParse
  PROVE  Same(e, Enriched(i, x, e), k)
<1> DEFINE server == Value(i.server, "string")
           logged == IF NumberIn(e, "error_number", i.loggedErrors)
                     THEN WithDerived(e, {"xe_is_event_logged"}) ELSE e
           put == Put(logged, "mssql_server_name", server)
           base == SetIfEmpty(put, "server_instance_name", server)
           all == WithDerived(base, {"xe_severity_value", "xe_severity_keyword", "mssql_domain",
                    "mssql_computer", "mssql_version", "mssql_product_version"})
<1>1. Same(e, logged, k)
  <2>1. k \notin {"xe_is_event_logged"}
    BY DEF SetByParse
  <2>2. Same(e, WithDerived(e, {"xe_is_event_logged"}), k)
    BY <2>1, DerivedSame
  <2> QED
    BY <2>2 DEF Same
<1> HIDE DEF logged
<1>2. Same(logged, put, k)
  <2>1. k # "mssql_server_name"
    BY DEF SetByParse
  <2> QED
    BY <2>1, PutSame
<1> HIDE DEF put
<1>3. Same(put, base, k)
  BY SetIfEmptySame
<1> HIDE DEF base
<1>4. Same(base, all, k)
  <2>1. k \notin {"xe_severity_value", "xe_severity_keyword", "mssql_domain",
                  "mssql_computer", "mssql_version", "mssql_product_version"}
    BY DEF SetByParse
  <2> QED
    BY <2>1, DerivedSame
<1>5. Enriched(i, x, e) = SetDatabaseName(i, x, all)
  BY DEF Enriched, base, put, logged
<1> HIDE DEF all
<1>6. Same(all, SetDatabaseName(i, x, all), k)
  BY SetDatabaseNameSame
<1>7. Same(e, put, k)
  BY <1>1, <1>2, SameThrough
<1>8. Same(e, all, k)
  BY <1>3, <1>4, <1>7, SameThrough
<1> QED
  BY <1>5, <1>6, <1>8, SameThrough

LEMMA DescribedSame ==
  ASSUME NEW i, NEW x, NEW e, NEW k, k \notin SetByParse
  PROVE  Same(e, Described(i, x, e), k)
<1> DEFINE login == x.name = "error_reported" /\ NumberIn(e, "error_number", i.loginErrors)
           keys == {"xe_description", "xe_category"} \cup AppSource(e)
                     \cup (IF login THEN {"login_failed"} ELSE {})
<1>1. AppSource(e) \subseteq {"xe_acct_app", "xe_acct_app_client"}
  BY DEF AppSource
<1>2. k \notin keys
  BY <1>1 DEF SetByParse
<1>3. Described(i, x, e) = WithDerived(e, keys)
  BY DEF Described
<1> HIDE DEF keys
<1> QED
  BY <1>2, <1>3, DerivedSame

\* The fields as the server has them, and the names they get.
Given(i, x) == WithActions(i, x, FromData(i, x))
Renamed(k) == IF k = "error" THEN "error_number" ELSE k

LEMMA RenameSame ==
  ASSUME NEW e, NEW k \in DOMAIN e, k = "error_number" => "error" \notin DOMAIN e
  PROVE  /\ Renamed(k) \in DOMAIN Rename(e, "error", "error_number")
         /\ Rename(e, "error", "error_number")[Renamed(k)] = e[k]
<1>1. CASE "error" \notin DOMAIN e
  BY <1>1 DEF Rename, Renamed
<1>2. CASE "error" \in DOMAIN e
  <2>1. PICK out : out = Rename(e, "error", "error_number")
    OBVIOUS
  <2>2. out = [n \in (DOMAIN e \ {"error"}) \cup {"error_number"} |->
                 IF n = "error_number" THEN e["error"] ELSE e[n]]
    BY <1>2, <2>1 DEF Rename
  <2>3. k # "error_number"
    BY <1>2
  <2>4. k = "error" => "error_number" \in DOMAIN out /\ out["error_number"] = e[k]
    BY <2>2
  <2>5. k # "error" => k \in DOMAIN out /\ out[k] = e[k]
    BY <2>2, <2>3
  <2> QED
    BY <2>1, <2>4, <2>5 DEF Renamed
<1> QED
  BY <1>1, <1>2

LEMMA ParseKeeps ==
  ASSUME NEW i, NEW x, NEW k \in DOMAIN Given(i, x), k \notin SetByParse,
         NotInLog(x, k), NotInLog(x, "error"),
         k = "error_number" => "error" \notin DOMAIN Given(i, x)
  PROVE  /\ Renamed(k) \in DOMAIN Parse(i, x)
         /\ Parse(i, x)[Renamed(k)] = Given(i, x)[k]
<1> DEFINE fields == Given(i, x)
           stamped == Put(fields, "timestamp", EventTime)
           named == Put(stamped, "name", Value(x.name, "string"))
           logged == ErrorLog(x, named)
           numbered == Rename(logged, "error", "error_number")
           enriched == Enriched(i, x, numbered)
<1>p. Parse(i, x) = Described(i, x, enriched)
  BY DEF Parse, Given
<1>k. k \in DOMAIN fields
  OBVIOUS
<1>e. k = "error_number" => "error" \notin DOMAIN fields
  OBVIOUS
<1>n. k \notin {"timestamp", "name"} /\ "error" \notin SetByParse
  BY DEF SetByParse
<1> HIDE DEF fields
<1>1. /\ k \in DOMAIN named /\ named[k] = fields[k]
      /\ "error" \in DOMAIN named => "error" \in DOMAIN fields
  BY <1>k, <1>n DEF Put
<1> HIDE DEF named
<1>2. /\ k \in DOMAIN logged /\ logged[k] = named[k]
      /\ "error" \in DOMAIN logged => "error" \in DOMAIN named
  <2>1. Same(named, logged, k)
    BY ErrorLogSame
  <2>2. "error" \in DOMAIN logged => "error" \in DOMAIN named
    BY <1>n, ErrorLogSame
  <2> QED
    BY <1>1, <2>1, <2>2 DEF Same
<1> HIDE DEF logged
<1>3. Renamed(k) \in DOMAIN numbered /\ numbered[Renamed(k)] = logged[k]
  BY <1>1, <1>2, <1>e, RenameSame
<1> HIDE DEF numbered
<1>r. Renamed(k) \notin SetByParse
  BY DEF Renamed, SetByParse
<1>4. Same(numbered, enriched, Renamed(k))
  BY <1>r, EnrichedSame
<1> HIDE DEF enriched
<1>5. Same(enriched, Described(i, x, enriched), Renamed(k))
  BY <1>r, DescribedSame
<1>6. Same(numbered, Parse(i, x), Renamed(k))
  BY <1>p, <1>4, <1>5, SameThrough
<1>7. Renamed(k) \in DOMAIN Parse(i, x) /\ Parse(i, x)[Renamed(k)] = numbered[Renamed(k)]
  BY <1>3, <1>6 DEF Same
<1> QED
  BY <1>1, <1>2, <1>3, <1>7 DEF fields

\* The key of an action.
ActionKey(i, x, a) == IF a \in DOMAIN FromData(i, x) THEN a \o "_action" ELSE a

GivenNames(x) == (DOMAIN x.data \ {"timestamp"}) \cup DOMAIN x.actions
FormedNames(x) == {x.name \o "_timestamp"} \cup {a \o "_action" : a \in DOMAIN x.actions}

LEMMA NamesStandApart ==
  ASSUME NEW x, NamesApart(x)
  PROVE  /\ GivenNames(x) \cap (FormedNames(x) \cup SetByParse) = {}
         /\ FormedNames(x) \cap (SetByParse \cup {"error", "error_number"}) = {}
         /\ \A a, b \in DOMAIN x.actions : /\ a \o "_action" # x.name \o "_timestamp"
                                           /\ a \o "_action" = b \o "_action" => a = b
         /\ "error" \in DOMAIN x.data => "error_number" \notin GivenNames(x)
         /\ "error" \in DOMAIN x.actions => "error" \in DOMAIN x.data
         /\ \A k \in GivenNames(x) \cup FormedNames(x) \cup {"error"} : NotInLog(x, k)
<1>1. x.name = "errorlog_written" =>
        \A m \in DOMAIN MessageErrors :
          DOMAIN MessageErrors[m] \cap (GivenNames(x) \cup FormedNames(x) \cup {"error"}) = {}
  BY DEF NamesApart, GivenNames, FormedNames
<1>2. \A k \in GivenNames(x) \cup FormedNames(x) \cup {"error"} : NotInLog(x, k)
  BY <1>1 DEF NotInLog
<1> QED
  BY <1>2 DEF NamesApart, GivenNames, FormedNames

LEMMA DataNames ==
  ASSUME NEW x, NEW f \in DOMAIN x.data
  PROVE  /\ f = "timestamp" => DataKey(x, f) = x.name \o "_timestamp" /\ DataKey(x, f) \in FormedNames(x)
         /\ f # "timestamp" => DataKey(x, f) = f /\ f \in GivenNames(x)
BY DEF DataKey, GivenNames, FormedNames

IsFromData(d, i, x) ==
  /\ DOMAIN d = {DataKey(x, f) : f \in DOMAIN x.data}
  /\ \A f \in DOMAIN x.data : d[DataKey(x, f)] = Typed(x.data[f], i.fields, <<x.name, f>>)

LEMMA FromDataIs ==
  ASSUME NEW i, NEW x, NamesApart(x)
  PROVE  IsFromData(FromData(i, x), i, x)
<1> DEFINE of(k) == CHOOSE f \in DOMAIN x.data : DataKey(x, f) = k
<1>1. FromData(i, x) = [k \in {DataKey(x, f) : f \in DOMAIN x.data} |->
                          Typed(x.data[of(k)], i.fields, <<x.name, of(k)>>)]
  BY DEF FromData
<1>2. ASSUME NEW f \in DOMAIN x.data PROVE of(DataKey(x, f)) = f
  <2>1. PICK g : g = of(DataKey(x, f))
    OBVIOUS
  <2>2. \E h \in DOMAIN x.data : DataKey(x, h) = DataKey(x, f)
    OBVIOUS
  <2>3. g \in DOMAIN x.data /\ DataKey(x, g) = DataKey(x, f)
    BY <2>1, <2>2
  <2>4. g = f
    BY <2>3, DataNames, NamesStandApart
  <2> QED
    BY <2>1, <2>4
<1> HIDE DEF of
<1>3. PICK d : d = FromData(i, x)
  OBVIOUS
<1>4. IsFromData(d, i, x)
  BY <1>1, <1>2, <1>3 DEF IsFromData
<1> QED
  BY <1>3, <1>4

LEMMA ErrorIsData ==
  ASSUME NEW i, NEW x, NamesApart(x)
  PROVE  "error" \in DOMAIN FromData(i, x) <=> "error" \in DOMAIN x.data
<1>1. \A f \in DOMAIN x.data : DataKey(x, f) = "error" <=> f = "error"
  BY DataNames, NamesStandApart
<1>2. PICK d : d = FromData(i, x)
  OBVIOUS
<1>3. IsFromData(d, i, x)
  BY <1>2, FromDataIs
<1>4. "error" \in DOMAIN d <=> "error" \in DOMAIN x.data
  BY <1>1, <1>3 DEF IsFromData
<1> QED
  BY <1>2, <1>4

LEMMA ActionKeyIs ==
  ASSUME NEW i, NEW x, NamesApart(x), NEW a \in ActionsKept(x)
  PROVE  /\ a \in DOMAIN x.actions
         /\ ActionKey(i, x, a) \in GivenNames(x) \cup FormedNames(x)
         /\ ActionKey(i, x, a) \notin DOMAIN FromData(i, x)
         /\ ActionKey(i, x, a) # "error"
         /\ \A b \in ActionsKept(x) : ActionKey(i, x, b) = ActionKey(i, x, a) => b = a
<1>0. ActionsKept(x) \subseteq DOMAIN x.actions
  BY DEF ActionsKept
<1>1. \A b \in ActionsKept(x) : /\ b \in GivenNames(x) /\ b \o "_action" \in FormedNames(x)
                               /\ b \o "_action" # x.name \o "_timestamp"
  BY <1>0, NamesStandApart DEF GivenNames, FormedNames
<1>2. \A k \in DOMAIN FromData(i, x) : k \in GivenNames(x) \/ k = x.name \o "_timestamp"
  <2>1. PICK d : d = FromData(i, x)
    OBVIOUS
  <2>2. IsFromData(d, i, x)
    BY <2>1, FromDataIs
  <2>3. \A k \in DOMAIN d : k \in GivenNames(x) \/ k = x.name \o "_timestamp"
    BY <2>2, DataNames DEF IsFromData
  <2> QED
    BY <2>1, <2>3
<1>3. ActionKey(i, x, a) \in GivenNames(x) \cup FormedNames(x)
  BY <1>1 DEF ActionKey
<1>4. ActionKey(i, x, a) \notin DOMAIN FromData(i, x)
  <2>1. CASE a \in DOMAIN FromData(i, x)
    BY <1>1, <1>2, <2>1, NamesStandApart DEF ActionKey
  <2>2. CASE a \notin DOMAIN FromData(i, x)
    BY <2>2 DEF ActionKey
  <2> QED
    BY <2>1, <2>2
<1>5. ActionKey(i, x, a) # "error"
  <2>1. CASE a \in DOMAIN FromData(i, x)
    BY <1>1, <2>1, NamesStandApart DEF ActionKey
  <2>2. CASE a \notin DOMAIN FromData(i, x)
    BY <1>0, <2>2, ErrorIsData, NamesStandApart DEF ActionKey
  <2> QED
    BY <2>1, <2>2
<1>6. ASSUME NEW b \in ActionsKept(x), ActionKey(i, x, b) = ActionKey(i, x, a) PROVE b = a
  <2>1. /\ GivenNames(x) \cap FormedNames(x) = {}
        /\ a \o "_action" = b \o "_action" => a = b
    BY <1>0, NamesStandApart
  <2> QED
    BY <1>1, <1>6, <2>1 DEF ActionKey
<1> QED
  BY <1>0, <1>3, <1>4, <1>5, <1>6

IsGiven(g, i, x) ==
  /\ DOMAIN g = DOMAIN FromData(i, x) \cup {ActionKey(i, x, a) : a \in ActionsKept(x)}
  /\ \A k \in DOMAIN FromData(i, x) : g[k] = FromData(i, x)[k]
  /\ \A a \in ActionsKept(x) : g[ActionKey(i, x, a)] = Typed(x.actions[a], i.actions, a)

LEMMA GivenIs ==
  ASSUME NEW i, NEW x, NamesApart(x)
  PROVE  IsGiven(Given(i, x), i, x)
<1> DEFINE data == FromData(i, x)
           keys == {ActionKey(i, x, a) : a \in ActionsKept(x)}
           of(k) == CHOOSE a \in ActionsKept(x) : ActionKey(i, x, a) = k
<1>1. Given(i, x) = [k \in DOMAIN data \cup keys |->
                       IF k \in keys THEN Typed(x.actions[of(k)], i.actions, of(k)) ELSE data[k]]
  BY DEF Given, WithActions, ActionKey
<1>2. \A k \in DOMAIN data : k \notin keys
  BY ActionKeyIs
<1>3. ASSUME NEW a \in ActionsKept(x) PROVE of(ActionKey(i, x, a)) = a
  <2>1. PICK b : b = of(ActionKey(i, x, a))
    OBVIOUS
  <2>2. \E c \in ActionsKept(x) : ActionKey(i, x, c) = ActionKey(i, x, a)
    OBVIOUS
  <2>3. b \in ActionsKept(x) /\ ActionKey(i, x, b) = ActionKey(i, x, a)
    BY <2>1, <2>2
  <2> QED
    BY <2>1, <2>3, ActionKeyIs
<1> HIDE DEF of
<1>4. PICK g : g = Given(i, x)
  OBVIOUS
<1>5. \A k \in DOMAIN data : g[k] = data[k]
  BY <1>1, <1>2, <1>4
<1>6. \A a \in ActionsKept(x) : g[ActionKey(i, x, a)] = Typed(x.actions[a], i.actions, a)
  BY <1>1, <1>3, <1>4
<1>7. DOMAIN g = DOMAIN data \cup keys
  BY <1>1, <1>4
<1>8. IsGiven(g, i, x)
  BY <1>5, <1>6, <1>7 DEF IsGiven
<1> QED
  BY <1>4, <1>8

HasAt(e, k, v) == k \in DOMAIN e /\ e[k] = v

\* A name that is given or formed keeps its value in Parse.
LEMMA NameKept ==
  ASSUME NEW i, NEW x, NamesApart(x), NEW k \in DOMAIN Given(i, x),
         k \in GivenNames(x) \cup FormedNames(x)
  PROVE  HasAt(Parse(i, x), Renamed(k), Given(i, x)[k])
<1>1. k \notin SetByParse /\ NotInLog(x, k) /\ NotInLog(x, "error")
  BY NamesStandApart
<1>2. ASSUME "error" \in DOMAIN Given(i, x) PROVE k # "error_number"
  <2>1. "error" \in DOMAIN FromData(i, x)
    <3>1. PICK g : g = Given(i, x)
      OBVIOUS
    <3>2. IsGiven(g, i, x)
      BY <3>1, GivenIs
    <3>3. \A a \in ActionsKept(x) : ActionKey(i, x, a) # "error"
      BY ActionKeyIs
    <3>4. "error" \in DOMAIN g
      BY <1>2, <3>1
    <3> QED
      BY <3>2, <3>3, <3>4 DEF IsGiven
  <2>2. "error" \in DOMAIN x.data
    BY <2>1, ErrorIsData
  <2> QED
    BY <2>2, NamesStandApart
<1> QED
  BY <1>1, <1>2, ParseKeeps DEF HasAt

\* The values that BothValuesKept is about.
AsGiven(v, x) == v.v = IF x.text # "" THEN x.text ELSE x.value

LEMMA TypedIs ==
  ASSUME NEW x, NEW types, NEW key
  PROVE  AsGiven(Typed(x, types, key), x)
BY DEF AsGiven, Typed, Value

LEMMA DataKept ==
  ASSUME NEW i, NEW x, NamesApart(x), NEW f \in DOMAIN x.data,
         NEW k, k = IF f = "error" THEN "error_number" ELSE DataKey(x, f)
  PROVE  /\ k \in DOMAIN Parse(i, x)
         /\ Parse(i, x)[k] = Typed(x.data[f], i.fields, <<x.name, f>>)
<1>1. PICK d : d = DataKey(x, f)
  OBVIOUS
<1>2. /\ d \in GivenNames(x) \cup FormedNames(x)
      /\ d = "error" <=> f = "error"
  BY <1>1, DataNames, NamesStandApart
<1>3. k = Renamed(d)
  BY <1>1, <1>2 DEF Renamed
<1>4. d \in DOMAIN Given(i, x) /\ Given(i, x)[d] = Typed(x.data[f], i.fields, <<x.name, f>>)
  <2>1. PICK e : e = FromData(i, x)
    OBVIOUS
  <2>2. IsFromData(e, i, x)
    BY <2>1, FromDataIs
  <2>3. d \in DOMAIN e /\ e[d] = Typed(x.data[f], i.fields, <<x.name, f>>)
    BY <1>1, <2>2 DEF IsFromData
  <2>4. PICK g : g = Given(i, x)
    OBVIOUS
  <2>5. IsGiven(g, i, x)
    BY <2>4, GivenIs
  <2>6. d \in DOMAIN g /\ g[d] = e[d]
    BY <2>1, <2>3, <2>5 DEF IsGiven
  <2> QED
    BY <2>3, <2>4, <2>6
<1>5. HasAt(Parse(i, x), Renamed(d), Given(i, x)[d])
  BY <1>2, <1>4, NameKept
<1> QED
  BY <1>3, <1>4, <1>5 DEF HasAt

LEMMA ActionKept ==
  ASSUME NEW i, NEW x, NamesApart(x), NEW a \in ActionsKept(x)
  PROVE  \E k \in {a, a \o "_action"} :
           /\ k \in DOMAIN Parse(i, x)
           /\ Parse(i, x)[k] = Typed(x.actions[a], i.actions, a)
<1>1. PICK k : k = ActionKey(i, x, a)
  OBVIOUS
<1>2. k \in GivenNames(x) \cup FormedNames(x) /\ k # "error" /\ k \in {a, a \o "_action"}
  BY <1>1, ActionKeyIs DEF ActionKey
<1>3. k \in DOMAIN Given(i, x) /\ Given(i, x)[k] = Typed(x.actions[a], i.actions, a)
  <2>1. PICK g : g = Given(i, x)
    OBVIOUS
  <2>2. IsGiven(g, i, x)
    BY <2>1, GivenIs
  <2>3. k \in DOMAIN g /\ g[k] = Typed(x.actions[a], i.actions, a)
    BY <1>1, <2>2 DEF IsGiven
  <2> QED
    BY <2>1, <2>3
<1>4. Renamed(k) = k
  BY <1>2 DEF Renamed
<1>5. HasAt(Parse(i, x), Renamed(k), Given(i, x)[k])
  BY <1>2, <1>3, NameKept
<1> QED
  BY <1>2, <1>3, <1>4, <1>5 DEF HasAt

LEMMA KindApart ==
  ASSUME SourceInv, xml # NoXml
  PROVE  NamesApart(xml)
<1>1. PICK k \in Kinds : xml.name = k.name /\ xml.data = k.data /\ xml.actions = k.actions
  BY DEF SourceInv
<1>2. NamesApart(k)
  BY FieldNamesAssumption
<1> QED
  BY <1>1, <1>2 DEF NamesApart

LEMMA KeptNow == IInv => BothValuesKept
<1> SUFFICES ASSUME IInv, Parsed PROVE BothValuesKept
  BY DEF BothValuesKept
<1>1. SourceInv /\ ParsedInv /\ TimesInv
  BY DEF IInv
<1>2. xml # NoXml /\ event = Parse(info, xml)
  BY <1>1 DEF Parsed, SourceInv, ParsedInv
<1>3. NamesApart(xml)
  BY <1>1, <1>2, KindApart
<1>4. ASSUME NEW f \in DOMAIN xml.data,
             NEW k, k = IF f = "error" THEN "error_number" ELSE DataKey(xml, f)
      PROVE  k \in DOMAIN event /\ AsGiven(event[k], xml.data[f])
  <2>1. k \in DOMAIN event /\ event[k] = Typed(xml.data[f], info.fields, <<xml.name, f>>)
    BY <1>2, <1>3, <1>4, DataKept
  <2> QED
    BY <2>1, TypedIs
<1>5. ASSUME NEW a \in ActionsKept(xml)
      PROVE  \E k \in {a, a \o "_action"} : k \in DOMAIN event /\ AsGiven(event[k], xml.actions[a])
  <2>1. PICK k \in {a, a \o "_action"} :
          k \in DOMAIN event /\ event[k] = Typed(xml.actions[a], info.actions, a)
    BY <1>2, <1>3, ActionKept
  <2> QED
    BY <2>1, TypedIs
<1> QED
  BY <1>4, <1>5 DEF BothValuesKept, AsGiven

(***************************************************************************)
(* What the settings of a source are made of.                              *)
(***************************************************************************)
LEMMA MaxOfTwo ==
  ASSUME NEW a \in Int, NEW b \in Int
  PROVE  Max({a, b}) \in Int /\ Max({a, b}) >= a /\ Max({a, b}) >= b
<1>1. \E x \in {a, b} : \A y \in {a, b} : x >= y
  <2>1. CASE a >= b
    BY <2>1
  <2>2. CASE b >= a
    BY <2>2
  <2> QED
    BY <2>1, <2>2
<1>2. PICK m : m = Max({a, b})
  OBVIOUS
<1>3. m \in {a, b} /\ \A y \in {a, b} : m >= y
  BY <1>1, <1>2 DEF Max
<1> QED
  BY <1>2, <1>3

\* What the properties ask of a source, [defaults] or settings.
Asks(s, start, back, events, flags) ==
  /\ s.startAt = start /\ s.lookBack = back
  /\ s.excludedEvents = events /\ s.flags = flags

LEMMA DecodedAsks ==
  ASSUME NEW s \in SourceFields
  PROVE  /\ Asks(DecodeKV(WithEnv(s)), s.startAt, s.lookBack, s.excludedEvents, s.flags)
         /\ DOMAIN DecodeKV(WithEnv(s)) = DOMAIN s
<1>1. PICK w : w = WithEnv(s)
  OBVIOUS
<1>2. /\ DOMAIN w = DOMAIN s
      /\ Asks(w, s.startAt, s.lookBack, s.excludedEvents, s.flags)
  BY <1>1 DEF WithEnv, Asks, SourceFields
<1>3. PICK v : v = DecodeKV(w)
  OBVIOUS
<1>4. /\ DOMAIN v = DOMAIN w
      /\ Asks(v, w.startAt, w.lookBack, w.excludedEvents, w.flags)
  BY <1>2, <1>3 DEF DecodeKV, Asks, SourceFields
<1> QED
  BY <1>1, <1>2, <1>3, <1>4 DEF Asks

LEMMA LookbackAsks ==
  ASSUME NEW s, NEW start \in Int, NEW back \in Int, NEW events, NEW flags, NEW now \in Int,
         "startAt" \in DOMAIN s, Asks(s, start, back, events, flags)
  PROVE  \E later \in Int :
           /\ Asks(ProcessLookback(s, now), later, back, events, flags)
           /\ later >= start
           /\ back # NoLookBack => later >= now - back
<1>1. CASE s.lookBack = NoLookBack
  <2>1. ProcessLookback(s, now) = s /\ back = NoLookBack
    BY <1>1 DEF ProcessLookback, Asks
  <2>2. start >= start
    OBVIOUS
  <2> QED
    BY <2>1, <2>2
<1>2. CASE s.lookBack # NoLookBack
  <2>1. PICK later : later = Max({start, now - back})
    OBVIOUS
  <2>2. later \in Int /\ later >= start /\ later >= now - back
    <3>1. now - back \in Int
      OBVIOUS
    <3> QED
      BY <2>1, <3>1, MaxOfTwo
  <2>3. ProcessLookback(s, now) = [s EXCEPT !.startAt = later]
    BY <1>2, <2>1 DEF ProcessLookback, Asks
  <2>4. Asks([s EXCEPT !.startAt = later], later, back, events, flags)
    BY DEF Asks
  <2> QED
    BY <2>2, <2>3, <2>4
<1> QED
  BY <1>1, <1>2

LEMMA DefaultAsks ==
  ASSUME NEW c, c.defaults \in SourceFields, NEW now \in Int
  PROVE  \E later \in Int :
           /\ Asks(DefaultSettings(c, now), later, c.defaults.lookBack,
                   c.defaults.excludedEvents, c.defaults.flags)
           /\ later >= c.defaults.startAt
<1>1. PICK s : s = c.defaults
  OBVIOUS
<1>2. PICK d : d = DecodeKV(WithEnv(s))
  OBVIOUS
<1>3. s \in SourceFields
  BY <1>1
<1>4. Asks(d, s.startAt, s.lookBack, s.excludedEvents, s.flags) /\ DOMAIN d = DOMAIN s
  BY <1>2, <1>3, DecodedAsks
<1>5. PICK e : e = [d EXCEPT !.stopAt = IF @ = NoTime THEN Forever ELSE @]
  OBVIOUS
<1>6. /\ DOMAIN e = DOMAIN s
      /\ Asks(e, s.startAt, s.lookBack, s.excludedEvents, s.flags)
  BY <1>4, <1>5 DEF Asks
<1>7. s.startAt \in Int /\ s.lookBack \in Int /\ "startAt" \in DOMAIN e
  BY <1>3, <1>6 DEF SourceFields
<1>8. PICK later \in Int :
        /\ Asks(ProcessLookback(e, now), later, s.lookBack, s.excludedEvents, s.flags)
        /\ later >= s.startAt
  BY <1>6, <1>7, LookbackAsks
<1>9. DefaultSettings(c, now) = ProcessLookback(e, now)
  BY <1>1, <1>2, <1>5 DEF DefaultSettings
<1> QED
  BY <1>1, <1>8, <1>9

\* What is asked for by a source, or else by the defaults.
Or(mine, unset, default) == IF mine # unset THEN mine ELSE default

LEMMA SourceAsks ==
  ASSUME NEW d, NEW v, NEW now \in Int, NEW dstart \in Int, NEW dback \in Int, NEW devents, NEW dflags,
         NEW start \in Int, NEW back \in Int, NEW events, NEW flags,
         Asks(d, dstart, dback, devents, dflags), Asks(v, start, back, events, flags)
  PROVE  \E later \in Int :
           /\ Asks(SourceSettings(d, v, now), later, Or(back, NoLookBack, dback), Or(events, {}, devents),
                   dflags \cup (flags \cap OverriddenFlags))
           /\ later >= Or(start, NoTime, dstart)
           /\ Or(back, NoLookBack, dback) # NoLookBack => later >= now - Or(back, NoLookBack, dback)
<1>1. PICK s :
        /\ SourceSettings(d, v, now) = ProcessLookback(s, now)
        /\ "startAt" \in DOMAIN s
        /\ Asks(s, Or(start, NoTime, dstart), Or(back, NoLookBack, dback), Or(events, {}, devents),
                dflags \cup (flags \cap OverriddenFlags))
  <2> DEFINE s ==
        [ text      |-> [x \in Texts |-> IF x \in Overridden
                           THEN Or(v.text[x], NotSet, d.text[x]) ELSE d.text[x]],
          flags     |-> d.flags \cup (v.flags \cap OverriddenFlags),
          sessions  |-> IF "ignore_sessions" \in v.flags THEN {}
                        ELSE Or(v.sessions, {}, d.sessions),
          excludedEvents |-> Or(v.excludedEvents, {}, d.excludedEvents),
          startAt   |-> Or(v.startAt, NoTime, d.startAt),
          stopAt    |-> Or(v.stopAt, NoTime, d.stopAt),
          lookBack  |-> Or(v.lookBack, NoLookBack, d.lookBack),
          adds      |-> MergeMaps(d.adds, v.adds),
          copies    |-> MergeMaps(d.copies, v.copies),
          moves     |-> MergeMaps(d.moves, v.moves),
          uppercase |-> v.uppercase \o d.uppercase,
          lowercase |-> v.lowercase \o d.lowercase ]
  <2>1. SourceSettings(d, v, now) = ProcessLookback(s, now)
    BY DEF SourceSettings, Or
  <2>2. /\ "startAt" \in DOMAIN s
        /\ Asks(s, Or(start, NoTime, dstart), Or(back, NoLookBack, dback), Or(events, {}, devents),
                dflags \cup (flags \cap OverriddenFlags))
    BY DEF Asks
  <2> HIDE DEF s
  <2> QED
    BY <2>1, <2>2
<1>2. Or(start, NoTime, dstart) \in Int /\ Or(back, NoLookBack, dback) \in Int
  BY DEF Or
<1> QED
  BY <1>1, <1>2, LookbackAsks

LEMMA EffectiveIs ==
  ASSUME NEW c \in Configs, NEW now \in Int, GetConfig(c, now) # Refused
  PROVE  /\ AllSources(c)[1] \in SourceFields
         /\ GetConfig(c, now)[1] = SourceSettings(DefaultSettings(c, now),
                                     DecodeKV(WithEnv(AllSources(c)[1])), now)
<1>1. PICK s : s = AllSources(c)
  OBVIOUS
<1>2. s \in Seq(SourceFields)
  BY <1>1, ConfigAssumption DEF AllSources
<1>3. GetConfig(c, now) = Effective(c, now) /\ Effective(c, now) # <<>>
  BY DEF GetConfig, Refused
<1>4. Effective(c, now) = [i \in DOMAIN s |->
        SourceSettings(DefaultSettings(c, now), DecodeKV(WithEnv(s[i])), now)]
  BY <1>1 DEF Effective
<1>5. Len(s) # 0
  <2> SUFFICES ASSUME Len(s) = 0 PROVE FALSE
    OBVIOUS
  <2>1. DOMAIN s = 1 .. 0
    BY <1>2
  <2>2. PICK e : e = Effective(c, now)
    OBVIOUS
  <2>3. e = [i \in 1 .. 0 |-> SourceSettings(DefaultSettings(c, now), DecodeKV(WithEnv(s[i])), now)]
    BY <1>4, <2>1, <2>2
  <2>4. e \in Seq(STRING) /\ Len(e) = 0
    <3>1. e \in [1 .. 0 -> STRING]
      BY <2>3
    <3> QED
      BY <3>1
  <2>5. e = <<>>
    BY <2>4
  <2> QED
    BY <1>3, <2>2, <2>5
<1>6. 1 \in DOMAIN s /\ s[1] \in SourceFields
  BY <1>2, <1>5
<1> QED
  BY <1>1, <1>3, <1>4, <1>6

\* What the settings in use have of what the files ask for.
LEMMA SettingsAre ==
  ASSUME SettingsInv, pc \notin {"boot", "refused"}
  PROVE  LET d == conf.defaults
             back == Or(Source.lookBack, NoLookBack, d.lookBack)
         IN /\ settings.startAt \in Int
            /\ settings.startAt >= Or(Source.startAt, NoTime, d.startAt)
            /\ Or(Source.startAt, NoTime, d.startAt) \in Int
            /\ back \in Int
            /\ back # NoLookBack => settings.startAt >= loadedAt - back
            /\ settings.excludedEvents = Or(Source.excludedEvents, {}, d.excludedEvents)
            /\ settings.flags = d.flags \cup (Source.flags \cap OverriddenFlags)
<1>1. /\ conf \in Configs /\ loadedAt \in 1 .. MaxTick
      /\ GetConfig(conf, loadedAt) # Refused /\ settings = GetConfig(conf, loadedAt)[1]
  BY DEF SettingsInv
<1>2. loadedAt \in Int
  BY <1>1, TickAssumption
<1>3. PICK s : s = Source
  OBVIOUS
<1>4. PICK d : d = conf.defaults
  OBVIOUS
<1>5. PICK base : base = DefaultSettings(conf, loadedAt)
  OBVIOUS
<1>6. PICK v : v = DecodeKV(WithEnv(s))
  OBVIOUS
<1>7. s \in SourceFields /\ settings = SourceSettings(base, v, loadedAt)
  BY <1>1, <1>2, <1>3, <1>5, <1>6, EffectiveIs DEF Source
<1>8. d \in SourceFields
  BY <1>1, <1>4, ConfigAssumption
<1>9. PICK dstart \in Int : /\ Asks(base, dstart, d.lookBack, d.excludedEvents, d.flags)
                            /\ dstart >= d.startAt
  BY <1>2, <1>4, <1>5, <1>8, DefaultAsks
<1>10. Asks(v, s.startAt, s.lookBack, s.excludedEvents, s.flags)
  BY <1>6, <1>7, DecodedAsks
<1>11. s.startAt \in Int /\ s.lookBack \in Int /\ d.startAt \in Int /\ d.lookBack \in Int
  BY <1>7, <1>8 DEF SourceFields
<1> DEFINE back == Or(s.lookBack, NoLookBack, d.lookBack)
           events == Or(s.excludedEvents, {}, d.excludedEvents)
           flags == d.flags \cup (s.flags \cap OverriddenFlags)
<1>12. PICK later \in Int :
         /\ Asks(settings, later, back, events, flags)
         /\ later >= Or(s.startAt, NoTime, dstart)
         /\ back # NoLookBack => later >= loadedAt - back
  BY <1>2, <1>7, <1>9, <1>10, <1>11, SourceAsks
<1>13. Or(s.startAt, NoTime, dstart) >= Or(s.startAt, NoTime, d.startAt)
       /\ Or(s.startAt, NoTime, d.startAt) \in Int /\ Or(s.startAt, NoTime, dstart) \in Int
       /\ back \in Int
  BY <1>9, <1>11 DEF Or
<1>14. later >= Or(s.startAt, NoTime, d.startAt)
  BY <1>12, <1>13
<1> HIDE DEF back, events, flags
<1>15. settings.startAt = later /\ settings.excludedEvents = events /\ settings.flags = flags
  BY <1>12 DEF Asks
<1> QED
  BY <1>3, <1>4, <1>12, <1>13, <1>14, <1>15 DEF back, events, flags

\* The number of an error_reported is an int64 in error_number.
LEMMA NumberKept ==
  ASSUME SourceInv, xml # NoXml, NamesApart(xml), xml.name = "error_reported",
         info.fields = Server.fields, NEW n,
         n \in {xml.data[f].value : f \in DOMAIN xml.data \cap {"error", "error_number"}}
  PROVE  IsNumber(WithDerived(Parse(info, xml), ReadFrom), "error_number", n)
<1>1. PICK k \in Kinds : xml.name = k.name /\ xml.data = k.data
  BY DEF SourceInv
<1>2. PICK f \in DOMAIN xml.data \cap {"error", "error_number"} : n = xml.data[f].value
  OBVIOUS
<1>3. /\ xml.data[f].text = ""
      /\ <<xml.name, f>> \in DOMAIN info.fields
      /\ info.fields[<<xml.name, f>>] = "int64"
  <2>1. k \in {x \in Kinds : x.name = "error_reported"}
    BY <1>1
  <2>2. f \in DOMAIN k.data \cap {"error", "error_number"}
    BY <1>1, <1>2
  <2>3. /\ k.data[f].text = ""
        /\ <<k.name, f>> \in DOMAIN Server.fields
        /\ Server.fields[<<k.name, f>>] = "int64"
    BY <2>1, <2>2, ErrorNumberAssumption
  <2> HIDE DEF SourceInv
  <2>4. k.name = xml.name /\ k.data = xml.data /\ info.fields = Server.fields
    BY <1>1
  <2> QED
    BY <2>3, <2>4
<1>4. Typed(xml.data[f], info.fields, <<xml.name, f>>) = Value(n, "int64")
  BY <1>2, <1>3 DEF Typed, Numeric
<1>5. "error_number" = IF f = "error" THEN "error_number" ELSE DataKey(xml, f)
  BY <1>2 DEF DataKey
<1>6. PICK e : e = Parse(info, xml)
  OBVIOUS
<1>7. "error_number" \in DOMAIN e /\ e["error_number"] = Value(n, "int64")
  BY <1>2, <1>4, <1>5, <1>6, DataKept
<1>8. Same(e, WithDerived(e, ReadFrom), "error_number")
  <2>1. "error_number" \notin ReadFrom
    BY DEF ReadFrom
  <2> QED
    BY <2>1, DerivedSame
<1>9. PICK w : w = WithDerived(e, ReadFrom)
  OBVIOUS
<1>10. "error_number" \in DOMAIN w /\ w["error_number"] = Value(n, "int64")
  BY <1>7, <1>8, <1>9 DEF Same
<1>11. IsNumber(w, "error_number", n)
  BY <1>10 DEF IsNumber, Value
<1> QED
  BY <1>6, <1>9, <1>11

LEMMA WantedNow == IInv => OnlyWantedSent
<1> SUFFICES ASSUME IInv, pc = "sent" PROVE OnlyWantedSent
  BY DEF OnlyWantedSent
<1>1. SourceInv /\ ParsedInv /\ TimesInv /\ SettingsInv
  BY DEF IInv
<1>2. /\ xml # NoXml /\ event = Parse(info, xml)
      /\ xml.name \notin settings.excludedEvents
      /\ ~(xml.time < settings.startAt)
      /\ "exclude_17830" \in settings.flags /\ xml.name = "error_reported" =>
           ~IsNumber(WithDerived(event, ReadFrom), "error_number", "17830")
  BY <1>1 DEF ParsedInv
<1>3. NamesApart(xml)
  BY <1>1, <1>2, KindApart
<1> DEFINE start == Or(Source.startAt, NoTime, conf.defaults.startAt)
           back == Or(Source.lookBack, NoLookBack, conf.defaults.lookBack)
<1>4. /\ settings.startAt \in Int /\ settings.startAt >= start /\ start \in Int /\ back \in Int
      /\ back # NoLookBack => settings.startAt >= loadedAt - back
      /\ settings.excludedEvents = Or(Source.excludedEvents, {}, conf.defaults.excludedEvents)
      /\ settings.flags = conf.defaults.flags \cup (Source.flags \cap OverriddenFlags)
  BY <1>1, SettingsAre
<1>5. xml.time \in Int /\ loadedAt \in Int
  BY <1>1, <1>2 DEF TimesInv, SettingsInv
<1> HIDE DEF start, back
<1>6. xml.time >= start
  BY <1>2, <1>4, <1>5
<1>7. back # NoLookBack => xml.time >= loadedAt - back
  BY <1>2, <1>4, <1>5
<1>8. \/ "exclude_17830" \notin Source.flags \cup conf.defaults.flags
      \/ xml.name # "error_reported"
      \/ info.fields # Server.fields
      \/ "17830" \notin {xml.data[f].value : f \in DOMAIN xml.data \cap {"error", "error_number"}}
  <2> SUFFICES ASSUME "exclude_17830" \in Source.flags \cup conf.defaults.flags,
                      xml.name = "error_reported", info.fields = Server.fields,
                      "17830" \in {xml.data[f].value : f \in DOMAIN xml.data \cap {"error", "error_number"}}
               PROVE  FALSE
    OBVIOUS
  <2>1. "exclude_17830" \in settings.flags
    BY <1>4 DEF OverriddenFlags
  <2> QED
    BY <1>1, <1>2, <1>3, <2>1, NumberKept
<1>9. xml.name \notin Or(Source.excludedEvents, {}, conf.defaults.excludedEvents)
  BY <1>2, <1>4
<1> QED
  BY <1>6, <1>7, <1>8, <1>9 DEF OnlyWantedSent, start, back, Or

(***************************************************************************)
(* The entries as changes of the content of the record.                    *)
(***************************************************************************)
LEMMA Comparable ==
  ASSUME NEW K, NEW p \in Seq(K), NEW s \in Seq(K), NEW q \in Seq(K),
         IsPrefix(p, q), IsPrefix(s, q)
  PROVE  ~Apart(p, s)
<1>1. /\ Len(p) <= Len(q) /\ \A i \in 1 .. Len(p) : p[i] = q[i]
      /\ Len(s) <= Len(q) /\ \A i \in 1 .. Len(s) : s[i] = q[i]
  BY PrefixIs
<1>2. CASE Len(p) <= Len(s)
  <2>1. \A i \in 1 .. Len(p) : p[i] = s[i]
    BY <1>1, <1>2
  <2>2. IsPrefix(p, s)
    BY <1>2, <2>1, PrefixIs
  <2> QED
    BY <2>2 DEF Apart
<1>3. CASE Len(s) <= Len(p)
  <2>1. \A i \in 1 .. Len(s) : s[i] = p[i]
    BY <1>1, <1>3
  <2>2. IsPrefix(s, p)
    BY <1>3, <2>1, PrefixIs
  <2> QED
    BY <2>2 DEF Apart
<1> QED
  BY <1>2, <1>3

LEMMA BelowPrefix ==
  ASSUME NEW K, NEW p \in Seq(K), NEW s \in Seq(K), NEW q \in Seq(K), IsPrefix(p, q)
  PROVE  Below(p, s, q) \in Seq(K) /\ IsPrefix(s, Below(p, s, q))
<1>1. Len(p) <= Len(q)
  BY PrefixIs
<1>2. PICK b : b = Below(p, s, q)
  OBVIOUS
<1>3. IsBelow(b, p, s, q, K)
  BY <1>1, <1>2, BelowIs
<1>4. /\ b \in Seq(K) /\ Len(b) = Len(s) + Len(q) - Len(p)
      /\ \A i \in 1 .. Len(s) : b[i] = s[i]
  BY <1>3 DEF IsBelow
<1>5. Len(s) <= Len(b)
  BY <1>1, <1>4
<1> QED
  BY <1>2, <1>4, <1>5, PrefixIs

\* Pairs of a path and a value; what the entry c, a pair of paths, makes of them.
PathPairs(b, K) == \A x \in b : x[1] \in Seq(K) /\ x = <<x[1], x[2]>>
Landed(c, b) == {<<Below(c[1], c[2], x[1]), Converted(x[2], x[1] = c[1])>> :
                   x \in {y \in b : IsPrefix(c[1], y[1])}}
Left(c, b) == {x \in b : ~IsPrefix(c[1], x[1])}

LEMMA ContentPairs ==
  ASSUME NEW K, NEW r, DOMAIN r \subseteq Seq(K)
  PROVE  PathPairs(Content(r), K)
BY DEF PathPairs, Content

LEMMA LandedPairs ==
  ASSUME NEW K, NEW b, PathPairs(b, K), NEW c, c[1] \in Seq(K), c[2] \in Seq(K)
  PROVE  PathPairs(Landed(c, b), K) /\ \A x \in Landed(c, b) : IsPrefix(c[2], x[1])
<1> SUFFICES ASSUME NEW x \in Landed(c, b)
             PROVE  x[1] \in Seq(K) /\ x = <<x[1], x[2]>> /\ IsPrefix(c[2], x[1])
  BY DEF PathPairs
<1>1. PICK y \in b :
        /\ IsPrefix(c[1], y[1])
        /\ x = <<Below(c[1], c[2], y[1]), Converted(y[2], y[1] = c[1])>>
  BY DEF Landed
<1>2. y[1] \in Seq(K)
  BY DEF PathPairs
<1>3. PICK q, v : q = Below(c[1], c[2], y[1]) /\ v = Converted(y[2], y[1] = c[1])
  OBVIOUS
<1>4. q \in Seq(K) /\ IsPrefix(c[2], q)
  BY <1>1, <1>2, <1>3, BelowPrefix
<1>5. x = <<q, v>>
  BY <1>1, <1>3
<1>6. x[1] = q /\ x[2] = v
  BY <1>5
<1> QED
  BY <1>4, <1>5, <1>6

LEMMA AddContent ==
  ASSUME NEW K, NEW r, DOMAIN r \subseteq Seq(K), NEW p \in Seq(K), NEW v,
         ~Exists(r, p), ClearOf(r, p)
  PROVE  /\ Content(AddEntry(r, p, v).rec) = Content(r) \cup {<<p, AddedValue(v)>>}
         /\ ~AddEntry(r, p, v).stop
<1>1. PICK o : o = Opened(r, p)
  OBVIOUS
<1>2. DOMAIN o = DOMAIN r /\ \A q \in DOMAIN r : o[q] = r[q]
  BY <1>1, OpenedIs
<1>3. p \notin DOMAIN r
  <2>1. IsPrefix(p, p)
    BY PrefixIs
  <2> QED
    BY <2>1 DEF Exists, Leaves
<1>4. PICK g : g = Put(o, p, AddedValue(v))
  OBVIOUS
<1>5. DOMAIN g = DOMAIN o \cup {p} /\ g[p] = AddedValue(v) /\ \A q \in DOMAIN o : q # p => g[q] = o[q]
  BY <1>4 DEF Put
<1>6. Content(g) = Content(r) \cup {<<p, AddedValue(v)>>}
  BY <1>2, <1>3, <1>5 DEF Content
<1>7. AddEntry(r, p, v) = GoneOn(g)
  BY <1>1, <1>4 DEF AddEntry
<1> QED
  BY <1>6, <1>7 DEF GoneOn

LEMMA GraftContent ==
  ASSUME NEW K, NEW r, DOMAIN r \subseteq Seq(K), NEW c, c[1] \in Seq(K), c[2] \in Seq(K),
         NEW g, IsGrafted(g, r, c[1], c[2], K)
  PROVE  Content(g) = Content(r) \cup Landed(c, Content(r))
<1>1. /\ DOMAIN g = DOMAIN r \cup {Below(c[1], c[2], q) : q \in Leaves(r, c[1])}
      /\ \A q \in DOMAIN r : g[q] = r[q]
      /\ \A q \in Leaves(r, c[1]) : g[Below(c[1], c[2], q)] = Converted(r[q], q = c[1])
  BY DEF IsGrafted
<1>2. Landed(c, Content(r)) = {<<Below(c[1], c[2], q), Converted(r[q], q = c[1])>> : q \in Leaves(r, c[1])}
  <2>1. ASSUME NEW x \in Landed(c, Content(r))
        PROVE  \E q \in Leaves(r, c[1]) : x = <<Below(c[1], c[2], q), Converted(r[q], q = c[1])>>
    <3>1. PICK y \in Content(r) :
            IsPrefix(c[1], y[1]) /\ x = <<Below(c[1], c[2], y[1]), Converted(y[2], y[1] = c[1])>>
      BY DEF Landed
    <3>2. PICK q \in DOMAIN r : y = <<q, r[q]>>
      BY DEF Content
    <3>3. y[1] = q /\ y[2] = r[q]
      BY <3>2
    <3>4. q \in Leaves(r, c[1])
      BY <3>1, <3>3 DEF Leaves
    <3> QED
      BY <3>1, <3>3, <3>4
  <2>2. ASSUME NEW q \in Leaves(r, c[1])
        PROVE  <<Below(c[1], c[2], q), Converted(r[q], q = c[1])>> \in Landed(c, Content(r))
    <3>1. PICK y : y = <<q, r[q]>>
      OBVIOUS
    <3>2. y[1] = q /\ y[2] = r[q]
      BY <3>1
    <3>3. q \in DOMAIN r /\ IsPrefix(c[1], q)
      BY DEF Leaves
    <3>4. y \in Content(r)
      BY <3>1, <3>3 DEF Content
    <3> QED
      BY <3>2, <3>3, <3>4 DEF Landed
  <2> QED
    BY <2>1, <2>2
<1>3. ASSUME NEW x \in Content(g)
      PROVE  \/ x \in Content(r)
             \/ \E q \in Leaves(r, c[1]) : x = <<Below(c[1], c[2], q), Converted(r[q], q = c[1])>>
  BY <1>1 DEF Content
<1>4. Content(r) \subseteq Content(g)
  BY <1>1 DEF Content
<1>5. ASSUME NEW q \in Leaves(r, c[1])
      PROVE  <<Below(c[1], c[2], q), Converted(r[q], q = c[1])>> \in Content(g)
  BY <1>1 DEF Content
<1> QED
  BY <1>2, <1>3, <1>4, <1>5

LEMMA NothingLanded ==
  ASSUME NEW r, NEW c, ~Exists(r, c[1])
  PROVE  Landed(c, Content(r)) = {} /\ Left(c, Content(r)) = Content(r)
<1>1. \A y \in Content(r) : ~IsPrefix(c[1], y[1])
  BY DEF Content, Exists, Leaves
<1> QED
  BY <1>1 DEF Landed, Left

LEMMA CopyContent ==
  ASSUME NEW K, NEW r, DOMAIN r \subseteq Seq(K), NEW c, c[1] \in Seq(K), c[2] \in Seq(K),
         ~Exists(r, c[2]), ClearOf(r, c[2])
  PROVE  /\ Content(CopyEntry(r, c[1], c[2]).rec) = Content(r) \cup Landed(c, Content(r))
         /\ ~CopyEntry(r, c[1], c[2]).stop
<1>1. CASE Exists(r, c[1])
  <2>1. PICK g : g = Grafted(r, c[1], c[2])
    OBVIOUS
  <2>2. IsGrafted(g, r, c[1], c[2], K)
    BY <2>1, GraftedIs
  <2>3. CopyEntry(r, c[1], c[2]) = GoneOn(g)
    BY <1>1, <2>1 DEF CopyEntry
  <2>4. Content(g) = Content(r) \cup Landed(c, Content(r))
    BY <2>2, GraftContent
  <2> QED
    BY <2>3, <2>4 DEF GoneOn
<1>2. CASE ~Exists(r, c[1])
  <2>1. CopyEntry(r, c[1], c[2]) = GoneOn(r)
    BY <1>2 DEF CopyEntry
  <2>2. Landed(c, Content(r)) = {}
    BY <1>2, NothingLanded
  <2> QED
    BY <2>1, <2>2 DEF GoneOn
<1> QED
  BY <1>1, <1>2

LEMMA DeleteContent ==
  ASSUME NEW g, NEW c
  PROVE  Content(Delete(g, c[1])) = Left(c, Content(g))
<1>1. PICK d : d = Delete(g, c[1])
  OBVIOUS
<1>2. /\ DOMAIN d = DOMAIN g \ Leaves(g, c[1])
      /\ \A q \in DOMAIN g \ Leaves(g, c[1]) : d[q] = g[q]
  <2>1. IsDeleted(d, g, c[1])
    BY <1>1, DeleteIs
  <2> QED
    BY <2>1 DEF IsDeleted
<1>3. DOMAIN d = {q \in DOMAIN g : ~IsPrefix(c[1], q)}
  BY <1>2 DEF Leaves
<1>4. ASSUME NEW x \in Content(d) PROVE x \in Left(c, Content(g))
  <2>1. PICK q \in DOMAIN d : x = <<q, d[q]>>
    BY DEF Content
  <2>2. q \in DOMAIN g /\ d[q] = g[q] /\ ~IsPrefix(c[1], q)
    BY <1>2, <1>3
  <2>3. x[1] = q
    BY <2>1
  <2> QED
    BY <2>1, <2>2, <2>3 DEF Left, Content
<1>5. ASSUME NEW x \in Left(c, Content(g)) PROVE x \in Content(d)
  <2>1. PICK q \in DOMAIN g : x = <<q, g[q]>>
    BY DEF Content, Left
  <2>2. ~IsPrefix(c[1], q)
    BY <2>1 DEF Left
  <2>3. q \in DOMAIN d /\ d[q] = g[q]
    BY <1>2, <1>3, <2>2
  <2> QED
    BY <2>1, <2>3 DEF Content
<1>6. Content(d) = Left(c, Content(g))
  BY <1>4, <1>5
<1> QED
  BY <1>1, <1>6

LEMMA MoveContent ==
  ASSUME NEW K, NEW r, DOMAIN r \subseteq Seq(K), NEW c, c[1] \in Seq(K), c[2] \in Seq(K),
         ~Exists(r, c[2]), ClearOf(r, c[2]), Apart(c[1], c[2])
  PROVE  /\ Content(MoveEntry(r, c[1], c[2]).rec) = Left(c, Content(r)) \cup Landed(c, Content(r))
         /\ ~MoveEntry(r, c[1], c[2]).stop
<1>1. CASE Exists(r, c[1])
  <2>1. PICK g : g = Grafted(r, c[1], c[2])
    OBVIOUS
  <2>2. IsGrafted(g, r, c[1], c[2], K)
    BY <2>1, GraftedIs
  <2>3. MoveEntry(r, c[1], c[2]) = GoneOn(Delete(g, c[1]))
    BY <1>1, <2>1 DEF MoveEntry
  <2>4. Content(g) = Content(r) \cup Landed(c, Content(r))
    BY <2>2, GraftContent
  <2>5. Content(Delete(g, c[1])) = Left(c, Content(g))
    BY DeleteContent
  <2>6. \A x \in Landed(c, Content(r)) : ~IsPrefix(c[1], x[1])
    <3>1. PathPairs(Content(r), K)
      BY ContentPairs
    <3>2. /\ PathPairs(Landed(c, Content(r)), K)
          /\ \A x \in Landed(c, Content(r)) : IsPrefix(c[2], x[1])
      BY <3>1, LandedPairs
    <3>3. \A x \in Landed(c, Content(r)) : x[1] \in Seq(K)
      BY <3>2 DEF PathPairs
    <3> QED
      BY <3>2, <3>3, Comparable
  <2>7. Left(c, Content(g)) = Left(c, Content(r)) \cup Landed(c, Content(r))
    BY <2>4, <2>6 DEF Left
  <2> QED
    BY <2>3, <2>5, <2>7 DEF GoneOn
<1>2. CASE ~Exists(r, c[1])
  <2>1. MoveEntry(r, c[1], c[2]) = GoneOn(r)
    BY <1>2 DEF MoveEntry
  <2>2. Landed(c, Content(r)) = {} /\ Left(c, Content(r)) = Content(r)
    BY <1>2, NothingLanded
  <2> QED
    BY <2>1, <2>2 DEF GoneOn
<1> QED
  BY <1>1, <1>2

(***************************************************************************)
(* Entries that stand apart, one after the other and at once.              *)
(***************************************************************************)
AllLanded(cs, b) == UNION {Landed(c, b) : c \in cs}
AllLeft(ms, b) == {x \in b : \A c \in ms : ~IsPrefix(c[1], x[1])}

LEMMA LandedNotBelow ==
  ASSUME NEW K, NEW b, PathPairs(b, K), NEW cs,
         \A e \in cs : e[1] \in Seq(K) /\ e[2] \in Seq(K),
         NEW p \in Seq(K), \A e \in cs : Apart(p, e[2]),
         NEW x \in AllLanded(cs, b)
  PROVE  ~IsPrefix(p, x[1])
<1>1. PICK e \in cs : x \in Landed(e, b)
  BY DEF AllLanded
<1>2. /\ PathPairs(Landed(e, b), K)
      /\ \A y \in Landed(e, b) : IsPrefix(e[2], y[1])
  BY <1>1, LandedPairs
<1>3. x[1] \in Seq(K) /\ IsPrefix(e[2], x[1])
  BY <1>1, <1>2 DEF PathPairs
<1> QED
  BY <1>1, <1>3, Comparable

OneMore(c, r, b, cs, ms) ==
  /\ Landed(c, r) = Landed(c, b)
  /\ Left(c, r) = AllLeft(ms \cup {c}, b) \cup AllLanded(cs, b)
  /\ AllLanded(cs \cup {c}, b) = AllLanded(cs, b) \cup Landed(c, b)

LEMMA OneMoreLands ==
  ASSUME NEW K, NEW b, PathPairs(b, K), NEW cs, NEW ms, NEW c, NEW r,
         \A e \in cs \cup ms \cup {c} : e[1] \in Seq(K) /\ e[2] \in Seq(K),
         \A e \in cs : Apart(c[1], e[2]), \A e \in ms : Apart(e[1], c[1]),
         r = AllLeft(ms, b) \cup AllLanded(cs, b)
  PROVE  OneMore(c, r, b, cs, ms)
<1>1. \A x \in AllLanded(cs, b) : ~IsPrefix(c[1], x[1])
  BY LandedNotBelow
<1>2. ASSUME NEW x \in b, IsPrefix(c[1], x[1]) PROVE x \in AllLeft(ms, b)
  <2>1. ASSUME NEW e \in ms PROVE ~IsPrefix(e[1], x[1])
    <3>1. x[1] \in Seq(K)
      BY DEF PathPairs
    <3> QED
      BY <1>2, <3>1, Comparable
  <2> QED
    BY <2>1 DEF AllLeft
<1>3. {y \in r : IsPrefix(c[1], y[1])} = {y \in b : IsPrefix(c[1], y[1])}
  BY <1>1, <1>2 DEF AllLeft
<1>4. Landed(c, r) = Landed(c, b)
  BY <1>3 DEF Landed
<1>5. Left(c, r) = AllLeft(ms \cup {c}, b) \cup AllLanded(cs, b)
  BY <1>1 DEF Left, AllLeft
<1>6. AllLanded(cs \cup {c}, b) = AllLanded(cs, b) \cup Landed(c, b)
  BY DEF AllLanded
<1> QED
  BY <1>4, <1>5, <1>6 DEF OneMore

LEMMA FreeDestination ==
  ASSUME NEW K, NEW b, PathPairs(b, K), NEW cs, NEW ms, NEW r,
         \A e \in cs : e[1] \in Seq(K) /\ e[2] \in Seq(K),
         NEW p \in Seq(K), \A e \in cs : Apart(p, e[2]), \A x \in b : Apart(p, x[1]),
         Content(r) = AllLeft(ms, b) \cup AllLanded(cs, b)
  PROVE  ~Exists(r, p)
<1>1. ASSUME NEW x \in Content(r) PROVE ~IsPrefix(p, x[1])
  BY LandedNotBelow DEF AllLeft, Apart
<1>2. ASSUME NEW q \in DOMAIN r PROVE ~IsPrefix(p, q)
  <2>1. <<q, r[q]>> \in Content(r)
    BY DEF Content
  <2> QED
    BY <1>1, <2>1
<1> QED
  BY <1>2 DEF Exists, Leaves

\* What ModsCommute says, with the entries as pairs of paths.
Base(as) == Content(made) \cup {<<Path[k], AddedValue(settings.adds[k])>> : k \in as}

LEMMA AtOnceIs ==
  ASSUME NEW as, NEW cs, NEW ms
  PROVE  AtOnce(as, cs, ms) =
           AllLeft(PairsOf(settings.moves, ms), Base(as))
             \cup AllLanded(PairsOf(settings.copies, cs) \cup PairsOf(settings.moves, ms), Base(as))
<1> DEFINE moved == PairsOf(settings.moves, ms)
           carried == PairsOf(settings.copies, cs) \cup moved
<1>1. AtOnce(as, cs, ms) =
        {x \in Base(as) : \A c \in moved : ~IsPrefix(c[1], x[1])}
          \cup UNION {{<<c[2] \o SubSeq(x[1], Len(c[1]) + 1, Len(x[1])),
                           Converted(x[2], x[1] = c[1])>> :
                         x \in {y \in Base(as) : IsPrefix(c[1], y[1])}} : c \in carried}
  BY DEF AtOnce, Base
<1> QED
  BY <1>1 DEF AllLeft, AllLanded, Landed, Below

\* What Independent says.
StandApart ==
  /\ \A a, b \in Added : a # b => Apart(a, b)
  /\ \A a \in Added, c \in Carried : Apart(a, c[2]) /\ Apart(c[2], a)
  /\ \A c, e \in Carried : c # e => Apart(c[2], e[2])
  /\ \A a \in Added, p \in DOMAIN made : Apart(a, p)
  /\ \A c \in Carried, p \in DOMAIN made : Apart(c[2], p)
  /\ \A c, e \in Carried : Apart(c[1], e[2])
  /\ \A c, e \in Moved : c # e => Apart(c[1], e[1])
  /\ Copied \cap Moved = {}

LEMMA IndependentIs ==
  ASSUME Independent
  PROVE  StandApart
<1> DEFINE adds == {"add"} \X Added
           carries == {"carry"} \X Carried
           To(x) == IF x[1] = "add" THEN x[2] ELSE x[2][2]
           dsts == [x \in adds \cup carries |-> To(x)]
<1>1. /\ \A x, y \in DOMAIN dsts : x # y => Apart(dsts[x], dsts[y])
      /\ \A x \in DOMAIN dsts, p \in DOMAIN made : Apart(dsts[x], p)
      /\ \A c \in Carried, e \in Carried : Apart(c[1], e[2])
      /\ \A c, e \in Moved : c # e => Apart(c[1], e[1])
      /\ Copied \cap Moved = {}
  <2>1. \A x, y \in DOMAIN dsts : x # y => Apart(dsts[x], dsts[y])
    BY Zenon DEF Independent
  <2>2. \A x \in DOMAIN dsts, p \in DOMAIN made : Apart(dsts[x], p)
    BY Zenon DEF Independent
  <2>3. \A c \in Carried, e \in Carried : Apart(c[1], e[2])
    BY Zenon DEF Independent
  <2>4. \A c, e \in Moved : c # e => Apart(c[1], e[1])
    BY Zenon DEF Independent
  <2>5. Copied \cap Moved = {}
    BY Zenon DEF Independent
  <2> QED
    BY <2>1, <2>2, <2>3, <2>4, <2>5
<1>2. DOMAIN dsts = adds \cup carries
  OBVIOUS
<1>3. \A x \in adds \cup carries : dsts[x] = To(x)
  OBVIOUS
<1> HIDE DEF dsts
<1>4. ASSUME NEW a \in Added
      PROVE  <<"add", a>> \in adds /\ To(<<"add", a>>) = a
  OBVIOUS
<1>5. ASSUME NEW c \in Carried
      PROVE  <<"carry", c>> \in carries /\ To(<<"carry", c>>) = c[2]
  OBVIOUS
<1>6. ASSUME NEW a \in Added PROVE <<"add", a>> \in DOMAIN dsts /\ dsts[<<"add", a>>] = a
  BY <1>2, <1>3, <1>4
<1>7. ASSUME NEW c \in Carried
      PROVE  <<"carry", c>> \in DOMAIN dsts /\ dsts[<<"carry", c>>] = c[2]
  BY <1>2, <1>3, <1>5
<1>8. ASSUME NEW a \in Added, NEW b \in Added, a # b PROVE Apart(a, b)
  <2>1. <<"add", a>> # <<"add", b>>
    BY <1>8
  <2> QED
    BY <1>1, <1>6, <2>1
<1>9. ASSUME NEW a \in Added, NEW c \in Carried PROVE Apart(a, c[2]) /\ Apart(c[2], a)
  <2>1. PICK x : x = <<"add", a>>
    OBVIOUS
  <2>2. PICK y : y = <<"carry", c>>
    OBVIOUS
  <2>3. x[1] = "add" /\ y[1] = "carry"
    BY <2>1, <2>2
  <2>4. x \in DOMAIN dsts /\ dsts[x] = a
    BY <1>6, <2>1
  <2>5. y \in DOMAIN dsts /\ dsts[y] = c[2]
    BY <1>7, <2>2
  <2>6. Apart(dsts[x], dsts[y]) /\ Apart(dsts[y], dsts[x])
    BY <1>1, <2>3, <2>4, <2>5
  <2> QED
    BY <2>4, <2>5, <2>6
<1>10. ASSUME NEW c \in Carried, NEW e \in Carried, c # e PROVE Apart(c[2], e[2])
  <2>1. <<"carry", c>> # <<"carry", e>>
    BY <1>10
  <2> QED
    BY <1>1, <1>7, <2>1
<1>11. ASSUME NEW a \in Added, NEW p \in DOMAIN made PROVE Apart(a, p)
  BY <1>1, <1>6
<1>12. ASSUME NEW c \in Carried, NEW p \in DOMAIN made PROVE Apart(c[2], p)
  BY <1>1, <1>7
<1> QED
  BY <1>1, <1>8, <1>9, <1>10, <1>11, <1>12 DEF StandApart

LEMMA IndependentHarmless ==
  ASSUME Independent
  PROVE  Harmless
<1>1. StandApart
  BY IndependentIs
<1>2. ASSUME NEW d \in Destinations PROVE d \in Added \/ \E c \in Carried : d = c[2]
  <2>1. PICK k \in DOMAIN settings.adds \cup Range(settings.copies) \cup Range(settings.moves) :
          d = Path[k]
    BY DEF Destinations
  <2>2. CASE k \in DOMAIN settings.adds
    BY <2>1, <2>2 DEF Added
  <2>3. CASE k \in Range(settings.copies)
    <3>1. PICK j \in DOMAIN settings.copies : k = settings.copies[j]
      BY <2>3 DEF Range
    <3>2. <<Path[j], d>> \in Carried
      BY <2>1, <3>1 DEF Carried, Copied, PairsOf
    <3> QED
      BY <3>2
  <2>4. CASE k \in Range(settings.moves)
    <3>1. PICK j \in DOMAIN settings.moves : k = settings.moves[j]
      BY <2>4 DEF Range
    <3>2. <<Path[j], d>> \in Carried
      BY <2>1, <3>1 DEF Carried, Moved, PairsOf
    <3> QED
      BY <3>2
  <2> QED
    BY <2>1, <2>2, <2>3, <2>4
<1>3. ASSUME NEW d \in Destinations, NEW p \in DOMAIN made PROVE Apart(d, p)
  BY <1>1, <1>2 DEF StandApart
<1>4. ASSUME NEW d \in Destinations, NEW e \in Destinations, d # e PROVE Apart(d, e)
  <2>1. CASE d \in Added /\ e \in Added
    BY <1>1, <1>4, <2>1 DEF StandApart
  <2>2. CASE d \in Added /\ e \notin Added
    BY <1>1, <1>2, <2>2 DEF StandApart
  <2>3. CASE d \notin Added /\ e \in Added
    BY <1>1, <1>2, <2>3 DEF StandApart
  <2>4. CASE d \notin Added /\ e \notin Added
    <3>1. PICK c \in Carried : d = c[2]
      BY <1>2, <2>4
    <3>2. PICK f \in Carried : e = f[2]
      BY <1>2, <2>4
    <3>3. c # f
      BY <1>4, <3>1, <3>2
    <3> QED
      BY <1>1, <3>1, <3>2, <3>3 DEF StandApart
  <2> QED
    BY <2>1, <2>2, <2>3, <2>4
<1>5. ASSUME NEW k \in DOMAIN settings.moves PROVE ~IsStrictPrefix(Path[k], Path[settings.moves[k]])
  <2>1. PICK c : c = <<Path[k], Path[settings.moves[k]]>>
    OBVIOUS
  <2>2. c \in Carried /\ c[1] = Path[k] /\ c[2] = Path[settings.moves[k]]
    BY <2>1 DEF Carried, Moved, PairsOf
  <2>3. Apart(c[1], c[2])
    BY <1>1, <2>2 DEF StandApart
  <2> QED
    BY <2>2, <2>3 DEF Apart, IsStrictPrefix
<1>6. ASSUME NEW d \in Destinations, NEW p \in DOMAIN made \cup Destinations
      PROVE  ~IsStrictPrefix(p, d)
  BY <1>3, <1>4 DEF Apart, IsStrictPrefix
<1> QED
  BY <1>5, <1>6 DEF Harmless

LEMMA SettingsPaths ==
  ASSUME SettingsInv, pc \notin {"boot", "refused"}, NEW n \in NamesIn(settings)
  PROVE  n \in DOMAIN Path /\ Path[n] \in Seq(FieldNames)
<1>1. /\ conf \in Configs /\ loadedAt \in 1 .. MaxTick
      /\ GetConfig(conf, loadedAt) # Refused /\ settings = GetConfig(conf, loadedAt)[1]
  BY DEF SettingsInv
<1>2. n \in DOMAIN Path
  BY <1>1, PathAssumption
<1>3. Path[n] \in Seq(STRING) /\ STRING \subseteq FieldNames
  BY <1>2, PathAssumption DEF FieldNames
<1> QED
  BY <1>2, <1>3, WiderPaths

\* An entry of the copies or moves, as a pair of paths.
Pair(m, k) == <<Path[k], Path[m[k]]>>

LEMMA PairIs ==
  ASSUME SettingsInv, pc \notin {"boot", "refused"},
         NEW m \in {settings.copies, settings.moves}, NEW k \in DOMAIN m
  PROVE  /\ Pair(m, k)[1] = Path[k] /\ Pair(m, k)[2] = Path[m[k]]
         /\ Path[k] \in Seq(FieldNames) /\ Path[m[k]] \in Seq(FieldNames)
         /\ k \in DOMAIN Path
<1>1. k \in NamesIn(settings) /\ m[k] \in NamesIn(settings)
  BY DEF NamesIn, Range
<1> QED
  BY <1>1, SettingsPaths DEF Pair

LEMMA PairsOfIs ==
  ASSUME NEW m, NEW keys
  PROVE  PairsOf(m, keys) = {Pair(m, k) : k \in keys}
BY DEF PairsOf, Pair

LEMMA CarriedIs ==
  ASSUME SettingsInv, pc \notin {"boot", "refused"}, NEW c \in Carried
  PROVE  c[1] \in Seq(FieldNames) /\ c[2] \in Seq(FieldNames)
<1>1. PICK m \in {settings.copies, settings.moves} : \E k \in DOMAIN m : c = Pair(m, k)
  BY PairsOfIs DEF Carried, Copied, Moved
<1>2. PICK k \in DOMAIN m : c = Pair(m, k)
  BY <1>1
<1> QED
  BY <1>2, PairIs

LEMMA BaseIs ==
  ASSUME SettingsInv, pc \notin {"boot", "refused"}, DOMAIN made \subseteq Seq(FieldNames),
         NEW as \in SUBSET DOMAIN settings.adds
  PROVE  /\ PathPairs(Base(as), FieldNames)
         /\ \A x \in Base(as) : x[1] \in DOMAIN made \/ \E k \in as : x[1] = Path[k]
<1> SUFFICES ASSUME NEW x \in Base(as)
             PROVE  /\ x[1] \in Seq(FieldNames) /\ x = <<x[1], x[2]>>
                    /\ x[1] \in DOMAIN made \/ \E k \in as : x[1] = Path[k]
  BY DEF PathPairs
<1>1. CASE x \in Content(made)
  <2>1. PICK p \in DOMAIN made : x = <<p, made[p]>>
    BY <1>1 DEF Content
  <2>2. x[1] = p /\ x[2] = made[p]
    BY <2>1
  <2> QED
    BY <2>1, <2>2
<1>2. CASE \E k \in as : x = <<Path[k], AddedValue(settings.adds[k])>>
  <2>1. PICK k \in as : x = <<Path[k], AddedValue(settings.adds[k])>>
    BY <1>2
  <2>2. x[1] = Path[k] /\ x[2] = AddedValue(settings.adds[k])
    BY <2>1
  <2>3. k \in NamesIn(settings)
    BY DEF NamesIn
  <2>4. Path[k] \in Seq(FieldNames)
    BY <2>3, SettingsPaths
  <2> QED
    BY <2>1, <2>2, <2>4
<1> QED
  BY <1>1, <1>2 DEF Base

LEMMA NoneYet ==
  ASSUME NEW m, NEW b
  PROVE  PairsOf(m, {}) = {} /\ AllLeft({}, b) = b /\ AllLanded({}, b) = {}
BY DEF PairsOf, AllLeft, AllLanded

\* What the lemmas on entries need of the invariant.
LEMMA InHand ==
  ASSUME IInv, Independent, pc \in {"adds", "copies", "moves"}
  PROVE  /\ SettingsInv /\ StandApart /\ pc \notin {"boot", "refused"}
         /\ DOMAIN made \subseteq Seq(FieldNames)
         /\ DOMAIN rec \subseteq Seq(FieldNames)
         /\ \A d \in Destinations : ClearOf(rec, d)
         /\ Content(rec) = AtOnce(DoneAdds, DoneCopies, DoneMoves)
         /\ pc = "adds" => todo \subseteq DOMAIN settings.adds
         /\ pc = "copies" => todo \subseteq DOMAIN settings.copies
         /\ pc = "moves" => todo \subseteq DOMAIN settings.moves
<1>1. SettingsInv /\ RecordInv /\ CommuteInv
  BY DEF IInv
<1>2. StandApart /\ Harmless
  BY IndependentIs, IndependentHarmless
<1>3. /\ DOMAIN rec \subseteq Seq(FieldNames)
      /\ \A d \in Destinations : ClearOf(rec, d)
  BY <1>1, <1>2 DEF RecordInv, ClearOf
<1>4. Content(rec) = AtOnce(DoneAdds, DoneCopies, DoneMoves)
  BY <1>1 DEF CommuteInv
<1> QED
  BY <1>1, <1>2, <1>3, <1>4 DEF RecordInv

LEMMA AddCommutes ==
  ASSUME IInv, Independent, pc = "adds", NEW k \in todo
  PROVE  /\ ~Entry(k).stop
         /\ Content(Entry(k).rec) = AtOnce(DOMAIN settings.adds \ (todo \ {k}), {}, {})
<1> DEFINE as == DOMAIN settings.adds \ todo
           v == AddedValue(settings.adds[k])
<1>1. /\ SettingsInv /\ StandApart
      /\ DOMAIN made \subseteq Seq(FieldNames) /\ DOMAIN rec \subseteq Seq(FieldNames)
      /\ \A d \in Destinations : ClearOf(rec, d)
      /\ Content(rec) = AtOnce(DoneAdds, DoneCopies, DoneMoves)
      /\ k \in DOMAIN settings.adds
  BY InHand
<1>2. \A bs \in SUBSET DOMAIN settings.adds : AtOnce(bs, {}, {}) = Base(bs)
  <2> TAKE bs \in SUBSET DOMAIN settings.adds
  <2>1. PICK b : b = Base(bs)
    OBVIOUS
  <2>2. AtOnce(bs, {}, {}) = AllLeft({}, b) \cup AllLanded({} \cup {}, b)
    BY <2>1, AtOnceIs, NoneYet
  <2> QED
    BY <2>1, <2>2, NoneYet
<1>3. Content(rec) = Base(as)
  <2>1. DoneAdds = as /\ DoneCopies = {} /\ DoneMoves = {}
    BY DEF DoneAdds, DoneCopies, DoneMoves
  <2> QED
    BY <1>1, <1>2, <2>1
<1>4. DOMAIN settings.adds \ (todo \ {k}) = as \cup {k}
  BY <1>1
<1>5. /\ k \in DOMAIN Path /\ Path[k] \in Seq(FieldNames)
      /\ \A j \in as : j \in DOMAIN Path
  <2>1. \A j \in as \cup {k} : j \in NamesIn(settings)
    BY <1>1 DEF NamesIn
  <2> QED
    BY <1>1, <2>1, SettingsPaths
<1>6. \A x \in Base(as) : ~IsPrefix(Path[k], x[1])
  <2> TAKE x \in Base(as)
  <2>1. x[1] \in DOMAIN made \/ \E j \in as : x[1] = Path[j]
    BY <1>1, BaseIs
  <2>2. Path[k] \in Added
    BY <1>1 DEF Added
  <2>3. CASE x[1] \in DOMAIN made
    BY <1>1, <2>2, <2>3 DEF StandApart, Apart
  <2>4. CASE \E j \in as : x[1] = Path[j]
    <3>1. PICK j \in as : x[1] = Path[j]
      BY <2>4
    <3>2. Path[j] # Path[k] /\ Path[j] \in Added
      BY <1>5, PathAssumption DEF Added
    <3> QED
      BY <1>1, <2>2, <3>1, <3>2 DEF StandApart, Apart
  <2> QED
    BY <2>1, <2>3, <2>4
<1>7. ~Exists(rec, Path[k])
  <2>1. ASSUME NEW q \in DOMAIN rec PROVE ~IsPrefix(Path[k], q)
    <3>1. <<q, rec[q]>> \in Base(as)
      BY <1>3 DEF Content
    <3> QED
      BY <1>6, <3>1
  <2> QED
    BY <2>1 DEF Exists, Leaves
<1>8. ClearOf(rec, Path[k])
  BY <1>1 DEF Destinations
<1>9. Entry(k) = AddEntry(rec, Path[k], settings.adds[k])
  BY DEF Entry
<1>10. Content(Entry(k).rec) = Content(rec) \cup {<<Path[k], v>>} /\ ~Entry(k).stop
  BY <1>1, <1>5, <1>7, <1>8, <1>9, AddContent
<1>11. Base(as \cup {k}) = Base(as) \cup {<<Path[k], v>>}
  BY DEF Base
<1>12. AtOnce(as \cup {k}, {}, {}) = Base(as \cup {k})
  BY <1>1, <1>2
<1> QED
  BY <1>3, <1>4, <1>10, <1>11, <1>12

\* All adds, the carries cs and of them the moves ms are done: one more.
LEMMA CarryReady ==
  ASSUME SettingsInv, StandApart, pc \notin {"boot", "refused"},
         DOMAIN made \subseteq Seq(FieldNames),
         NEW cs \in SUBSET Carried, NEW ms \in SUBSET Moved, NEW c \in Carried, c \notin cs,
         c \in Moved \/ ms = {}, ms \subseteq cs,
         Content(rec) = AllLeft(ms, Base(DOMAIN settings.adds))
                          \cup AllLanded(cs, Base(DOMAIN settings.adds))
  PROVE  /\ ~Exists(rec, c[2])
         /\ OneMore(c, Content(rec), Base(DOMAIN settings.adds), cs, ms)
<1>1. PICK b : b = Base(DOMAIN settings.adds)
  OBVIOUS
<1>2. PathPairs(b, FieldNames) /\ \A x \in b : x[1] \in DOMAIN made \cup Added
  <2>1. /\ PathPairs(Base(DOMAIN settings.adds), FieldNames)
        /\ \A x \in Base(DOMAIN settings.adds) :
              x[1] \in DOMAIN made \/ \E k \in DOMAIN settings.adds : x[1] = Path[k]
    BY BaseIs
  <2> QED
    BY <1>1, <2>1 DEF Added
<1>3. \A e \in cs \cup ms \cup {c} : e[1] \in Seq(FieldNames) /\ e[2] \in Seq(FieldNames)
  BY CarriedIs
<1>4. \A e \in cs : Apart(c[1], e[2])
  BY DEF StandApart
<1>5. \A e \in ms : Apart(e[1], c[1])
  BY DEF StandApart
<1>6. \A e \in cs : Apart(c[2], e[2])
  BY DEF StandApart
<1>7. \A x \in b : Apart(c[2], x[1])
  BY <1>2 DEF StandApart
<1>8. PICK r : r = Content(rec)
  OBVIOUS
<1>9. r = AllLeft(ms, b) \cup AllLanded(cs, b)
  BY <1>1, <1>8
<1>10. ~Exists(rec, c[2])
  <2>1. \A e \in cs : e[1] \in Seq(FieldNames) /\ e[2] \in Seq(FieldNames)
    BY <1>3
  <2>2. c[2] \in Seq(FieldNames)
    BY <1>3
  <2>3. PICK p : p = c[2]
    OBVIOUS
  <2>4. PathPairs(b, FieldNames) /\ Content(rec) = AllLeft(ms, b) \cup AllLanded(cs, b)
    BY <1>2, <1>8, <1>9
  <2>5. p \in Seq(FieldNames) /\ (\A e \in cs : Apart(p, e[2])) /\ (\A x \in b : Apart(p, x[1]))
    BY <1>6, <1>7, <2>2, <2>3
  <2>6. ~Exists(rec, p)
    BY <2>1, <2>4, <2>5, FreeDestination
  <2> QED
    BY <2>3, <2>6
<1>11. OneMore(c, r, b, cs, ms)
  BY <1>2, <1>3, <1>4, <1>5, <1>9, OneMoreLands
<1> QED
  BY <1>1, <1>8, <1>10, <1>11

LEMMA CopyCommutes ==
  ASSUME IInv, Independent, pc = "copies", NEW k \in todo
  PROVE  /\ ~Entry(k).stop
         /\ Content(Entry(k).rec)
              = AtOnce(DOMAIN settings.adds, DOMAIN settings.copies \ (todo \ {k}), {})
<1> DEFINE done == DOMAIN settings.copies \ todo
           cs == PairsOf(settings.copies, done)
<1>1. /\ SettingsInv /\ StandApart
      /\ DOMAIN made \subseteq Seq(FieldNames) /\ DOMAIN rec \subseteq Seq(FieldNames)
      /\ \A d \in Destinations : ClearOf(rec, d)
      /\ Content(rec) = AtOnce(DoneAdds, DoneCopies, DoneMoves)
      /\ k \in DOMAIN settings.copies
  BY InHand
<1>2. PICK b : b = Base(DOMAIN settings.adds)
  OBVIOUS
<1>3. \A keys : AtOnce(DOMAIN settings.adds, keys, {})
                = b \cup AllLanded(PairsOf(settings.copies, keys), b)
  <2> TAKE keys
  <2>1. AtOnce(DOMAIN settings.adds, keys, {})
          = AllLeft({}, b) \cup AllLanded(PairsOf(settings.copies, keys) \cup {}, b)
    BY <1>2, AtOnceIs, NoneYet
  <2>2. PairsOf(settings.copies, keys) \cup {} = PairsOf(settings.copies, keys)
    OBVIOUS
  <2> QED
    BY <2>1, <2>2, NoneYet
<1>4. Content(rec) = AllLeft({}, b) \cup AllLanded(cs, b)
  <2>1. DoneAdds = DOMAIN settings.adds /\ DoneCopies = done /\ DoneMoves = {}
    BY DEF DoneAdds, DoneCopies, DoneMoves
  <2> QED
    BY <1>1, <1>3, <2>1, NoneYet
<1>5. DOMAIN settings.copies \ (todo \ {k}) = done \cup {k}
  BY <1>1
<1>6. PICK c : c = Pair(settings.copies, k)
  OBVIOUS
<1>7. /\ c[1] = Path[k] /\ c[2] = Path[settings.copies[k]]
      /\ c[1] \in Seq(FieldNames) /\ c[2] \in Seq(FieldNames)
      /\ k \in DOMAIN Path
  BY <1>1, <1>6, PairIs
<1>8. c \in Carried /\ cs \subseteq Carried
  BY <1>1, <1>6, PairsOfIs DEF Carried, Copied
<1>9. c \notin cs
  <2> SUFFICES ASSUME NEW j \in done, c = Pair(settings.copies, j) PROVE FALSE
    BY PairsOfIs
  <2>1. c[1] = Path[j] /\ j \in DOMAIN Path
    BY <1>1, PairIs
  <2> QED
    BY <1>7, <2>1, PathAssumption
<1>10. PairsOf(settings.copies, done \cup {k}) = cs \cup {c}
  BY <1>6, PairsOfIs
<1> HIDE DEF done, cs
<1>11. ~Exists(rec, c[2]) /\ OneMore(c, Content(rec), b, cs, {})
  <2>1. {} \in SUBSET Moved /\ {} \subseteq cs /\ cs \in SUBSET Carried
    BY <1>8
  <2> QED
    BY <1>1, <1>2, <1>4, <1>8, <1>9, <2>1, CarryReady
<1>12. ClearOf(rec, c[2])
  BY <1>1, <1>7 DEF Destinations, Range
<1>13. Entry(k) = CopyEntry(rec, c[1], c[2])
  BY <1>7 DEF Entry
<1>14. Content(Entry(k).rec) = Content(rec) \cup Landed(c, Content(rec)) /\ ~Entry(k).stop
  BY <1>1, <1>7, <1>11, <1>12, <1>13, CopyContent
<1>15. Content(rec) = b \cup AllLanded(cs, b)
  BY <1>4, NoneYet
<1>16. Content(Entry(k).rec) = b \cup AllLanded(cs \cup {c}, b)
  BY <1>11, <1>14, <1>15 DEF OneMore
<1> QED
  BY <1>3, <1>5, <1>10, <1>14, <1>16

LEMMA MoveCommutes ==
  ASSUME IInv, Independent, pc = "moves", NEW k \in todo
  PROVE  /\ ~Entry(k).stop
         /\ Content(Entry(k).rec)
              = AtOnce(DOMAIN settings.adds, DOMAIN settings.copies,
                       DOMAIN settings.moves \ (todo \ {k}))
<1> DEFINE done == DOMAIN settings.moves \ todo
           ms == PairsOf(settings.moves, done)
           cs == Copied \cup ms
<1>1. /\ SettingsInv /\ StandApart
      /\ DOMAIN made \subseteq Seq(FieldNames) /\ DOMAIN rec \subseteq Seq(FieldNames)
      /\ \A d \in Destinations : ClearOf(rec, d)
      /\ Content(rec) = AtOnce(DoneAdds, DoneCopies, DoneMoves)
      /\ k \in DOMAIN settings.moves
  BY InHand
<1>2. PICK b : b = Base(DOMAIN settings.adds)
  OBVIOUS
<1>3. \A keys : AtOnce(DOMAIN settings.adds, DOMAIN settings.copies, keys)
                = AllLeft(PairsOf(settings.moves, keys), b)
                    \cup AllLanded(Copied \cup PairsOf(settings.moves, keys), b)
  BY <1>2, AtOnceIs DEF Copied
<1>4. Content(rec) = AllLeft(ms, b) \cup AllLanded(cs, b)
  <2>1. DoneAdds = DOMAIN settings.adds /\ DoneCopies = DOMAIN settings.copies /\ DoneMoves = done
    BY DEF DoneAdds, DoneCopies, DoneMoves
  <2> QED
    BY <1>1, <1>3, <2>1
<1>5. DOMAIN settings.moves \ (todo \ {k}) = done \cup {k}
  BY <1>1
<1>6. PICK c : c = Pair(settings.moves, k)
  OBVIOUS
<1>7. /\ c[1] = Path[k] /\ c[2] = Path[settings.moves[k]]
      /\ c[1] \in Seq(FieldNames) /\ c[2] \in Seq(FieldNames)
      /\ k \in DOMAIN Path
  BY <1>1, <1>6, PairIs
<1>8. c \in Moved /\ ms \subseteq Moved
  BY <1>1, <1>6, PairsOfIs DEF Moved
<1>9. c \in Carried /\ cs \subseteq Carried
  BY <1>8 DEF Carried
<1>10. c \notin ms
  <2> SUFFICES ASSUME NEW j \in done, c = Pair(settings.moves, j) PROVE FALSE
    BY PairsOfIs
  <2>1. c[1] = Path[j] /\ j \in DOMAIN Path
    BY <1>1, PairIs
  <2> QED
    BY <1>7, <2>1, PathAssumption
<1>11. c \notin cs
  BY <1>1, <1>8, <1>10 DEF StandApart
<1>12. PairsOf(settings.moves, done \cup {k}) = ms \cup {c}
  BY <1>6, PairsOfIs
<1>13. ms \subseteq cs /\ cs \cup {c} = Copied \cup (ms \cup {c})
  OBVIOUS
<1> HIDE DEF done, ms, cs
<1>14. ~Exists(rec, c[2]) /\ OneMore(c, Content(rec), b, cs, ms)
  <2>1. cs \in SUBSET Carried /\ ms \in SUBSET Moved
    BY <1>8, <1>9
  <2> QED
    BY <1>1, <1>2, <1>4, <1>8, <1>9, <1>11, <1>13, <2>1, CarryReady
<1>15. ClearOf(rec, c[2])
  BY <1>1, <1>7 DEF Destinations, Range
<1>16. Apart(c[1], c[2])
  BY <1>1, <1>9 DEF StandApart
<1>17. Entry(k) = MoveEntry(rec, c[1], c[2])
  BY <1>7 DEF Entry
<1>18. /\ Content(Entry(k).rec) = Left(c, Content(rec)) \cup Landed(c, Content(rec))
       /\ ~Entry(k).stop
  BY <1>1, <1>7, <1>14, <1>15, <1>16, <1>17, MoveContent
<1>19. Content(Entry(k).rec) = AllLeft(ms \cup {c}, b) \cup AllLanded(cs \cup {c}, b)
  BY <1>14, <1>18 DEF OneMore
<1> QED
  BY <1>3, <1>5, <1>12, <1>13, <1>18, <1>19

LEMMA CommuteStep == IInv /\ [Next]_vars => CommuteInv'
<1> SUFFICES ASSUME IInv, [Next]_vars PROVE CommuteInv'
  OBVIOUS
<1>t. CommuteInv
  BY DEF IInv
<1>1. CASE \/ CreateDatabase \/ DropDatabase \/ RenameDatabase \/ Elapse \/ Record
           \/ LoadConfig \/ ReadInfo \/ EndPoll \/ ParseRow \/ Send
  <2>1. pc' \notin {"adds", "copies", "moves", "case"}
    BY <1>1 DEF CreateDatabase, DropDatabase, RenameDatabase, Elapse, Record,
                LoadConfig, ReadInfo, EndPoll, ParseRow, Send
  <2> QED
    BY <2>1 DEF CommuteInv
<1>2. CASE Filter
  <2>1. pc' = "dropped" \/ (rec' = made' /\ todo' = DOMAIN settings.adds /\ pc' = "adds")
    BY <1>2 DEF Filter
  <2>2. settings' = settings
    BY <1>2 DEF Filter
  <2>3. pc' = "adds" => DoneAdds' = {} /\ DoneCopies' = {} /\ DoneMoves' = {}
    BY <2>1, <2>2 DEF DoneAdds, DoneCopies, DoneMoves
  <2>4. AtOnce({}, {}, {})' = Content(made)'
    BY DEF AtOnce, PairsOf
  <2> QED
    BY <2>1, <2>3, <2>4 DEF CommuteInv
<1>3. CASE DoEntry
  <2>1. PICK k \in todo : /\ rec' = Entry(k).rec
                          /\ todo' = IF Entry(k).stop THEN {} ELSE todo \ {k}
                          /\ pc' = IF Entry(k).stop THEN "case" ELSE pc
    BY <1>3 DEF DoEntry
  <2>2. UNCHANGED <<made, settings>> /\ pc \in {"adds", "copies", "moves"}
    BY <1>3 DEF DoEntry
  <2>3. Independent' = Independent
    BY <2>2 DEF Independent, Added, Carried, Copied, Moved, PairsOf
  <2> SUFFICES ASSUME Independent PROVE Content(rec') = AtOnce(DoneAdds, DoneCopies, DoneMoves)'
    BY <2>3 DEF CommuteInv, Content
  <2>4. \A as, cs, ms : AtOnce(as, cs, ms)' = AtOnce(as, cs, ms)
    BY <2>2 DEF AtOnce, PairsOf, Content
  <2>5. CASE pc = "adds"
    <3>1. ~Entry(k).stop /\ Content(rec') = AtOnce(DOMAIN settings.adds \ (todo \ {k}), {}, {})
      BY <2>1, <2>5, AddCommutes
    <3>2. DoneAdds' = DOMAIN settings.adds \ (todo \ {k}) /\ DoneCopies' = {} /\ DoneMoves' = {}
      BY <2>1, <2>2, <2>5, <3>1 DEF DoneAdds, DoneCopies, DoneMoves
    <3> QED
      BY <2>4, <3>1, <3>2
  <2>6. CASE pc = "copies"
    <3>1. /\ ~Entry(k).stop
          /\ Content(rec')
               = AtOnce(DOMAIN settings.adds, DOMAIN settings.copies \ (todo \ {k}), {})
      BY <2>1, <2>6, CopyCommutes
    <3>2. /\ DoneAdds' = DOMAIN settings.adds
          /\ DoneCopies' = DOMAIN settings.copies \ (todo \ {k})
          /\ DoneMoves' = {}
      BY <2>1, <2>2, <2>6, <3>1 DEF DoneAdds, DoneCopies, DoneMoves
    <3> QED
      BY <2>4, <3>1, <3>2
  <2>7. CASE pc = "moves"
    <3>1. /\ ~Entry(k).stop
          /\ Content(rec')
               = AtOnce(DOMAIN settings.adds, DOMAIN settings.copies,
                        DOMAIN settings.moves \ (todo \ {k}))
      BY <2>1, <2>7, MoveCommutes
    <3>2. /\ DoneAdds' = DOMAIN settings.adds /\ DoneCopies' = DOMAIN settings.copies
          /\ DoneMoves' = DOMAIN settings.moves \ (todo \ {k})
      BY <2>1, <2>2, <2>7, <3>1 DEF DoneAdds, DoneCopies, DoneMoves
    <3> QED
      BY <2>4, <3>1, <3>2
  <2> QED
    BY <2>2, <2>5, <2>6, <2>7
<1>4. CASE NextMap \/ UNCHANGED vars
  <2>1. UNCHANGED <<settings, rec, made>>
    BY <1>4 DEF NextMap
  <2>2. pc' \in {"adds", "copies", "moves", "case"} =>
          /\ pc \in {"adds", "copies", "moves", "case"}
          /\ DoneAdds' = DoneAdds /\ DoneCopies' = DoneCopies /\ DoneMoves' = DoneMoves
    <3>1. CASE NextMap
      <4>1. todo = {}
        BY <3>1 DEF NextMap
      <4> QED
        BY <2>1, <3>1, <4>1, NextMapGoes DEF DoneAdds, DoneCopies, DoneMoves
    <3>2. CASE UNCHANGED vars
      BY <3>2 DEF DoneAdds, DoneCopies, DoneMoves
    <3> QED
      BY <1>4, <3>1, <3>2
  <2>3. Independent' = Independent
    BY <2>1 DEF Independent, Added, Carried, Copied, Moved, PairsOf
  <2>4. \A as, cs, ms : AtOnce(as, cs, ms)' = AtOnce(as, cs, ms)
    BY <2>1 DEF AtOnce, PairsOf, Content
  <2> QED
    BY <1>t, <2>1, <2>2, <2>3, <2>4 DEF CommuteInv, Content
<1> QED
  BY <1>1, <1>2, <1>3, <1>4, Steps DEF NextParts

(***************************************************************************)
(* Every value of an event and of a record is a value.                     *)
(***************************************************************************)
ValuesOnly(e) == \A k \in DOMAIN e : DOMAIN e[k] = {"v", "t", "case", "conv"}

LEMMA ValueIs ==
  ASSUME NEW v, NEW t
  PROVE  DOMAIN Value(v, t) = {"v", "t", "case", "conv"}
BY DEF Value

LEMMA ConvertedValue ==
  ASSUME NEW x, NEW whole, DOMAIN x = {"v", "t", "case", "conv"}
  PROVE  DOMAIN Converted(x, whole) = {"v", "t", "case", "conv"}
BY DEF Converted

LEMMA AddedIsValue ==
  ASSUME NEW s
  PROVE  DOMAIN AddedValue(s) = {"v", "t", "case", "conv"}
<1>1. CASE s \in DOMAIN Literals
  <2>1. PICK v, t : Literals[s] = Value(v, t)
    BY <1>1, LiteralAssumption
  <2> QED
    BY <1>1, <2>1, ValueIs DEF AddedValue
<1>2. CASE s \notin DOMAIN Literals
  BY <1>2, ValueIs, ConvertedValue DEF AddedValue
<1> QED
  BY <1>1, <1>2

LEMMA TypedValue ==
  ASSUME NEW x, NEW types, NEW key
  PROVE  DOMAIN Typed(x, types, key) = {"v", "t", "case", "conv"}
BY ValueIs DEF Typed

\* e may only grow, and only by values.
Grows(e, out) == DOMAIN e \subseteq DOMAIN out /\ (ValuesOnly(e) => ValuesOnly(out))

LEMMA GrowsOn ==
  ASSUME NEW a, NEW b, NEW c, Grows(a, b), Grows(b, c)
  PROVE  Grows(a, c)
BY DEF Grows

LEMMA PutGrows ==
  ASSUME NEW e, NEW k, NEW v, DOMAIN v = {"v", "t", "case", "conv"}
  PROVE  Grows(e, Put(e, k, v))
BY DEF Grows, ValuesOnly, Put

LEMMA PutAllGrows ==
  ASSUME NEW e, NEW more, ValuesOnly(more)
  PROVE  Grows(e, PutAll(e, more))
BY DEF Grows, ValuesOnly, PutAll

LEMMA DerivedGrows ==
  ASSUME NEW e, NEW keys
  PROVE  Grows(e, WithDerived(e, keys))
<1> DEFINE more == [k \in keys |-> Derived(k)]
<1>1. ValuesOnly(more)
  BY ValueIs DEF ValuesOnly, Derived
<1>2. WithDerived(e, keys) = PutAll(e, more)
  BY DEF WithDerived
<1> HIDE DEF more
<1> QED
  BY <1>1, <1>2, PutAllGrows

LEMMA ErrorLogGrows ==
  ASSUME NEW x, NEW e
  PROVE  Grows(e, ErrorLog(x, e))
<1>1. CASE ErrorLog(x, e) = e
  BY <1>1 DEF Grows
<1>2. CASE ErrorLog(x, e) # e
  <2> DEFINE said == e["message"].v
             found == IF said \in DOMAIN MessageErrors THEN MessageErrors[said] ELSE <<>>
             base == WithDerived(e, {"errorlog_raw", "errorlog_process", "errorlog_message"})
             more == [n \in DOMAIN found |-> Value(found[n], "int64")]
  <2>1. ErrorLog(x, e) = PutAll(base, more)
    BY <1>2 DEF ErrorLog
  <2>2. ValuesOnly(more)
    BY ValueIs DEF ValuesOnly
  <2>3. Grows(e, base)
    BY DerivedGrows
  <2> HIDE DEF more, base
  <2>4. Grows(base, PutAll(base, more))
    BY <2>2, PutAllGrows
  <2> QED
    BY <2>1, <2>3, <2>4, GrowsOn
<1> QED
  BY <1>1, <1>2

LEMMA SetDatabaseNameGrows ==
  ASSUME NEW i, NEW x, NEW e
  PROVE  Grows(e, SetDatabaseName(i, x, e))
<1>1. CASE SetDatabaseName(i, x, e) = e
  BY <1>1 DEF Grows
<1>2. CASE SetDatabaseName(i, x, e) # e
  <2>1. PICK n : SetDatabaseName(i, x, e) = Put(e, "database_name", Value(n, "string"))
    BY <1>2 DEF SetDatabaseName
  <2>2. Grows(e, Put(e, "database_name", Value(n, "string")))
    BY ValueIs, PutGrows
  <2> QED
    BY <2>1, <2>2
<1> QED
  BY <1>1, <1>2

LEMMA EnrichedGrows ==
  ASSUME NEW i, NEW x, NEW e
  PROVE  Grows(e, Enriched(i, x, e))
<1> DEFINE server == Value(i.server, "string")
           logged == IF NumberIn(e, "error_number", i.loggedErrors)
                     THEN WithDerived(e, {"xe_is_event_logged"}) ELSE e
           put == Put(logged, "mssql_server_name", server)
           base == SetIfEmpty(put, "server_instance_name", server)
           all == WithDerived(base, {"xe_severity_value", "xe_severity_keyword", "mssql_domain",
                    "mssql_computer", "mssql_version", "mssql_product_version"})
<1>0. DOMAIN server = {"v", "t", "case", "conv"}
  BY ValueIs
<1> HIDE DEF server
<1>1. Grows(e, logged)
  <2>1. Grows(e, WithDerived(e, {"xe_is_event_logged"})) /\ Grows(e, e)
    BY DerivedGrows DEF Grows
  <2> QED
    BY <2>1
<1> HIDE DEF logged
<1>2. Grows(logged, put)
  BY <1>0, PutGrows
<1> HIDE DEF put
<1>3. Grows(put, base)
  <2>1. Grows(put, Put(put, "server_instance_name", server)) /\ Grows(put, put)
    BY <1>0, PutGrows DEF Grows
  <2> QED
    BY <2>1 DEF SetIfEmpty
<1> HIDE DEF base
<1>4. Grows(base, all)
  BY DerivedGrows
<1>5. Enriched(i, x, e) = SetDatabaseName(i, x, all)
  BY DEF Enriched, base, put, logged, server
<1> HIDE DEF all
<1>6. Grows(all, SetDatabaseName(i, x, all))
  BY SetDatabaseNameGrows
<1>7. Grows(e, put)
  BY <1>1, <1>2, GrowsOn
<1>8. Grows(e, all)
  BY <1>3, <1>4, <1>7, GrowsOn
<1> QED
  BY <1>5, <1>6, <1>8, GrowsOn

LEMMA DescribedGrows ==
  ASSUME NEW i, NEW x, NEW e
  PROVE  Grows(e, Described(i, x, e))
<1>1. PICK keys : Described(i, x, e) = WithDerived(e, keys)
  BY DEF Described
<1> QED
  BY <1>1, DerivedGrows

LEMMA GivenValues ==
  ASSUME NEW i, NEW x
  PROVE  ValuesOnly(Given(i, x))
<1>1. PICK d : d = FromData(i, x)
  OBVIOUS
<1>2. ValuesOnly(d)
  BY <1>1, TypedValue DEF ValuesOnly, FromData
<1>3. PICK g : g = WithActions(i, x, d)
  OBVIOUS
<1>4. \A k \in DOMAIN g : (k \in DOMAIN d /\ g[k] = d[k]) \/ \E y, t, key : g[k] = Typed(y, t, key)
  BY <1>3 DEF WithActions
<1>5. ValuesOnly(g)
  BY <1>2, <1>4, TypedValue DEF ValuesOnly
<1> QED
  BY <1>1, <1>3, <1>5 DEF Given

LEMMA ParseValues ==
  ASSUME NEW i, NEW x
  PROVE  ValuesOnly(Parse(i, x)) /\ "timestamp" \in DOMAIN Parse(i, x)
<1> DEFINE fields == Given(i, x)
           stamped == Put(fields, "timestamp", EventTime)
           named == Put(stamped, "name", Value(x.name, "string"))
           logged == ErrorLog(x, named)
           numbered == Rename(logged, "error", "error_number")
           enriched == Enriched(i, x, numbered)
<1>p. Parse(i, x) = Described(i, x, enriched)
  BY DEF Parse, Given
<1>1. ValuesOnly(fields)
  BY GivenValues
<1> HIDE DEF fields
<1>2. ValuesOnly(stamped) /\ "timestamp" \in DOMAIN stamped
  <2>1. Grows(fields, stamped)
    BY ValueIs, PutGrows DEF EventTime
  <2>2. "timestamp" \in DOMAIN stamped
    BY DEF Put
  <2> QED
    BY <1>1, <2>1, <2>2 DEF Grows
<1> HIDE DEF stamped
<1>3. Grows(stamped, named)
  BY ValueIs, PutGrows
<1> HIDE DEF named
<1>4. Grows(named, logged)
  BY ErrorLogGrows
<1>5. ValuesOnly(logged) /\ "timestamp" \in DOMAIN logged
  BY <1>2, <1>3, <1>4 DEF Grows
<1> HIDE DEF logged
<1>6. ValuesOnly(numbered) /\ "timestamp" \in DOMAIN numbered
  BY <1>5 DEF Rename, ValuesOnly
<1> HIDE DEF numbered
<1>7. Grows(numbered, enriched)
  BY EnrichedGrows
<1> HIDE DEF enriched
<1>8. Grows(enriched, Described(i, x, enriched))
  BY DescribedGrows
<1>9. ValuesOnly(enriched) /\ "timestamp" \in DOMAIN enriched
  BY <1>6, <1>7 DEF Grows
<1> QED
  BY <1>p, <1>8, <1>9 DEF Grows

LEMMA DeleteValues ==
  ASSUME NEW r, NEW p, ValuesOnly(r)
  PROVE  ValuesOnly(Delete(r, p))
BY DEF ValuesOnly, Delete, Restrict

LEMMA BuildValues ==
  ASSUME NEW e, ValuesOnly(e), "timestamp" \in DOMAIN e
  PROVE  ValuesOnly(Build(e))
<1> DEFINE payload == settings.text["payload_field_name"]
           stamp == settings.text["timestamp_field_name"]
           Under(k) == IF payload = NotSet THEN <<k>> ELSE <<payload, k>>
           placed == [p \in {Under(k) : k \in DOMAIN e} |-> e[p[Len(p)]]]
           stamped == Put(placed, <<stamp>>, e["timestamp"])
<1>1. ASSUME NEW k \in DOMAIN e, NEW p, p = Under(k)
      PROVE  e[p[Len(p)]] = e[k]
  <2>1. CASE p = <<k>>
    <3>1. Len(p) = 1 /\ p[1] = k
      BY <2>1
    <3> QED
      BY <3>1
  <2>2. CASE p = <<payload, k>>
    <3>1. Len(p) = 2 /\ p[2] = k
      BY <2>2
    <3> QED
      BY <3>1
  <2> QED
    BY <1>1, <2>1, <2>2
<1>2. ValuesOnly(placed)
  BY <1>1 DEF ValuesOnly
<1> HIDE DEF placed
<1>3. ValuesOnly(stamped)
  <2>1. Grows(placed, stamped)
    BY PutGrows DEF ValuesOnly
  <2> QED
    BY <1>2, <2>1 DEF Grows
<1> HIDE DEF stamped
<1>4. Build(e) \in {stamped, Delete(stamped, <<"timestamp">>)}
  BY DEF Build, stamped, placed
<1>5. ValuesOnly(Delete(stamped, <<"timestamp">>))
  BY <1>3, DeleteValues
<1> QED
  BY <1>3, <1>4, <1>5

LEMMA OpenedValues ==
  ASSUME NEW r, NEW p, ValuesOnly(r)
  PROVE  ValuesOnly(Opened(r, p))
BY DEF ValuesOnly, Opened, Restrict

LEMMA GraftedValues ==
  ASSUME NEW r, NEW from, NEW to, ValuesOnly(r)
  PROVE  ValuesOnly(Grafted(r, from, to))
<1> DEFINE Rebased(q) == to \o SubSeq(q, Len(from) + 1, Len(q))
           new == {Rebased(q) : q \in Leaves(r, from)}
           source(p) == CHOOSE q \in Leaves(r, from) : Rebased(q) = p
<1>1. PICK o : o = Opened(r, to)
  OBVIOUS
<1>2. DOMAIN o \subseteq DOMAIN r
  BY <1>1 DEF Opened, Restrict
<1>3. PICK g : g = Grafted(r, from, to)
  OBVIOUS
<1>4. g = [p \in DOMAIN o \cup new |->
             IF p \in new THEN Converted(r[source(p)], source(p) = from) ELSE r[p]]
  BY <1>1, <1>3 DEF Grafted
<1>5. \A p \in new : source(p) \in Leaves(r, from)
  OBVIOUS
<1> HIDE DEF new, source
<1>6. \A p \in new : source(p) \in DOMAIN r
  BY <1>5 DEF Leaves
<1>7. \A p \in new : DOMAIN Converted(r[source(p)], source(p) = from) = {"v", "t", "case", "conv"}
  BY <1>6, ConvertedValue DEF ValuesOnly
<1>8. ValuesOnly(g)
  BY <1>2, <1>4, <1>7 DEF ValuesOnly
<1> QED
  BY <1>3, <1>8

LEMMA EntryValues ==
  ASSUME ValuesOnly(rec), pc \in {"adds", "copies", "moves"}, NEW k
  PROVE  ValuesOnly(Entry(k).rec)
<1>1. CASE pc = "adds"
  <2>1. PICK v : v = AddedValue(settings.adds[k])
    OBVIOUS
  <2>2. Entry(k) = AddEntry(rec, Path[k], settings.adds[k])
    BY <1>1 DEF Entry
  <2>3. ValuesOnly(Put(Opened(rec, Path[k]), Path[k], v))
    BY <2>1, OpenedValues, PutGrows, AddedIsValue DEF Grows
  <2> QED
    BY <2>1, <2>2, <2>3 DEF AddEntry, Stopped, GoneOn
<1>2. CASE pc = "copies"
  <2>1. Entry(k) = CopyEntry(rec, Path[k], Path[settings.copies[k]])
    BY <1>2 DEF Entry
  <2>2. ValuesOnly(Grafted(rec, Path[k], Path[settings.copies[k]]))
    BY GraftedValues
  <2> QED
    BY <2>1, <2>2 DEF CopyEntry, Stopped, GoneOn
<1>3. CASE pc = "moves"
  <2>1. Entry(k) = MoveEntry(rec, Path[k], Path[settings.moves[k]])
    BY <1>3 DEF Entry
  <2>2. ValuesOnly(Delete(Grafted(rec, Path[k], Path[settings.moves[k]]), Path[k]))
    BY GraftedValues, DeleteValues
  <2> QED
    BY <2>1, <2>2 DEF MoveEntry, Stopped, GoneOn
<1> QED
  BY <1>1, <1>2, <1>3

\* TypeOK but for the clock.
InHandOK == todo \subseteq CASE pc = "adds"   -> DOMAIN settings.adds
                             [] pc = "copies" -> DOMAIN settings.copies
                             [] pc = "moves"  -> DOMAIN settings.moves
                             [] OTHER         -> {}

LEMMA InHandIs ==
  InHandOK <=> /\ pc = "adds" => todo \subseteq DOMAIN settings.adds
               /\ pc = "copies" => todo \subseteq DOMAIN settings.copies
               /\ pc = "moves" => todo \subseteq DOMAIN settings.moves
               /\ pc \notin {"adds", "copies", "moves"} => todo = {}
BY DEF InHandOK

LEMMA TypeStep == IInv /\ [Next]_vars => TypeOK'
<1> SUFFICES ASSUME IInv, [Next]_vars PROVE TypeOK'
  OBVIOUS
<1>t. TypeOK
  BY DEF IInv
<1>w. pc \notin {"adds", "copies", "moves"} => todo = {}
  BY <1>t, InHandIs DEF TypeOK, InHandOK
<1>1. clock' \in 1 .. MaxTick
      /\ pc' \in {"boot", "refused", "idle", "poll", "filter", "dropped",
                  "adds", "copies", "moves", "case", "sent"}
  BY TimesStep DEF TimesInv
<1>2. /\ pc' = "adds" => todo' \subseteq DOMAIN settings'.adds
      /\ pc' = "copies" => todo' \subseteq DOMAIN settings'.copies
      /\ pc' = "moves" => todo' \subseteq DOMAIN settings'.moves
  BY RecordStep DEF RecordInv
<1>3. pc' \notin {"adds", "copies", "moves"} => todo' = {}
  <2>1. CASE \/ CreateDatabase \/ DropDatabase \/ RenameDatabase \/ Elapse \/ Record
             \/ LoadConfig \/ ReadInfo \/ EndPoll \/ ParseRow \/ Send
    <3>1. pc \notin {"adds", "copies", "moves"} /\ todo' = todo
      BY <2>1 DEF CreateDatabase, DropDatabase, RenameDatabase, Elapse, Record,
                  LoadConfig, ReadInfo, EndPoll, ParseRow, Send
    <3> QED
      BY <1>w, <3>1
  <2>2. CASE Filter
    <3>1. pc = "filter" /\ (pc' = "adds" \/ todo' = todo)
      BY <2>2 DEF Filter
    <3> QED
      BY <1>w, <3>1
  <2>3. CASE DoEntry
    <3>1. pc' = "case" => todo' = {}
      BY <2>3, DoEntryGoes
    <3>2. pc' \in {"adds", "copies", "moves", "case"}
      BY <2>3, DoEntryGoes
    <3> QED
      BY <3>1, <3>2
  <2>4. CASE NextMap
    BY <2>4, NextMapGoes
  <2>5. CASE UNCHANGED vars
    BY <1>w, <2>5
  <2> QED
    BY <2>1, <2>2, <2>3, <2>4, <2>5, Steps DEF NextParts
<1>4. ValuesOnly(rec')
  <2>0. ValuesOnly(rec)
    BY <1>t DEF TypeOK, ValuesOnly
  <2>1. CASE ~(Filter \/ DoEntry \/ Send)
    <3>1. rec' = rec
      BY <2>1, Steps DEF NextParts, CreateDatabase, DropDatabase, RenameDatabase, Elapse, Record,
                  LoadConfig, ReadInfo, EndPoll, ParseRow, NextMap
    <3> QED
      BY <2>0, <3>1
  <2>2. CASE Filter
    <3>1. PICK e : e = WithDerived(event, ReadFrom)
      OBVIOUS
    <3>2. rec' \in {rec, Build(e)} /\ pc = "filter"
      BY <2>2, <3>1 DEF Filter
    <3>3. event = Parse(info, xml)
      BY <3>2 DEF IInv, ParsedInv
    <3>4. ValuesOnly(event) /\ "timestamp" \in DOMAIN event
      BY <3>3, ParseValues
    <3>5. ValuesOnly(e) /\ "timestamp" \in DOMAIN e
      BY <3>1, <3>4, DerivedGrows DEF Grows
    <3>6. ValuesOnly(Build(e))
      BY <3>5, BuildValues
    <3> QED
      BY <2>0, <3>2, <3>6
  <2>3. CASE DoEntry
    <3>1. PICK k \in todo : rec' = Entry(k).rec
      BY <2>3 DEF DoEntry
    <3>2. pc \in {"adds", "copies", "moves"}
      BY <2>3 DEF DoEntry
    <3> QED
      BY <2>0, <3>1, <3>2, EntryValues
  <2>4. CASE Send
    <3>1. PICK u, l : rec' = ProcessUpperLower(rec, u, l)
      BY <2>4 DEF Send
    <3> QED
      BY <2>0, <3>1 DEF ProcessUpperLower, ValuesOnly
  <2> QED
    BY <2>1, <2>2, <2>3, <2>4
<1>5. InHandOK'
  BY <1>2, <1>3, InHandIs DEF InHandOK
<1> QED
  BY <1>1, <1>4, <1>5 DEF TypeOK, InHandOK, ValuesOnly

(***************************************************************************)
(* The theorems.                                                           *)
(***************************************************************************)
LEMMA InitHolds == Init => IInv
<1> SUFFICES ASSUME Init PROVE IInv
  OBVIOUS
<1>1. TimesInv
  <2>1. PICK n \in DbNames : db = [name |-> n, created |-> 0, ident |-> 1]
    BY DEF Init
  <2>2. db \in [name : DbNames, created : 0 .. 1, ident : Nat \ {0}]
    BY <2>1
  <2> QED
    BY <2>2, TickAssumption DEF Init, TimesInv
<1>2. SourceInv /\ ParsedInv
  BY DEF Init, SourceInv, ParsedInv
<1>3. InfoInv /\ SettingsInv /\ RecordInv
  BY DEF Init, InfoInv, SettingsInv, RecordInv
<1>4. NamedAsItWas /\ NothingLost /\ CommuteInv
  BY DEF Init, NamedAsItWas, Parsed, NothingLost, CommuteInv
<1>5. TypeOK
  <2>1. todo = {} /\ pc = "boot" /\ DOMAIN rec = {}
    BY NoDatabases DEF Init, Nothing
  <2>2. InHandOK /\ \A p \in DOMAIN rec : DOMAIN rec[p] = {"v", "t", "case", "conv"}
    BY <2>1 DEF InHandOK
  <2> QED
    BY <1>1, <2>2 DEF TypeOK, TimesInv, InHandOK
<1> QED
  BY <1>1, <1>2, <1>3, <1>4, <1>5 DEF IInv

\* The inductive invariant of the path of one event (xe.go Parse,
\* logstash_record.go ProcessMods, config.go Get).
THEOREM InvariantHolds == Spec => []IInv
<1>1. IInv /\ [Next]_vars => IInv'
  <2> SUFFICES ASSUME IInv, [Next]_vars PROVE IInv'
    OBVIOUS
  <2>1. TimesInv' /\ SourceInv' /\ ParsedInv' /\ InfoInv' /\ NamedAsItWas'
    BY TimesStep, SourceStep, ParsedStep, InfoStep, NamedStep
  <2>2. SettingsInv' /\ RecordInv' /\ NothingLost' /\ CommuteInv' /\ TypeOK'
    BY SettingsStep, RecordStep, LostStep, CommuteStep, TypeStep
  <2> QED
    BY <2>1, <2>2 DEF IInv
<1> QED
  BY <1>1, InitHolds, PTL DEF Spec

\* A database name that was looked up is that of the event's own database
\* (setDatabaseName, xe.go:426), whatever databases come, go and are renamed,
\* except in the hours before it was made that a server behind UTC gets wrong.
THEOREM NamedAsItWasHolds == Spec => []NamedAsItWas
<1>1. IInv => NamedAsItWas
  BY DEF IInv
<1> QED
  BY <1>1, InvariantHolds, PTL

\* Adds, copies and moves that are harmless lose no value of the event, in
\* whatever order they are done and wherever they stop (ProcessMods); only what
\* a move takes may change, and of it long numbers and backslashes only.
THEOREM NothingLostHolds == Spec => []NothingLost
<1>1. IInv => NothingLost
  BY DEF IInv
<1> QED
  BY <1>1, InvariantHolds, PTL

\* The event and the record in work are of their types, and the entries in
\* hand of the map that is gone through (process_session.go, ProcessMods).
THEOREM TypeCorrect == Spec => []TypeOK
<1>1. IInv => TypeOK
  BY DEF IInv
<1> QED
  BY <1>1, InvariantHolds, PTL

\* Every value the server recorded is still in the event, whatever Parse
\* renames, derives and looks up (xe.go:148), when the names of the server's
\* fields stand apart from those that Parse gives.
THEOREM BothValuesKeptHolds == Spec => []BothValuesKept
BY InvariantHolds, KeptNow, PTL

\* What reaches the sinks was asked for by the files as they were written
\* (config.go setSourceDefaults, process_session.go Excluded).
THEOREM OnlyWantedSentHolds == Spec => []OnlyWantedSent
BY InvariantHolds, WantedNow, PTL

\* The order of entries that stand apart does not show in the record
\* (ProcessMods, which ranges over maps).
THEOREM ModsCommuteHolds == Spec => []ModsCommute
<1>1. IInv => ModsCommute
  <2> SUFFICES ASSUME IInv, pc = "case", Independent
               PROVE  Content(rec) = AtOnce(DOMAIN settings.adds, DOMAIN settings.copies,
                                            DOMAIN settings.moves)
    BY DEF ModsCommute
  <2>1. CommuteInv
    BY DEF IInv
  <2> QED
    BY <2>1 DEF CommuteInv, DoneAdds, DoneCopies, DoneMoves
<1> QED
  BY <1>1, InvariantHolds, PTL

=============================================================================
