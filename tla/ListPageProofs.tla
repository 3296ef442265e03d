--------------------------- MODULE ListPageProofs ---------------------------
(***************************************************************************)
(* Proofs about ListPage: a pass over a changing bucket returns what was   *)
(* there all along, and returns it once.                                   *)
(***************************************************************************)
EXTENDS ListPage, FiniteSetTheorems, TLAPS

-----------------------------------------------------------------------------
(* The inductive invariant.                                                *)

\* No two records share a sequence, a live value has one, and what a sweep is
\* about to purge is dead.
StoreInv ==
  /\ \A k \in Keys : Live(k) => data[k].seq > 0
  /\ \A j, k \in Keys : data[j].seq = data[k].seq /\ data[j].seq > 0 => j = k
  /\ \A j, k \in Keys : index[j] = index[k] /\ index[j] > 0 => j = k
  /\ \A j, k \in Keys : data[j].seq = index[k] => index[k] = 0
  /\ \A k \in Keys : dead[k].step # "none" /\ data[k].seq <= dead[k].seq => ~Live(k)

\* Where the call stands, and what it knows there of the way the pass reads.
PlaceInv ==
  /\ cursor.mode # "first" => page.mode \in {"first", cursor.mode}
  /\ cursor.mode = "first" =>
       /\ cursor.after = 0
       /\ pc # "done" => got = Never
       /\ pc \in {"call", "open"} => page.mode = "first"
  /\ pc = "open" => cursor.mode = "first"
  /\ pc = "read" => page.mode \in {"i", "d"}
  /\ pc \in {"fetch", "done"} => page.mode # "first"
  /\ pc # "read" => sent = <<>>
  /\ pc \notin {"read", "fetch"} => page.times = Never
  /\ Mode = "first" => owed = {} /\ moved = {}

\* Sequences grow from the cursor to the page, and along what was sent.
OrderInv ==
  /\ page.last = 0 \/ page.last > cursor.after
  /\ pc = "fetch" /\ page.more => page.last > cursor.after
  /\ \A i \in 1..Len(sent) : sent[i].seq > cursor.after /\ sent[i].seq > page.last
  /\ \A i, j \in 1..Len(sent) : i < j => sent[i].seq < sent[j].seq

\* The record of key k that the pass reads.
Rec(k) == IF Mode = "i" THEN index[k] ELSE data[k].seq
\* The i-th record sent is one the page will return key k for.
Captures(i, k) == sent[i].key = k /\ sent[i].put
Consumer == Mode \in {"i", "d"}

\* A key whose record was not stored anew is behind the cursor, behind the page,
\* behind one record sent, or ahead of all: it was returned, counted, sent or
\* neither.
BehindKey(k) ==
  /\ got[k] > 0 => Rec(k) <= cursor.after
  /\ page.times[k] > 0 => page.times[k] = 1 /\ got[k] = 0 /\ Rec(k) <= page.last
  /\ \A i \in 1..Len(sent) : Captures(i, k) =>
       Rec(k) <= sent[i].seq /\ got[k] = 0 /\ page.times[k] = 0
  /\ \A i, j \in 1..Len(sent) : Captures(i, k) /\ Captures(j, k) => i = j
BehindSubject(k) ==
  /\ got[k] > 0 => k <= cursor.after
  /\ page.times[k] > 0 => page.times[k] = 1 /\ cursor.after < k /\ k <= page.last
TwiceInv ==
  \A k \in Keys :
    /\ Consumer /\ k \notin moved => got[k] <= 1 /\ (pc # "done" => BehindKey(k))
    /\ Mode = "s" => got[k] <= 1 /\ (pc # "done" => BehindSubject(k))

\* A key still owed is ahead of the cursor; it is counted, or sent, or ahead of
\* all, and then every record before it said that more was pending.
AheadKey(k) ==
  /\ Rec(k) > cursor.after
  /\ pc \in {"read", "fetch"} /\ page.times[k] = 0 => page.more /\ Rec(k) > page.last
  /\ pc = "read" /\ page.times[k] = 0 => \A i \in 1..Len(sent) :
       (\A j \in 1..i : ~Captures(j, k)) => sent[i].more
  /\ pc = "read" /\ page.times[k] = 0 /\ (\A j \in 1..Len(sent) : ~Captures(j, k)) =>
       Rec(k) > Position
  /\ \A j \in 1..Len(sent) : Captures(j, k) => Rec(k) >= sent[j].seq
AheadSubject(k) ==
  /\ k > cursor.after
  /\ pc = "fetch" /\ page.times[k] = 0 => page.more /\ k > page.last
OwedInv ==
  \A k \in owed :
    /\ pc # "done" /\ Live(k) /\ got[k] = 0
    /\ Mode # "d" => index[k] # 0
    /\ Consumer => AheadKey(k)
    /\ Mode = "s" => AheadSubject(k)

ListInv == TypeOK /\ StoreInv /\ PlaceInv /\ OrderInv /\ TwiceInv /\ OwedInv

-----------------------------------------------------------------------------
(* Types and the store.                                                    *)

Ops == {"none", "put", "lapsed", "del"}

LEMMA KeysFinite == Cardinality(Keys) \in Nat /\ \A k \in Keys : k \in Nat /\ k > 0
<1>1. IsFiniteSet(Keys) /\ Keys \subseteq Nat \ {0}
  BY ListAssumption
<1>2. Cardinality(Keys) \in Nat
  BY <1>1, FS_CardinalityType
<1>. QED BY <1>1, <1>2

LEMMA TypeFacts ==
  ASSUME TypeOK
  PROVE  /\ seq \in Nat /\ cursor.after \in Nat /\ cursor.mode \in Modes
         /\ page.mode \in Modes /\ page.last \in Nat /\ page.n \in Nat /\ page.more \in BOOLEAN
         /\ page.times \in [Keys -> Nat]
         /\ \A k \in Keys : data[k].seq \in Nat /\ index[k] \in Nat /\ data[k].seq <= seq
                            /\ index[k] <= seq /\ dead[k].seq \in Nat /\ dead[k].seq <= seq
         /\ \A k \in Keys : got[k] \in Nat /\ page.times[k] \in Nat /\ Rec(k) \in Nat
         /\ Len(sent) \in Nat
         /\ \A i \in 1..Len(sent) : sent[i] \in Sent /\ sent[i].seq \in Nat /\ sent[i].key \in Keys
<1>1. /\ seq \in Nat /\ cursor.after \in Nat /\ cursor.mode \in Modes
      /\ page.mode \in Modes /\ page.last \in Nat /\ page.n \in Nat /\ page.more \in BOOLEAN
      /\ page.times \in [Keys -> Nat]
  BY ListAssumption DEF TypeOK, Page
<1>2. \A k \in Keys : data[k].seq \in Nat /\ index[k] \in Nat /\ data[k].seq <= seq
                            /\ index[k] <= seq /\ dead[k].seq \in Nat /\ dead[k].seq <= seq
  BY <1>1 DEF TypeOK
<1>3. \A k \in Keys : got[k] \in Nat /\ page.times[k] \in Nat /\ Rec(k) \in Nat
  <2>1. \A k \in Keys : got[k] \in Nat
    BY DEF TypeOK
  <2>2. \A k \in Keys : page.times[k] \in Nat
    BY <1>1
  <2>3. \A k \in Keys : Rec(k) \in Nat
    BY <1>2 DEF Rec
  <2>. QED BY <2>1, <2>2, <2>3
<1>4. Len(sent) \in Nat /\ \A i \in 1..Len(sent) : sent[i] \in Sent
  BY DEF TypeOK
<1>5. \A i \in 1..Len(sent) : sent[i].seq \in Nat /\ sent[i].key \in Keys
  BY <1>4 DEF Sent
<1>. QED BY <1>1, <1>2, <1>3, <1>4, <1>5

LEMMA InitInv == Init => ListInv
<1>. SUFFICES ASSUME Init PROVE ListInv
  OBVIOUS
<1>1. PICK place \in [Keys -> 1..Cardinality(Keys)] :
       /\ \A j, k \in Keys : j # k => place[j] # place[k]
       /\ data = [k \in Keys |-> [seq |-> 2 * place[k] - 1, op |-> "put"]]
       /\ index = [k \in Keys |-> 2 * place[k]]
  BY DEF Init
<1>2. \A k \in Keys : /\ place[k] \in Nat /\ place[k] >= 1 /\ place[k] <= Cardinality(Keys)
                      /\ 2 * place[k] - 1 \in 0..seq /\ 2 * place[k] \in 0..seq
  BY KeysFinite, <1>1 DEF Init
<1>3. \A k \in Keys : data[k].seq = 2 * place[k] - 1 /\ data[k].op = "put" /\ index[k] = 2 * place[k]
  BY <1>1
<1>4. TypeOK
  <2>1. seq \in 0..MaxSeq
    BY KeysFinite, ListAssumption DEF Init
  <2>2. data \in [Keys -> [seq : 0..seq, op : {"none", "put", "lapsed", "del"}]]
    BY <1>1, <1>2
  <2>3. index \in [Keys -> 0..seq]
    BY <1>1, <1>2
  <2>4. dead \in [Keys -> [step : {"none", "read", "unindexed"}, seq : 0..seq]]
    BY <2>1, ListAssumption DEF Init
  <2>5. page \in Page /\ cursor \in [mode : Modes, after : Nat] /\ got \in [Keys -> 0..2]
    BY DEF Init, Page, NoPage, Never, First, Modes
  <2>. QED BY <2>1, <2>2, <2>3, <2>4, <2>5 DEF Init, TypeOK
<1>5. StoreInv
  <2>1. \A j, k \in Keys : 2 * place[j] - 1 # 2 * place[k] /\ (2 * place[k] > 0)
                           /\ (place[j] = place[k] => j = k)
    <3>1. \A m, n \in Nat : 2 * m - 1 # 2 * n
      OBVIOUS
    <3>2. \A n \in Nat : n >= 1 => 2 * n > 0
      OBVIOUS
    <3>. QED BY <1>1, <1>2, <3>1, <3>2
  <2>2. \A k \in Keys : dead[k].step = "none"
    BY DEF Init
  <2>3. \A k \in Keys : data[k].seq > 0
    BY <1>2, <1>3
  <2>4. \A j, k \in Keys : data[j].seq = data[k].seq => j = k
    BY <1>2, <1>3, <2>1
  <2>5. \A j, k \in Keys : index[j] = index[k] => j = k
    BY <1>2, <1>3, <2>1
  <2>6. \A j, k \in Keys : data[j].seq # index[k]
    BY <1>3, <2>1
  <2>. QED BY <2>2, <2>3, <2>4, <2>5, <2>6 DEF StoreInv
<1>6. PlaceInv /\ OrderInv
  BY DEF Init, PlaceInv, OrderInv, First, NoPage, Mode
<1>7. TwiceInv /\ OwedInv
  BY DEF Init, TwiceInv, OwedInv, First, NoPage, Mode, Consumer
<1>. QED BY <1>4, <1>5, <1>6, <1>7 DEF ListInv

\* One record of a table changed.
LEMMA WriteTyped ==
  ASSUME TypeOK, Write
  PROVE  TypeOK'
<1>0. PICK k \in Keys : \/ Put(k) \/ Index(k) \/ Delete(k) \/ Lapse(k)
                        \/ SweepReads(k) \/ SweepUnindexes(k) \/ SweepPurges(k)
  BY DEF Write
<1>1. UNCHANGED call
  BY <1>0 DEF Put, Index, Delete, Lapse, SweepReads, SweepUnindexes, SweepPurges
<1>2. seq' \in 0..MaxSeq /\ seq' >= seq /\ seq \in Nat /\ seq' \in Nat
  BY <1>0, ListAssumption
     DEF TypeOK, Store, Put, Index, Delete, Lapse, SweepReads, SweepUnindexes, SweepPurges
<1>3. owed' \subseteq Matching /\ moved' \subseteq Keys
  BY <1>0 DEF TypeOK, Put, Index, Delete, Lapse, SweepReads, SweepUnindexes, SweepPurges,
              Moves, history
<1>4. data \in [Keys -> [seq : 0..seq', op : Ops]] /\ index \in [Keys -> 0..seq']
      /\ dead \in [Keys -> [step : {"none", "read", "unindexed"}, seq : 0..seq']]
  <2>1. \A n \in 0..seq : n \in 0..seq'
    BY <1>2
  <2>2. index \in [Keys -> 0..seq']
    BY <2>1 DEF TypeOK
  <2>3. \A k1 \in Keys : data[k1] \in [seq : 0..seq', op : Ops]
    BY <2>1 DEF TypeOK, Ops
  <2>4. \A k1 \in Keys : dead[k1] \in [step : {"none", "read", "unindexed"}, seq : 0..seq']
    BY <2>1 DEF TypeOK
  <2>. QED BY <2>2, <2>3, <2>4 DEF TypeOK
<1>5. data' \in [Keys -> [seq : 0..seq', op : Ops]]
  <2>1. CASE Put(k) \/ Delete(k)
    <3>1. seq + 1 \in 0..seq'
      BY <1>2, <2>1 DEF Put, Delete, Store
    <3>. QED BY <1>4, <2>1, <3>1 DEF Put, Delete, Ops
  <2>2. CASE Lapse(k)
    BY <1>4, <2>2 DEF Lapse, Ops
  <2>3. CASE SweepPurges(k)
    <3>1. NoData \in [seq : 0..seq', op : Ops]
      BY <1>2 DEF NoData, Ops
    <3>2. data' = [data EXCEPT ![k] = IF data[k].seq <= dead[k].seq THEN NoData ELSE data[k]]
      BY <1>4, <2>3 DEF SweepPurges
    <3>. QED BY <1>4, <3>1, <3>2
  <2>4. CASE Index(k) \/ SweepReads(k) \/ SweepUnindexes(k)
    BY <1>4, <2>4 DEF Index, SweepReads, SweepUnindexes
  <2>. QED BY <1>0, <2>1, <2>2, <2>3, <2>4
<1>6. index' \in [Keys -> 0..seq']
  BY <1>0, <1>2, <1>4
     DEF Store, Put, Index, Delete, Lapse, SweepReads, SweepUnindexes, SweepPurges
<1>7. dead' \in [Keys -> [step : {"none", "read", "unindexed"}, seq : 0..seq']]
  <2>1. CASE SweepReads(k)
    <3>1. data[k].seq \in 0..seq'
      BY <1>4
    <3>. QED BY <1>4, <2>1, <3>1 DEF SweepReads
  <2>2. CASE SweepUnindexes(k)
    BY <1>4, <2>2 DEF SweepUnindexes
  <2>3. CASE SweepPurges(k)
    BY <1>2, <1>4, <2>3 DEF SweepPurges
  <2>4. CASE Put(k) \/ Index(k) \/ Delete(k) \/ Lapse(k)
    BY <1>4, <2>4 DEF Put, Index, Delete, Lapse
  <2>. QED BY <1>0, <2>1, <2>2, <2>3, <2>4
<1>8. pc' = pc /\ cursor' = cursor /\ page' = page /\ sent' = sent /\ got' = got
  BY <1>1 DEF call
<1>. QED BY <1>2, <1>3, <1>5, <1>6, <1>7, <1>8 DEF TypeOK, Ops

LEMMA WriteKeepsStore ==
  ASSUME TypeOK, StoreInv, Write
  PROVE  StoreInv'
<1>0. PICK k \in Keys : \/ Put(k) \/ Index(k) \/ Delete(k) \/ Lapse(k)
                        \/ SweepReads(k) \/ SweepUnindexes(k) \/ SweepPurges(k)
  BY DEF Write
<1>1. /\ seq \in Nat
      /\ \A j \in Keys : data[j].seq \in Nat /\ index[j] \in Nat /\ data[j].seq <= seq
                         /\ index[j] <= seq /\ dead[j].seq \in Nat /\ dead[j].seq <= seq
  BY TypeFacts
<1>2. data \in [Keys -> [seq : 0..seq, op : Ops]] /\ index \in [Keys -> 0..seq]
      /\ dead \in [Keys -> [step : {"none", "read", "unindexed"}, seq : 0..seq]]
  BY DEF TypeOK, Ops
<1>3. CASE Put(k) \/ Delete(k)
  <2>1. /\ index' = index /\ dead' = dead
        /\ data'[k].seq = seq + 1 /\ \A j \in Keys \ {k} : data'[j] = data[j]
    BY <1>2, <1>3 DEF Put, Delete
  <2>2. \A j \in Keys : data'[j].seq = (IF j = k THEN seq + 1 ELSE data[j].seq)
                        /\ (j # k => data'[j].op = data[j].op)
    BY <2>1
  <2>. QED BY <1>1, <2>1, <2>2 DEF StoreInv, Live
<1>4. CASE Index(k)
  <2>1. data' = data /\ dead' = dead
        /\ \A j \in Keys : index'[j] = (IF j = k THEN seq + 1 ELSE index[j])
    BY <1>2, <1>4 DEF Index
  <2>. QED BY <1>1, <2>1 DEF StoreInv, Live
<1>5. CASE Lapse(k)
  <2>1. index' = index /\ dead' = dead
        /\ \A j \in Keys : data'[j].seq = data[j].seq /\ data'[j].op = (IF j = k THEN "lapsed" ELSE data[j].op)
    BY <1>2, <1>5 DEF Lapse
  <2>. QED BY <1>1, <2>1 DEF StoreInv, Live
<1>6. CASE SweepReads(k)
  <2>1. data' = data /\ index' = index /\ data[k].op # "put"
        /\ \A j \in Keys \ {k} : dead'[j] = dead[j]
    BY <1>2, <1>6 DEF SweepReads
  <2>. QED BY <1>1, <2>1 DEF StoreInv, Live
<1>7. CASE SweepUnindexes(k)
  <2>1. data' = data /\ dead[k].step = "read"
        /\ \A j \in Keys : index'[j] = (IF j = k THEN 0 ELSE index[j])
    BY <1>2, <1>7 DEF SweepUnindexes
  <2>2. \A j \in Keys : dead'[j].seq = dead[j].seq /\ (dead'[j].step = dead[j].step \/ j = k)
    BY <1>2, <1>7 DEF SweepUnindexes
  <2>. QED BY <1>1, <2>1, <2>2 DEF StoreInv, Live
<1>8. CASE SweepPurges(k)
  <2>1. index' = index /\ dead'[k].step = "none" /\ \A j \in Keys \ {k} : dead'[j] = dead[j]
    BY <1>2, <1>8 DEF SweepPurges
  <2>2. data' = [data EXCEPT ![k] = IF data[k].seq <= dead[k].seq THEN NoData ELSE data[k]]
    BY <1>2, <1>8 DEF SweepPurges
  <2>3. \A j \in Keys : data'[j] = data[j] \/ (j = k /\ data'[j].seq = 0 /\ data'[j].op = "none")
    BY <1>2, <2>2 DEF NoData
  <2>. QED BY <1>1, <2>1, <2>3 DEF StoreInv, Live
<1>. QED BY <1>0, <1>3, <1>4, <1>5, <1>6, <1>7, <1>8

-----------------------------------------------------------------------------
(* What a write means for a pass: it may add to what has moved and take    *)
(* from what is owed; a record that has not moved has not grown, and that  *)
(* of a key still owed has not shrunk.                                     *)

WriteChange ==
  /\ UNCHANGED call
  /\ pc # "done"
  /\ owed' \subseteq owed /\ moved \subseteq moved'
  /\ Mode = "first" => moved' = moved
  /\ \A k \in Keys : Consumer /\ k \notin moved' => Rec(k)' <= Rec(k)
  /\ \A k \in owed' : /\ Live(k)' /\ Rec(k)' >= Rec(k)
                      /\ Mode # "d" => index'[k] = index[k]

LEMMA WriteIsChange ==
  ASSUME TypeOK, StoreInv, OwedInv, Write
  PROVE  WriteChange
<1>0. PICK k \in Keys : \/ Put(k) \/ Index(k) \/ Delete(k) \/ Lapse(k)
                        \/ SweepReads(k) \/ SweepUnindexes(k) \/ SweepPurges(k)
  BY DEF Write
<1>1. /\ seq \in Nat
      /\ \A j \in Keys : data[j].seq \in Nat /\ index[j] \in Nat /\ data[j].seq <= seq
                         /\ index[j] <= seq /\ dead[j].seq \in Nat /\ dead[j].seq <= seq
  BY TypeFacts
<1>2. data \in [Keys -> [seq : 0..seq, op : Ops]] /\ index \in [Keys -> 0..seq]
      /\ dead \in [Keys -> [step : {"none", "read", "unindexed"}, seq : 0..seq]]
  BY DEF TypeOK, Ops
<1>3. UNCHANGED call /\ pc # "done" /\ owed' \subseteq owed /\ moved \subseteq moved'
      /\ (Mode = "first" => moved' = moved)
  BY <1>0 DEF Write, Put, Index, Delete, Lapse, SweepReads, SweepUnindexes, SweepPurges,
              Moves, history
<1>4. Mode' = Mode
  BY <1>3 DEF call, Mode
<1>5. /\ \A j \in Keys : Rec(j)' = (IF Mode = "i" THEN index'[j] ELSE data'[j].seq)
      /\ \A j \in Keys : Rec(j) = (IF Mode = "i" THEN index[j] ELSE data[j].seq)
  BY <1>4 DEF Rec
<1>6. \A j \in owed' : j \in Keys /\ data[j].op = "put" /\ (Mode # "d" => index[j] # 0)
  BY <1>3, ListAssumption DEF OwedInv, Live, TypeOK
<1>7. SUFFICES /\ \A j \in Keys : Consumer /\ j \notin moved' => Rec(j)' <= Rec(j)
               /\ \A j \in owed' : /\ data'[j].op = "put" /\ Rec(j)' >= Rec(j)
                                   /\ Mode # "d" => index'[j] = index[j]
  BY <1>3 DEF WriteChange, Live
<1>8. CASE Put(k)
  <2>1. index' = index /\ moved' = (IF Mode = "d" THEN moved \cup {k} ELSE moved)
        /\ \A j \in Keys : data'[j].seq = (IF j = k THEN seq + 1 ELSE data[j].seq)
    BY <1>2, <1>8 DEF Put, Moves
  <2>2. \A j \in Keys : data'[j].op = (IF j = k THEN "put" ELSE data[j].op)
    BY <1>2, <1>8 DEF Put
  <2>. QED BY <1>1, <1>5, <1>6, <2>1, <2>2 DEF Consumer
<1>9. CASE Delete(k)
  <2>1. index' = index /\ moved' = (IF Mode = "d" THEN moved \cup {k} ELSE moved)
        /\ \A j \in Keys : data'[j].seq = (IF j = k THEN seq + 1 ELSE data[j].seq)
    BY <1>2, <1>9 DEF Delete, Moves
  <2>2. k \notin owed' /\ \A j \in Keys \ {k} : data'[j] = data[j]
    BY <1>2, <1>9 DEF Delete
  <2>. QED BY <1>1, <1>5, <1>6, <2>1, <2>2 DEF Consumer
<1>10. CASE Index(k)
  <2>1. data' = data /\ moved' = (IF Mode = "i" THEN moved \cup {k} ELSE moved) /\ index[k] = 0
        /\ \A j \in Keys : index'[j] = (IF j = k THEN seq + 1 ELSE index[j])
    BY <1>2, <1>10 DEF Index, Moves
  <2>. QED BY <1>1, <1>5, <1>6, <2>1 DEF Consumer
<1>11. CASE Lapse(k)
  <2>1. index' = index /\ k \notin owed'
        /\ \A j \in Keys : data'[j].seq = data[j].seq /\ (j # k => data'[j].op = data[j].op)
    BY <1>2, <1>11 DEF Lapse
  <2>. QED BY <1>1, <1>5, <1>6, <2>1 DEF Consumer
<1>12. CASE SweepReads(k)
  <2>1. index' = index /\ data' = data
    BY <1>12 DEF SweepReads
  <2>. QED BY <1>1, <1>5, <1>6, <2>1 DEF Consumer
<1>13. CASE SweepUnindexes(k)
  <2>1. data' = data /\ (Mode # "d" => k \notin owed')
        /\ \A j \in Keys : index'[j] = (IF j = k THEN 0 ELSE index[j])
    BY <1>2, <1>13 DEF SweepUnindexes
  <2>. QED BY <1>1, <1>5, <1>6, <2>1 DEF Consumer
<1>14. CASE SweepPurges(k)
  <2>1. index' = index /\ dead[k].step # "none"
    BY <1>14 DEF SweepPurges
  <2>2. data' = [data EXCEPT ![k] = IF data[k].seq <= dead[k].seq THEN NoData ELSE data[k]]
    BY <1>2, <1>14 DEF SweepPurges
  <2>3. \A j \in Keys : data'[j] = data[j] \/ (j = k /\ data'[j].seq = 0 /\ data[j].op # "put")
    BY <1>2, <2>1, <2>2 DEF NoData, StoreInv, Live
  <2>. QED BY <1>1, <1>5, <1>6, <2>1, <2>3 DEF Consumer
<1>. QED BY <1>0, <1>8, <1>9, <1>10, <1>11, <1>12, <1>13, <1>14

LEMMA ChangeKeeps ==
  ASSUME TypeOK, TypeOK', PlaceInv, OrderInv, TwiceInv, OwedInv, WriteChange
  PROVE  PlaceInv' /\ OrderInv' /\ TwiceInv' /\ OwedInv'
<1>1. pc' = pc /\ cursor' = cursor /\ page' = page /\ sent' = sent /\ got' = got
      /\ owed' \subseteq owed /\ moved \subseteq moved' /\ (Mode = "first" => moved' = moved)
  BY DEF WriteChange, call
<1>2. Mode' = Mode /\ Position' = Position /\ Consumer' = Consumer
  BY <1>1 DEF Mode, Position, Consumer
<1>3. PlaceInv' /\ OrderInv'
  BY <1>1, <1>2 DEF PlaceInv, OrderInv
<1>4. /\ cursor.after \in Nat /\ page.last \in Nat /\ Len(sent) \in Nat
      /\ \A k \in Keys : Rec(k) \in Nat /\ Rec(k)' \in Nat
      /\ \A i \in 1..Len(sent) : sent[i].seq \in Nat
  <2>1. \A k \in Keys : data'[k].seq \in Nat /\ index'[k] \in Nat
    BY DEF TypeOK
  <2>2. \A k \in Keys : Rec(k)' \in Nat
    BY <2>1 DEF Rec
  <2>. QED BY <2>2, TypeFacts
<1>5. \A i, k : Captures(i, k)' = Captures(i, k)
  BY <1>1 DEF Captures
<1>6. TwiceInv'
  <2>. SUFFICES ASSUME NEW k \in Keys
                PROVE  /\ Consumer /\ k \notin moved' => got[k] <= 1 /\ (pc # "done" => BehindKey(k)')
                       /\ Mode = "s" => got[k] <= 1 /\ (pc # "done" => BehindSubject(k)')
    BY <1>1, <1>2 DEF TwiceInv
  <2>1. ASSUME Consumer, k \notin moved' PROVE got[k] <= 1 /\ (pc # "done" => BehindKey(k)')
    <3>1. got[k] <= 1 /\ (pc # "done" => BehindKey(k))
      BY <1>1, <2>1 DEF TwiceInv
    <3>2. Rec(k)' <= Rec(k)
      BY <2>1 DEF WriteChange
    <3>. QED BY <1>1, <1>4, <1>5, <3>1, <3>2 DEF BehindKey
  <2>2. ASSUME Mode = "s" PROVE got[k] <= 1 /\ (pc # "done" => BehindSubject(k)')
    BY <1>1, <2>2 DEF TwiceInv, BehindSubject
  <2>. QED BY <2>1, <2>2
<1>7. OwedInv'
  <2>. SUFFICES ASSUME NEW k \in owed'
                PROVE  /\ pc # "done" /\ Live(k)' /\ got[k] = 0
                       /\ Mode # "d" => index'[k] # 0
                       /\ Consumer => AheadKey(k)'
                       /\ Mode = "s" => AheadSubject(k)'
    BY <1>1, <1>2 DEF OwedInv
  <2>1. k \in owed /\ k \in Keys /\ Live(k)' /\ Rec(k)' >= Rec(k) /\ (Mode # "d" => index'[k] = index[k])
    BY <1>1, ListAssumption DEF WriteChange, TypeOK
  <2>2. ASSUME Consumer PROVE AheadKey(k)'
    <3>1. AheadKey(k)
      BY <2>1, <2>2 DEF OwedInv
    <3>2. Position \in Nat
      BY TypeFacts DEF Position
    <3>. QED BY <1>1, <1>2, <1>4, <1>5, <2>1, <3>1, <3>2 DEF AheadKey
  <2>3. ASSUME Mode = "s" PROVE AheadSubject(k)'
    BY <1>1, <2>1, <2>3 DEF OwedInv, AheadSubject
  <2>. QED BY <2>1, <2>2, <2>3 DEF OwedInv
<1>. QED BY <1>3, <1>6, <1>7

-----------------------------------------------------------------------------
(* The steps of the call leave the bucket alone.                           *)

LEMMA BucketFrame ==
  ASSUME TypeOK, StoreInv, UNCHANGED bucket
  PROVE  /\ StoreInv'
         /\ seq' \in 0..MaxSeq
         /\ data' \in [Keys -> [seq : 0..seq', op : {"none", "put", "lapsed", "del"}]]
         /\ index' \in [Keys -> 0..seq']
         /\ dead' \in [Keys -> [step : {"none", "read", "unindexed"}, seq : 0..seq']]
         /\ data' = data /\ index' = index /\ \A k : Live(k)' = Live(k)
<1>1. seq' = seq /\ data' = data /\ index' = index /\ dead' = dead
  BY DEF bucket
<1>2. \A k : Live(k)' = Live(k)
  BY <1>1 DEF Live
<1>3. StoreInv'
  BY <1>1, <1>2 DEF StoreInv
<1>. QED BY <1>1, <1>2, <1>3 DEF TypeOK

\* A page of the subject list: what is left behind it is greater, and it is empty
\* only when nothing is left.
LEMMA SubjectsKeep ==
  ASSUME ListInv, pc = "call", cursor.mode \in {"first", "s"}, NEW limit \in Limits,
         SubjectsPage(cursor.after, limit), UNCHANGED <<bucket, cursor, sent, got>>
  PROVE  ListInv'
<1>. DEFINE rest == {k \in Subjects : k > cursor.after}
<1>1. PICK keys \in SUBSET rest :
       /\ keys # rest => Cardinality(keys) = limit
       /\ \A k \in keys, j \in rest \ keys : k < j
       /\ \E last \in (IF keys = {} THEN {0} ELSE keys) :
            /\ \A k \in keys : k <= last
            /\ page' = [mode |-> "s", times |-> [k \in Keys |-> IF k \in keys THEN 1 ELSE 0],
                        n |-> 0, last |-> last, more |-> keys # rest]
       /\ pc' = "fetch" /\ Begins("s")
  BY DEF SubjectsPage
<1>2. PICK last \in (IF keys = {} THEN {0} ELSE keys) :
            /\ \A k \in keys : k <= last
            /\ page' = [mode |-> "s", times |-> [k \in Keys |-> IF k \in keys THEN 1 ELSE 0],
                        n |-> 0, last |-> last, more |-> keys # rest]
  BY <1>1
<1>3. keys # rest => keys # {}
  BY <1>1, FS_EmptySet, ListAssumption
<1>4. /\ keys \subseteq Keys /\ (\A k \in keys : k > cursor.after) /\ cursor.after \in Nat
      /\ last \in Nat /\ (last = 0 \/ last > cursor.after)
  <2>1. cursor.after \in Nat
    BY TypeFacts DEF ListInv
  <2>2. keys \subseteq Keys /\ \A k \in keys : k > cursor.after /\ k \in Nat
    BY <1>1, ListAssumption DEF Subjects
  <2>3. last = 0 \/ last \in keys
    BY <1>2
  <2>. QED BY <2>1, <2>2, <2>3
<1>5. /\ page'.mode = "s" /\ page'.last = last /\ page'.more = (keys # rest) /\ page'.n = 0
      /\ page'.times \in [Keys -> Nat] /\ page' \in Page
      /\ \A k \in Keys : page'.times[k] = (IF k \in keys THEN 1 ELSE 0)
  BY <1>2, <1>4 DEF Page, Modes
<1>6. cursor' = cursor /\ sent' = <<>> /\ got' = got /\ moved' = moved /\ pc' = "fetch" /\ Mode' = "s"
  BY <1>1, <1>5 DEF ListInv, PlaceInv, Begins, Mode
<1>7. /\ StoreInv' /\ data' = data /\ index' = index /\ \A k : Live(k)' = Live(k)
  BY BucketFrame DEF ListInv
<1>8. \A k \in owed' : k \in Matching /\ Live(k) /\ index[k] # 0 /\ got[k] = 0 /\ k > cursor.after
  <2>1. CASE cursor.mode = "first"
    <3>1. got = Never /\ cursor.after = 0
      BY <2>1 DEF ListInv, PlaceInv
    <3>2. owed' = {k \in Matching : Live(k) /\ index[k] # 0}
      BY <1>1, <2>1 DEF Begins
    <3>. QED BY <3>1, <3>2, KeysFinite, ListAssumption DEF Never
  <2>2. CASE cursor.mode = "s"
    <3>1. Mode = "s" /\ owed' = owed
      BY <1>1, <2>2 DEF ListInv, PlaceInv, Mode, Begins
    <3>. QED BY <3>1 DEF ListInv, OwedInv, AheadSubject, TypeOK
  <2>. QED BY <2>1, <2>2
<1>9. TypeOK'
  <2>1. owed' \subseteq Matching /\ moved' \subseteq Keys
    BY <1>6, <1>8 DEF ListInv, TypeOK
  <2>2. sent' \in Seq(Sent) /\ got' \in [Keys -> 0..2] /\ cursor' \in [mode : Modes, after : Nat]
    BY <1>6 DEF ListInv, TypeOK
  <2>. QED BY <1>5, <1>6, <2>1, <2>2, BucketFrame DEF ListInv, TypeOK
<1>10. PlaceInv'
  BY <1>5, <1>6 DEF ListInv, PlaceInv
<1>11. OrderInv'
  <2>1. keys # {} => last > cursor.after
    BY <1>2, <1>4
  <2>2. page'.last = 0 \/ page'.last > cursor'.after
    BY <1>4, <1>5, <1>6
  <2>3. page'.more => page'.last > cursor'.after
    BY <1>3, <1>5, <1>6, <2>1
  <2>4. Len(sent') = 0 /\ 1..0 = {}
    BY <1>6
  <2>. QED BY <2>2, <2>3, <2>4 DEF OrderInv
<1>12. TwiceInv'
  <2>. SUFFICES ASSUME NEW k \in Keys PROVE got[k] <= 1 /\ BehindSubject(k)'
    BY <1>6 DEF TwiceInv, Consumer
  <2>1. got[k] <= 1 /\ (got[k] > 0 => k <= cursor.after)
    <3>1. CASE cursor.mode = "first"
      BY <3>1 DEF ListInv, PlaceInv, Never
    <3>2. CASE cursor.mode = "s"
      <4>1. Mode = "s"
        BY <3>2 DEF ListInv, PlaceInv, Mode
      <4>. QED BY <4>1 DEF ListInv, TwiceInv, BehindSubject
    <3>. QED BY <3>1, <3>2
  <2>2. page'.times[k] > 0 => page'.times[k] = 1 /\ cursor.after < k /\ k <= last
    BY <1>2, <1>4, <1>5
  <2>. QED BY <1>5, <1>6, <2>1, <2>2 DEF BehindSubject
<1>13. OwedInv'
  <2>. SUFFICES ASSUME NEW k \in owed'
                PROVE  Live(k) /\ got[k] = 0 /\ index[k] # 0 /\ AheadSubject(k)'
    BY <1>6, <1>7 DEF OwedInv, Consumer
  <2>1. k \in rest /\ k \in Keys /\ k \in Nat
    BY <1>8, ListAssumption DEF Subjects
  <2>2. ASSUME page'.times[k] = 0 PROVE page'.more /\ k > page'.last
    <3>1. k \notin keys
      BY <1>5, <2>1, <2>2
    <3>2. keys # rest /\ keys # {} /\ last \in keys
      BY <1>2, <1>3, <2>1, <3>1
    <3>3. last < k
      BY <1>1, <2>1, <3>1, <3>2
    <3>. QED BY <1>4, <1>5, <2>1, <3>2, <3>3
  <2>. QED BY <1>6, <1>8, <2>2 DEF AheadSubject
<1>. QED BY <1>7, <1>9, <1>10, <1>11, <1>12, <1>13 DEF ListInv

LEMMA SubjectStepsKeep ==
  ASSUME ListInv, FirstPage \/ NextSubjects
  PROVE  ListInv'
<1>1. CASE NextSubjects
  BY <1>1, SubjectsKeep DEF NextSubjects
<1>2. ASSUME FirstPage, NEW limit \in Limits, SubjectsPage(0, limit) PROVE ListInv'
  <2>1. cursor.after = 0 /\ pc = "call" /\ cursor.mode = "first"
        /\ UNCHANGED <<bucket, cursor, sent, got>>
    BY <1>2 DEF ListInv, PlaceInv, FirstPage
  <2>. QED BY <1>2, <2>1, SubjectsKeep
<1>3. ASSUME FirstPage, pc' = "open", UNCHANGED <<page, history>> PROVE ListInv'
  <2>1. /\ pc = "call" /\ cursor.mode = "first" /\ UNCHANGED bucket
        /\ cursor' = cursor /\ sent' = sent /\ got' = got /\ page' = page
        /\ owed' = owed /\ moved' = moved
    BY <1>3 DEF FirstPage, history
  <2>2. page.mode = "first" /\ Mode = "first" /\ Mode' = "first" /\ owed = {} /\ sent = <<>>
    BY <2>1 DEF ListInv, PlaceInv, Mode
  <2>3. TypeOK'
    BY <1>3, <2>1, BucketFrame DEF ListInv, TypeOK
  <2>4. PlaceInv' /\ OrderInv'
    BY <1>3, <2>1, <2>2 DEF ListInv, PlaceInv, OrderInv
  <2>5. TwiceInv' /\ OwedInv'
    BY <1>3, <2>1, <2>2 DEF TwiceInv, OwedInv, Consumer
  <2>. QED BY <2>1, <2>3, <2>4, <2>5, BucketFrame DEF ListInv
<1>. QED BY <1>1, <1>2, <1>3 DEF FirstPage

-----------------------------------------------------------------------------
(* Records a consumer reads.                                               *)

SeqIn(mode, k) == IF mode = "i" THEN index[k] ELSE data[k].seq

\* A live key of the pass has a record it is returned for.
LEMMA RecordThere ==
  ASSUME NEW mode \in {"i", "d"}, NEW n, NEW k \in Matching, SeqIn(mode, k) > n,
         mode = "d" => Live(k)
  PROVE  [key |-> k, seq |-> SeqIn(mode, k), put |-> TRUE] \in RecordsAfter(mode, n)
<1>0. k \in Keys
  BY ListAssumption
<1>1. CASE mode = "i"
  BY <1>0, <1>1, ListAssumption DEF RecordsAfter, SeqIn
<1>2. CASE mode = "d"
  BY <1>0, <1>2 DEF RecordsAfter, SeqIn, Live
<1>. QED BY <1>1, <1>2

LEMMA RecordShape ==
  ASSUME TypeOK, NEW mode \in {"i", "d"}, NEW n \in Nat, NEW r \in RecordsAfter(mode, n)
  PROVE  /\ r.key \in Keys /\ r.seq \in Nat /\ r.put \in BOOLEAN /\ r.seq > n
         /\ r.put => r.seq = SeqIn(mode, r.key)
         /\ \/ r.seq = index[r.key] /\ r.put = (mode = "i")
            \/ mode = "d" /\ r.seq = data[r.key].seq /\ (Live(r.key) => r.put)
<1>0. \A k \in Keys : data[k].seq \in Nat /\ index[k] \in Nat
  BY TypeFacts
<1>1. CASE \E k \in Keys : index[k] > n /\ r = [key |-> k, seq |-> index[k], put |-> mode = "i"]
  <2>1. PICK k \in Keys : index[k] > n /\ r = [key |-> k, seq |-> index[k], put |-> mode = "i"]
    BY <1>1
  <2>2. r.key = k /\ r.seq = index[k]
    BY <2>1
  <2>3. r.put = (mode = "i")
    BY <2>1
  <2>4. r.put => r.seq = SeqIn(mode, r.key)
    BY <2>2, <2>3 DEF SeqIn
  <2>5. r.put \in BOOLEAN
    BY <2>3
  <2>6. r.key \in Keys /\ r.seq \in Nat /\ r.seq > n
    BY <1>0, <2>1, <2>2
  <2>. QED BY <2>2, <2>3, <2>4, <2>5, <2>6
<1>2. CASE \E k \in Keys : mode = "d" /\ data[k].seq > n
             /\ r = [key |-> k, seq |-> data[k].seq, put |-> data[k].op \in {"put", "lapsed"}]
  <2>1. PICK k \in Keys : mode = "d" /\ data[k].seq > n
             /\ r = [key |-> k, seq |-> data[k].seq, put |-> data[k].op \in {"put", "lapsed"}]
    BY <1>2
  <2>2. r.key = k /\ r.seq = data[k].seq
    BY <2>1
  <2>3. r.put = (data[k].op \in {"put", "lapsed"})
    BY <2>1
  <2>4. r.put => r.seq = SeqIn(mode, r.key)
    BY <2>1, <2>2 DEF SeqIn
  <2>5. r.put \in BOOLEAN /\ (Live(r.key) => r.put)
    <3>1. r.put \in BOOLEAN
      BY <2>3
    <3>2. data[k].op = "put" => r.put
      BY <2>3
    <3>. QED BY <2>2, <3>1, <3>2 DEF Live
  <2>6. r.key \in Keys /\ r.seq \in Nat /\ r.seq > n
    BY <1>0, <2>1, <2>2
  <2>. QED BY <2>1, <2>2, <2>4, <2>5, <2>6
<1>. QED BY <1>1, <1>2, ListAssumption DEF RecordsAfter

\* No other record sits where the record of a live key of the pass sits.
LEMMA RecordAlone ==
  ASSUME TypeOK, StoreInv, NEW mode \in {"i", "d"}, NEW n \in Nat, NEW k \in Matching,
         mode = "d" => Live(k), NEW r \in RecordsAfter(mode, n), r.seq = SeqIn(mode, k)
  PROVE  r.key = k /\ r.put
<1>1. k \in Keys /\ r.key \in Keys /\ r.seq > 0
  BY RecordShape, ListAssumption
<1>2. CASE mode = "i"
  BY <1>1, <1>2, RecordShape DEF SeqIn, StoreInv
<1>3. CASE mode = "d"
  <2>1. r.seq = data[k].seq
    BY <1>3 DEF SeqIn
  <2>2. r.seq # index[r.key]
    BY <1>1, <2>1 DEF StoreInv
  <2>3. r.seq = data[r.key].seq /\ (Live(r.key) => r.put)
    BY <2>2, RecordShape
  <2>. QED BY <1>1, <1>3, <2>1, <2>3 DEF StoreInv
<1>. QED BY <1>2, <1>3

\* The consumer stands at or behind everything it sent.
LEMMA PositionFacts ==
  ASSUME TypeOK, OrderInv
  PROVE  /\ Position \in Nat /\ Position >= cursor.after /\ Position >= page.last
         /\ \A i \in 1..Len(sent) : sent[i].seq <= Position
<1>1. /\ Len(sent) \in Nat /\ cursor.after \in Nat /\ page.last \in Nat
      /\ \A i \in 1..Len(sent) : sent[i].seq \in Nat
  BY TypeFacts
<1>2. CASE sent # <<>>
  <2>1. Len(sent) \in 1..Len(sent)
    BY <1>1, <1>2 DEF TypeOK
  <2>2. Position = sent[Len(sent)].seq
    BY <1>2 DEF Position
  <2>3. \A i \in 1..Len(sent) : i < Len(sent) => sent[i].seq < sent[Len(sent)].seq
    BY <2>1 DEF OrderInv
  <2>4. \A i \in 1..Len(sent) : i < Len(sent) \/ i = Len(sent)
    BY <1>1
  <2>. QED BY <1>1, <2>1, <2>2, <2>3, <2>4 DEF OrderInv
<1>3. CASE sent = <<>>
  <2>1. Position = IF page.last # 0 THEN page.last ELSE cursor.after
    BY <1>3 DEF Position
  <2>2. Len(sent) = 0
    BY <1>3
  <2>. QED BY <1>1, <2>1, <2>2 DEF OrderInv
<1>. QED BY <1>2, <1>3

LEMMA OpenKeeps ==
  ASSUME ListInv, OpenConsumer
  PROVE  ListInv'
<1>1. PICK ready \in BOOLEAN :
       LET mode == CASE cursor.mode # "first" -> cursor.mode
                     [] cursor.mode = "first" /\ ready -> "i"
                     [] OTHER -> "d"
       IN /\ pc = "open" \/ (pc = "call" /\ cursor.mode \in {"i", "d"})
          /\ Begins(mode)
          /\ page' = [mode |-> mode, times |-> Never, n |-> 0, last |-> 0, more |-> TRUE]
          /\ pc' = (IF RecordsAfter(mode, cursor.after) = {} THEN "done" ELSE "read")
  BY DEF OpenConsumer, IndexReady
<1>. DEFINE mode == CASE cursor.mode # "first" -> cursor.mode
                      [] cursor.mode = "first" /\ ready -> "i"
                      [] OTHER -> "d"
<1>2. /\ pc = "open" \/ (pc = "call" /\ cursor.mode \in {"i", "d"})
      /\ Begins(mode)
      /\ page' = [mode |-> mode, times |-> Never, n |-> 0, last |-> 0, more |-> TRUE]
      /\ pc' = (IF RecordsAfter(mode, cursor.after) = {} THEN "done" ELSE "read")
  BY <1>1
<1>3. /\ cursor.mode # "first" => mode = cursor.mode
      /\ cursor.mode = "first" => mode \in {"i", "d"}
  OBVIOUS
<1>4. mode \in {"i", "d"}
  BY <1>2, <1>3 DEF ListInv, PlaceInv
<1>5. UNCHANGED bucket /\ cursor' = cursor /\ got' = got /\ sent' = <<>> /\ moved' = moved
  BY <1>2 DEF OpenConsumer, Begins
<1>. HIDE DEF mode
<1>6. /\ page'.mode = mode /\ page'.times = Never /\ page'.last = 0 /\ page'.more /\ page' \in Page
  BY <1>2, <1>4 DEF Page, Never, Modes
<1>7. Mode' = mode /\ pc' \in {"read", "done"}
  BY <1>2, <1>4, <1>6 DEF Mode
<1>8. \A k \in Keys : Rec(k)' = SeqIn(mode, k)
  BY <1>5, <1>7 DEF Rec, SeqIn, bucket
<1>9. /\ \A k \in owed' : /\ k \in Matching /\ Live(k) /\ (mode # "d" => index[k] # 0)
                          /\ got[k] = 0 /\ SeqIn(mode, k) > cursor.after
      /\ \A k \in Keys \ moved : got[k] <= 1 /\ (got[k] > 0 => SeqIn(mode, k) <= cursor.after)
  <2>1. CASE cursor.mode = "first"
    <3>1. got = Never /\ cursor.after = 0
      BY <1>2, <2>1 DEF ListInv, PlaceInv
    <3>2. owed' = {k \in Matching : Live(k) /\ (mode = "d" \/ index[k] # 0)}
      BY <1>2, <2>1 DEF Begins
    <3>3. \A k \in owed' : k \in Keys /\ k \in Matching /\ Live(k) /\ (mode # "d" => index[k] # 0)
      BY <3>2, ListAssumption
    <3>4. \A k \in Keys : index[k] \in Nat /\ (Live(k) => data[k].seq > 0)
      BY TypeFacts DEF ListInv, StoreInv
    <3>5. \A k \in owed' : SeqIn(mode, k) > cursor.after
      BY <1>4, <3>1, <3>3, <3>4 DEF SeqIn
    <3>6. \A k \in Keys : got[k] = 0
      BY <3>1 DEF Never
    <3>. QED BY <3>3, <3>5, <3>6
  <2>2. CASE cursor.mode # "first"
    <3>1. Mode = mode /\ Consumer /\ owed' = owed /\ pc # "done"
      BY <1>2, <1>3, <1>4, <2>2 DEF ListInv, PlaceInv, Mode, Begins, Consumer
    <3>2. \A k \in Keys : Rec(k) = SeqIn(mode, k)
      BY <3>1 DEF Rec, SeqIn
    <3>3. \A k \in owed : k \in Matching /\ k \in Keys
      BY ListAssumption DEF ListInv, TypeOK
    <3>4. \A k \in owed : Live(k) /\ (mode # "d" => index[k] # 0) /\ got[k] = 0 /\ Rec(k) > cursor.after
      BY <3>1 DEF ListInv, OwedInv, AheadKey
    <3>5. \A k \in Keys \ moved : got[k] <= 1 /\ (got[k] > 0 => Rec(k) <= cursor.after)
      BY <3>1 DEF ListInv, TwiceInv, BehindKey
    <3>. QED BY <3>1, <3>2, <3>3, <3>4, <3>5
  <2>. QED BY <2>1, <2>2
<1>10. TypeOK'
  <2>1. owed' \subseteq Matching
    BY <1>9
  <2>2. sent' \in Seq(Sent)
    BY <1>5
  <2>3. moved' \subseteq Keys /\ got' \in [Keys -> 0..2] /\ cursor' \in [mode : Modes, after : Nat]
    BY <1>5 DEF ListInv, TypeOK
  <2>. QED BY <1>5, <1>6, <1>7, <2>1, <2>2, <2>3, BucketFrame DEF ListInv, TypeOK
<1>11. PlaceInv'
  BY <1>2, <1>3, <1>4, <1>5, <1>6, <1>7 DEF ListInv, PlaceInv
<1>12. OrderInv'
  BY <1>5, <1>6, <1>7 DEF OrderInv
<1>13. TwiceInv'
  <2>. SUFFICES ASSUME NEW k \in Keys \ moved PROVE got[k] <= 1 /\ BehindKey(k)'
    BY <1>4, <1>5, <1>7 DEF TwiceInv
  <2>1. page'.times[k] = 0 /\ Len(sent') = 0
    BY <1>5, <1>6 DEF Never
  <2>. QED BY <1>5, <1>8, <1>9, <2>1 DEF BehindKey
<1>14. OwedInv'
  <2>. SUFFICES ASSUME NEW k \in owed'
                PROVE  /\ pc' # "done" /\ Live(k)' /\ got'[k] = 0 /\ (mode # "d" => index'[k] # 0)
                       /\ AheadKey(k)'
    BY <1>4, <1>7 DEF OwedInv
  <2>1. RecordsAfter(mode, cursor.after) # {}
    BY <1>4, <1>9, RecordThere
  <2>2. Len(sent') = 0 /\ Position' = cursor.after
    BY <1>5, <1>6 DEF Position
  <2>3. k \in Keys /\ Rec(k)' > cursor.after /\ cursor.after \in Nat
    BY <1>8, <1>9, ListAssumption, TypeFacts DEF ListInv
  <2>4. Rec(k)' > 0
    BY <1>8, <2>3, TypeFacts DEF ListInv, SeqIn
  <2>5. AheadKey(k)'
    BY <1>5, <1>6, <2>2, <2>3, <2>4 DEF AheadKey
  <2>6. data' = data /\ index' = index
    BY <1>5 DEF bucket
  <2>. QED BY <1>2, <1>5, <1>9, <2>1, <2>5, <2>6 DEF Live
<1>. QED BY <1>5, <1>10, <1>11, <1>12, <1>13, <1>14, BucketFrame DEF ListInv

-----------------------------------------------------------------------------
(* The consumer sends, the call reads.                                     *)

\* In a page through a consumer the page's mode is the pass's.
LEMMA ReadMode ==
  ASSUME ListInv, pc = "read"
  PROVE  /\ Mode = page.mode /\ page.mode \in {"i", "d"} /\ Consumer
         /\ \A k : Rec(k) = SeqIn(page.mode, k)
  BY DEF ListInv, PlaceInv, Mode, Consumer, Rec, SeqIn

LEMMA DeliverKeeps ==
  ASSUME ListInv, Deliver
  PROVE  ListInv'
<1>. DEFINE rest == RecordsAfter(page.mode, Position)
<1>1. PICK r \in rest : /\ \A q \in rest : r.seq <= q.seq
                        /\ sent' = Append(sent, [key |-> r.key, seq |-> r.seq, put |-> r.put,
                                                 more |-> rest # {r}])
  BY DEF Deliver
<1>2. /\ pc = "read" /\ pc' = pc /\ cursor' = cursor /\ page' = page /\ got' = got
      /\ owed' = owed /\ moved' = moved /\ UNCHANGED bucket
  BY DEF Deliver, history
<1>3. /\ Mode = page.mode /\ page.mode \in {"i", "d"} /\ Consumer
      /\ \A k : Rec(k) = SeqIn(page.mode, k)
  BY <1>2, ReadMode
<1>4. Mode' = Mode /\ data' = data /\ index' = index /\ Consumer'
  BY <1>2, <1>3 DEF Mode, Consumer, bucket
<1>5. \A k : Rec(k)' = Rec(k) /\ Live(k)' = Live(k)
  BY <1>4 DEF Rec, Live
<1>6. /\ Position \in Nat /\ Position >= cursor.after /\ Position >= page.last
      /\ \A i \in 1..Len(sent) : sent[i].seq <= Position
  BY PositionFacts DEF ListInv
<1>7. /\ r.key \in Keys /\ r.seq \in Nat /\ r.put \in BOOLEAN /\ r.seq > Position
      /\ r.put => r.seq = Rec(r.key)
  BY <1>3, <1>6, RecordShape DEF ListInv
<1>. DEFINE new == [key |-> r.key, seq |-> r.seq, put |-> r.put, more |-> rest # {r}]
            n == Len(sent)
<1>8. new.key = r.key /\ new.seq = r.seq /\ new.put = r.put /\ new.more = (rest # {r}) /\ new \in Sent
  BY <1>7 DEF Sent
<1>. HIDE DEF new
<1>9. /\ sent \in Seq(Sent) /\ n \in Nat /\ sent' \in Seq(Sent) /\ Len(sent') = n + 1
      /\ sent'[n + 1] = new /\ \A i \in 1..n : sent'[i] = sent[i]
  BY <1>1, <1>8 DEF ListInv, TypeOK, new
<1>m. PICK m \in Nat : m = n + 1
  BY <1>9
<1>10. /\ cursor.after \in Nat /\ page.last \in Nat
       /\ \A i \in 1..n : sent[i].seq \in Nat
       /\ \A k \in Keys : Rec(k) \in Nat /\ got[k] \in Nat /\ page.times[k] \in Nat
  BY TypeFacts DEF ListInv
<1>11. \A i \in 1..(n + 1) : i \in 1..n \/ i = n + 1
  BY <1>9
<1>12. Position' = r.seq
  <2>1. sent' # <<>>
    BY <1>9
  <2>. QED BY <1>8, <1>9, <2>1 DEF Position
<1>13. TypeOK'
  BY <1>2, <1>9, BucketFrame DEF ListInv, TypeOK
<1>14. PlaceInv'
  BY <1>2, <1>4 DEF ListInv, PlaceInv
<1>15. OrderInv'
  <2>1. \A i \in 1..(n + 1) : sent'[i].seq > cursor.after /\ sent'[i].seq > page.last
    BY <1>6, <1>7, <1>8, <1>9, <1>10, <1>11 DEF ListInv, OrderInv
  <2>2. \A i, j \in 1..(n + 1) : i < j => sent'[i].seq < sent'[j].seq
    <3>. SUFFICES ASSUME NEW i \in 1..(n + 1), NEW j \in 1..(n + 1), i < j
                  PROVE  sent'[i].seq < sent'[j].seq
      OBVIOUS
    <3>1. i \in 1..n
      BY <1>9
    <3>2. CASE j \in 1..n
      BY <1>9, <3>1, <3>2 DEF ListInv, OrderInv
    <3>3. CASE j = n + 1
      BY <1>6, <1>7, <1>8, <1>9, <1>10, <3>1, <3>3
    <3>. QED BY <1>11, <3>2, <3>3
  <2>. QED BY <1>2, <1>9, <2>1, <2>2 DEF ListInv, OrderInv
<1>16. \A k : /\ \A i \in 1..n : Captures(i, k)' = Captures(i, k)
              /\ Captures(m, k)' = (r.key = k /\ r.put)
  BY <1>8, <1>9, <1>m DEF Captures
<1>17. TwiceInv'
  <2>. SUFFICES ASSUME NEW k \in Keys \ moved PROVE got[k] <= 1 /\ BehindKey(k)'
    BY <1>2, <1>3, <1>4 DEF TwiceInv
  <2>1. got[k] <= 1 /\ BehindKey(k)
    BY <1>2, <1>3 DEF ListInv, TwiceInv
  <2>2. ASSUME r.key = k, r.put
        PROVE  /\ Rec(k) = r.seq /\ got[k] = 0 /\ page.times[k] = 0
               /\ \A i \in 1..n : ~Captures(i, k)
    <3>1. Rec(k) = r.seq /\ Rec(k) > Position
      BY <1>7, <2>2
    <3>2. ~(got[k] > 0) /\ ~(page.times[k] > 0)
      BY <1>6, <1>10, <2>1, <3>1 DEF BehindKey
    <3>3. \A i \in 1..n : ~Captures(i, k)
      <4>. SUFFICES ASSUME NEW i \in 1..n, Captures(i, k) PROVE FALSE
        OBVIOUS
      <4>1. Rec(k) <= sent[i].seq
        BY <2>1 DEF BehindKey
      <4>. QED BY <1>6, <1>10, <3>1, <4>1
    <3>. QED BY <1>10, <3>1, <3>2, <3>3
  <2>3. \A i \in 1..(n + 1) : Captures(i, k)' =>
          Rec(k) <= sent'[i].seq /\ got[k] = 0 /\ page.times[k] = 0
    <3>. SUFFICES ASSUME NEW i \in 1..(n + 1), Captures(i, k)'
                  PROVE  Rec(k) <= sent'[i].seq /\ got[k] = 0 /\ page.times[k] = 0
      OBVIOUS
    <3>1. CASE i \in 1..n
      BY <1>9, <1>16, <2>1, <3>1 DEF BehindKey
    <3>2. CASE i = n + 1
      <4>1. r.key = k /\ r.put
        BY <1>16, <1>m, <3>2
      <4>. QED BY <1>7, <1>8, <1>9, <2>2, <3>2, <4>1
    <3>. QED BY <1>11, <3>1, <3>2
  <2>4. \A i, j \in 1..(n + 1) : Captures(i, k)' /\ Captures(j, k)' => i = j
    <3>. SUFFICES ASSUME NEW i \in 1..(n + 1), NEW j \in 1..(n + 1), Captures(i, k)', Captures(j, k)'
                  PROVE  i = j
      OBVIOUS
    <3>1. CASE r.key = k /\ r.put
      BY <1>11, <1>16, <1>m, <2>2, <3>1
    <3>2. CASE ~(r.key = k /\ r.put)
      BY <1>11, <1>16, <1>m, <2>1, <3>2 DEF BehindKey
    <3>. QED BY <3>1, <3>2
  <2>. QED BY <1>2, <1>5, <1>9, <2>1, <2>3, <2>4 DEF BehindKey
<1>18. OwedInv'
  <2>. SUFFICES ASSUME NEW k \in owed
                PROVE  /\ Live(k) /\ got[k] = 0 /\ (Mode # "d" => index[k] # 0)
                       /\ AheadKey(k)'
    BY <1>2, <1>3, <1>4, <1>5 DEF OwedInv
  <2>0. k \in Matching /\ k \in Keys /\ Live(k) /\ got[k] = 0 /\ (Mode # "d" => index[k] # 0)
        /\ AheadKey(k)
    BY <1>3, ListAssumption DEF ListInv, TypeOK, OwedInv
  <2>1. ASSUME page.times[k] = 0, \A j \in 1..n : ~Captures(j, k), ~(r.key = k /\ r.put)
        PROVE  rest # {r} /\ Rec(k) > r.seq
    <3>1. Rec(k) > Position
      BY <1>2, <2>0, <2>1 DEF AheadKey
    <3>. DEFINE q == [key |-> k, seq |-> Rec(k), put |-> TRUE]
    <3>2. q \in rest
      BY <1>3, <2>0, <3>1, RecordThere
    <3>3. q # r
      BY <2>1
    <3>4. r.seq <= Rec(k)
      BY <1>1, <3>2
    <3>5. r.seq # Rec(k)
      BY <1>3, <1>6, <2>0, <2>1, RecordAlone DEF ListInv
    <3>. QED BY <1>7, <1>10, <2>0, <3>2, <3>3, <3>4, <3>5
  <2>2. ASSUME page.times[k] = 0, NEW i \in 1..(n + 1), \A j \in 1..i : ~Captures(j, k)'
        PROVE  sent'[i].more
    <3>1. CASE i \in 1..n
      <4>1. \A j \in 1..i : j \in 1..n
        BY <1>9, <3>1
      <4>2. \A j \in 1..i : ~Captures(j, k)
        BY <1>16, <2>2, <4>1
      <4>3. sent[i].more
        BY <1>2, <2>0, <2>2, <3>1, <4>2 DEF AheadKey
      <4>. QED BY <1>9, <3>1, <4>3
    <3>2. CASE i = n + 1
      <4>1. \A j \in 1..n : j \in 1..i
        BY <1>9, <3>2
      <4>2. \A j \in 1..n : ~Captures(j, k)
        BY <1>16, <2>2, <4>1
      <4>3. m \in 1..i
        BY <1>9, <1>m, <3>2
      <4>4. ~(r.key = k /\ r.put)
        BY <1>16, <2>2, <4>3
      <4>5. rest # {r}
        BY <2>1, <2>2, <4>2, <4>4
      <4>. QED BY <1>8, <1>9, <3>2, <4>5
    <3>. QED BY <1>11, <3>1, <3>2
  <2>3. ASSUME page.times[k] = 0, \A j \in 1..(n + 1) : ~Captures(j, k)'
        PROVE  Rec(k) > r.seq
    <3>1. m \in 1..(n + 1) /\ \A j \in 1..n : j \in 1..(n + 1)
      BY <1>9, <1>m
    <3>2. ~(r.key = k /\ r.put) /\ \A j \in 1..n : ~Captures(j, k)
      BY <1>16, <2>3, <3>1
    <3>. QED BY <2>1, <2>3, <3>2
  <2>4. \A j \in 1..(n + 1) : Captures(j, k)' => Rec(k) >= sent'[j].seq
    <3>. SUFFICES ASSUME NEW j \in 1..(n + 1), Captures(j, k)' PROVE Rec(k) >= sent'[j].seq
      OBVIOUS
    <3>1. CASE j \in 1..n
      BY <1>9, <1>16, <2>0, <3>1 DEF AheadKey
    <3>2. CASE j = n + 1
      <4>1. r.key = k /\ r.put
        BY <1>16, <1>m, <3>2
      <4>. QED BY <1>7, <1>8, <1>9, <3>2, <4>1
    <3>. QED BY <1>11, <3>1, <3>2
  <2>5. Rec(k) > cursor.after /\ (page.times[k] = 0 => page.more /\ Rec(k) > page.last)
    BY <1>2, <2>0 DEF AheadKey
  <2>6. AheadKey(k)'
    BY <1>2, <1>5, <1>9, <1>12, <2>2, <2>3, <2>4, <2>5 DEF AheadKey
  <2>. QED BY <2>0, <2>6
<1>. QED BY <1>2, <1>13, <1>14, <1>15, <1>17, <1>18, BucketFrame DEF ListInv

LEMMA ReadKeeps ==
  ASSUME ListInv, ReadRecord
  PROVE  ListInv'
<1>. DEFINE r == Head(sent)
            one == IF Counts(r) THEN 1 ELSE 0
<1>1. /\ pc = "read" /\ sent # <<>> /\ cursor' = cursor /\ got' = got /\ owed' = owed
      /\ moved' = moved /\ UNCHANGED bucket
      /\ page' = [mode |-> page.mode, times |-> [page.times EXCEPT ![r.key] = @ + one],
                  n |-> page.n + one, last |-> r.seq, more |-> r.more]
      /\ \/ pc' = "read" /\ sent' = Tail(sent)
         \/ pc' = "fetch" /\ sent' = <<>>
  BY DEF ReadRecord, history
<1>2. /\ Mode = page.mode /\ page.mode \in {"i", "d"} /\ Consumer
      /\ \A k : Rec(k) = SeqIn(page.mode, k)
  BY <1>1, ReadMode
<1>3. /\ cursor.after \in Nat /\ page.last \in Nat /\ page.n \in Nat /\ Len(sent) \in Nat
      /\ page.times \in [Keys -> Nat]
      /\ \A k \in Keys : Rec(k) \in Nat /\ got[k] \in Nat /\ page.times[k] \in Nat
      /\ \A i \in 1..Len(sent) : sent[i] \in Sent /\ sent[i].seq \in Nat /\ sent[i].key \in Keys
  BY TypeFacts DEF ListInv
<1>4. sent \in Seq(Sent) /\ r = sent[1] /\ 1 \in 1..Len(sent)
  BY <1>1, <1>3 DEF ListInv, TypeOK
<1>5. /\ r.key \in Keys /\ r.seq \in Nat /\ r.more \in BOOLEAN
      /\ r.seq > cursor.after /\ r.seq > page.last
  BY <1>3, <1>4 DEF ListInv, OrderInv, Sent
<1>. HIDE DEF r
<1>6. page'.mode = page.mode /\ page'.last = r.seq /\ page'.more = r.more
      /\ page'.n = page.n + one /\ page'.times = [page.times EXCEPT ![r.key] = page.times[r.key] + one]
  BY <1>1, <1>3, <1>5
<1>7. one \in {0, 1} /\ (one = 1 <=> r.put /\ r.key \in Matching)
  BY DEF Counts
<1>. HIDE DEF one
<1>8. page'.times \in [Keys -> Nat]
      /\ \A k \in Keys : page'.times[k] = (IF k = r.key THEN page.times[k] + one ELSE page.times[k])
  BY <1>3, <1>5, <1>6, <1>7
<1>9. Mode' = Mode /\ data' = data /\ index' = index /\ Consumer'
  BY <1>1, <1>2, <1>6 DEF Mode, Consumer, bucket
<1>10. \A k : Rec(k)' = Rec(k) /\ Live(k)' = Live(k)
  BY <1>9 DEF Rec, Live
<1>11. \A k : Captures(1, k) <=> r.key = k /\ r.put
  BY <1>4 DEF Captures
<1>12. ASSUME NEW k \in Keys \ moved
       PROVE  /\ got[k] <= 1 /\ BehindKey(k)
              /\ page'.times[k] > 0 => page'.times[k] = 1 /\ got[k] = 0 /\ Rec(k) <= r.seq
  <2>1. got[k] <= 1 /\ BehindKey(k)
    BY <1>1, <1>2 DEF ListInv, TwiceInv
  <2>2. CASE k = r.key /\ one = 1
    <3>1. Captures(1, k)
      BY <1>7, <1>11, <2>2
    <3>2. Rec(k) <= sent[1].seq /\ got[k] = 0 /\ page.times[k] = 0
      BY <1>4, <2>1, <3>1 DEF BehindKey
    <3>. QED BY <1>4, <1>8, <2>1, <2>2, <3>2
  <2>3. CASE ~(k = r.key /\ one = 1)
    <3>1. page'.times[k] = page.times[k]
      BY <1>3, <1>7, <1>8, <2>3
    <3>2. page.times[k] > 0 => page.times[k] = 1 /\ got[k] = 0 /\ Rec(k) <= page.last
      BY <2>1 DEF BehindKey
    <3>. QED BY <1>3, <1>5, <2>1, <3>1, <3>2
  <2>. QED BY <2>2, <2>3
<1>13. ASSUME NEW k \in owed
       PROVE  k \in Matching /\ k \in Keys /\ Live(k) /\ got[k] = 0 /\ (Mode # "d" => index[k] # 0)
              /\ AheadKey(k)
  BY <1>2, ListAssumption DEF ListInv, TypeOK, OwedInv
<1>14. ASSUME NEW k \in owed, page'.times[k] = 0
       PROVE  page.times[k] = 0 /\ ~Captures(1, k) /\ r.more /\ Rec(k) > r.seq
  <2>1. page.times[k] = 0 /\ ~(k = r.key /\ one = 1)
    BY <1>3, <1>7, <1>8, <1>13, <1>14
  <2>2. ~Captures(1, k)
    BY <1>7, <1>11, <1>13, <2>1
  <2>3. \A j \in 1..1 : ~Captures(j, k)
    BY <2>2
  <2>4. sent[1].more
    BY <1>1, <1>4, <1>13, <2>1, <2>3 DEF AheadKey
  <2>5. CASE \A j \in 1..Len(sent) : ~Captures(j, k)
    <3>1. Rec(k) > Position
      BY <1>1, <1>13, <2>1, <2>5 DEF AheadKey
    <3>2. Position \in Nat /\ sent[1].seq <= Position
      BY <1>4, PositionFacts DEF ListInv
    <3>. QED BY <1>3, <1>4, <1>5, <1>13, <2>1, <2>2, <2>4, <3>1, <3>2
  <2>6. CASE \E j \in 1..Len(sent) : Captures(j, k)
    <3>1. PICK j \in 1..Len(sent) : Captures(j, k)
      BY <2>6
    <3>2. Rec(k) >= sent[j].seq
      BY <1>13, <3>1 DEF AheadKey
    <3>3. 1 < j
      BY <1>3, <2>2, <3>1
    <3>4. sent[1].seq < sent[j].seq
      BY <1>4, <3>3 DEF ListInv, OrderInv
    <3>. QED BY <1>3, <1>4, <1>5, <1>13, <2>1, <2>2, <2>4, <3>2, <3>4
  <2>. QED BY <2>5, <2>6
<1>15. sent' \in Seq(Sent)
  <2>1. Tail(sent) \in Seq(Sent)
    BY <1>1, <1>4
  <2>2. << >> \in Seq(Sent)
    OBVIOUS
  <2>. QED BY <1>1, <2>1, <2>2
<1>16. TypeOK'
  <2>1. page.n + one \in Nat
    BY <1>3, <1>7
  <2>2. page' \in Page
    BY <1>1, <1>2, <1>5, <1>6, <1>8, <2>1 DEF Page, Modes
  <2>. QED BY <1>1, <1>15, <2>2, BucketFrame DEF ListInv, TypeOK
<1>17. PlaceInv'
  BY <1>1, <1>2, <1>6, <1>9 DEF ListInv, PlaceInv
<1>18. CASE pc' = "fetch" /\ sent' = <<>>
  <2>0. Len(sent') = 0 /\ 1..0 = {}
    BY <1>18
  <2>1. OrderInv'
    BY <1>1, <1>5, <1>6, <2>0 DEF OrderInv
  <2>2. TwiceInv'
    <3>. SUFFICES ASSUME NEW k \in Keys \ moved PROVE got[k] <= 1 /\ BehindKey(k)'
      BY <1>1, <1>2, <1>9 DEF TwiceInv
    <3>1. got[k] > 0 => Rec(k) <= cursor.after
      BY <1>12 DEF BehindKey
    <3>. QED BY <1>1, <1>6, <1>10, <1>12, <2>0, <3>1 DEF BehindKey
  <2>3. OwedInv'
    <3>. SUFFICES ASSUME NEW k \in owed
                  PROVE  Live(k) /\ got[k] = 0 /\ (Mode # "d" => index[k] # 0) /\ AheadKey(k)'
      BY <1>1, <1>2, <1>9, <1>10, <1>18 DEF OwedInv
    <3>1. Rec(k) > cursor.after
      BY <1>13 DEF AheadKey
    <3>2. AheadKey(k)'
      BY <1>1, <1>6, <1>10, <1>14, <1>18, <2>0, <3>1 DEF AheadKey
    <3>. QED BY <1>13, <3>2
  <2>. QED BY <1>1, <1>16, <1>17, <2>1, <2>2, <2>3, BucketFrame DEF ListInv
<1>19. CASE pc' = "read" /\ sent' = Tail(sent)
  <2>. DEFINE n == Len(sent) - 1
  <2>0. /\ n \in Nat /\ Len(sent') = n /\ \A i \in 1..n : sent'[i] = sent[i + 1] /\ i + 1 \in 1..Len(sent)
    BY <1>1, <1>3, <1>4, <1>19
  <2>1. OrderInv'
    <3>1. \A i \in 1..n : sent'[i].seq > cursor.after /\ sent'[i].seq > r.seq
      <4>. SUFFICES ASSUME NEW i \in 1..n PROVE sent[i + 1].seq > cursor.after /\ sent[i + 1].seq > r.seq
        BY <2>0
      <4>1. 1 < i + 1
        BY <2>0
      <4>. QED BY <1>3, <1>4, <1>5, <2>0, <4>1 DEF ListInv, OrderInv
    <3>2. \A i, j \in 1..n : i < j => sent'[i].seq < sent'[j].seq
      <4>. SUFFICES ASSUME NEW i \in 1..n, NEW j \in 1..n, i < j PROVE sent[i + 1].seq < sent[j + 1].seq
        BY <2>0
      <4>1. i + 1 < j + 1
        BY <2>0
      <4>. QED BY <2>0, <4>1 DEF ListInv, OrderInv
    <3>. QED BY <1>1, <1>5, <1>6, <1>19, <2>0, <3>1, <3>2 DEF OrderInv
  <2>2. \A k : \A i \in 1..n : Captures(i, k)' = Captures(i + 1, k)
    BY <2>0 DEF Captures
  <2>3. TwiceInv'
    <3>. SUFFICES ASSUME NEW k \in Keys \ moved PROVE got[k] <= 1 /\ BehindKey(k)'
      BY <1>1, <1>2, <1>9 DEF TwiceInv
    <3>0. got[k] <= 1 /\ BehindKey(k)
      BY <1>12
    <3>1. ASSUME NEW i \in 1..n, Captures(i, k)'
          PROVE  Rec(k) <= sent'[i].seq /\ got[k] = 0 /\ page'.times[k] = 0
      <4>1. i + 1 \in 1..Len(sent) /\ Captures(i + 1, k) /\ sent'[i] = sent[i + 1]
        BY <2>0, <2>2, <3>1
      <4>2. Rec(k) <= sent[i + 1].seq /\ got[k] = 0 /\ page.times[k] = 0
        BY <3>0, <4>1 DEF BehindKey
      <4>3. ~Captures(1, k)
        <5>1. Captures(1, k) => i + 1 = 1
          BY <1>4, <3>0, <4>1 DEF BehindKey
        <5>. QED BY <2>0, <5>1
      <4>4. page'.times[k] = page.times[k]
        BY <1>3, <1>7, <1>8, <1>11, <4>3
      <4>. QED BY <4>1, <4>2, <4>4
    <3>2. ASSUME NEW i \in 1..n, NEW j \in 1..n, Captures(i, k)', Captures(j, k)'
          PROVE  i = j
      <4>1. i + 1 \in 1..Len(sent) /\ Captures(i + 1, k) /\ j + 1 \in 1..Len(sent) /\ Captures(j + 1, k)
        BY <2>0, <2>2, <3>2
      <4>2. i + 1 = j + 1
        BY <3>0, <4>1 DEF BehindKey
      <4>. QED BY <2>0, <4>2
    <3>3. got[k] > 0 => Rec(k) <= cursor.after
      BY <3>0 DEF BehindKey
    <3>. QED BY <1>1, <1>6, <1>10, <1>12, <2>0, <3>1, <3>2, <3>3 DEF BehindKey
  <2>4. OwedInv'
    <3>. SUFFICES ASSUME NEW k \in owed
                  PROVE  Live(k) /\ got[k] = 0 /\ (Mode # "d" => index[k] # 0) /\ AheadKey(k)'
      BY <1>1, <1>2, <1>9, <1>10, <1>19 DEF OwedInv
    <3>0. AheadKey(k)
      BY <1>13
    <3>1. ASSUME page'.times[k] = 0, NEW i \in 1..n, \A j \in 1..i : ~Captures(j, k)'
          PROVE  sent'[i].more
      <4>1. page.times[k] = 0 /\ ~Captures(1, k)
        BY <1>14, <3>1
      <4>2. \A j \in 1..(i + 1) : ~Captures(j, k)
        <5>. SUFFICES ASSUME NEW j \in 1..(i + 1), j # 1 PROVE ~Captures(j, k)
          BY <4>1
        <5>1. j - 1 \in 1..i /\ j - 1 \in 1..n /\ (j - 1) + 1 = j
          BY <2>0
        <5>. QED BY <2>2, <3>1, <5>1
      <4>3. sent[i + 1].more
        BY <1>1, <2>0, <3>0, <4>1, <4>2 DEF AheadKey
      <4>. QED BY <2>0, <4>3
    <3>2. ASSUME page'.times[k] = 0, \A j \in 1..n : ~Captures(j, k)'
          PROVE  Rec(k) > Position'
      <4>1. page.times[k] = 0 /\ ~Captures(1, k) /\ Rec(k) > r.seq
        BY <1>14, <3>2
      <4>2. CASE sent' = <<>>
        <5>1. Position' = IF r.seq # 0 THEN r.seq ELSE cursor.after
          BY <1>1, <1>6, <4>2 DEF Position
        <5>. QED BY <1>3, <1>5, <4>1, <5>1
      <4>3. CASE sent' # <<>>
        <5>1. \A j \in 1..Len(sent) : ~Captures(j, k)
          <6>. SUFFICES ASSUME NEW j \in 1..Len(sent), j # 1 PROVE ~Captures(j, k)
            BY <4>1
          <6>1. j - 1 \in 1..n /\ (j - 1) + 1 = j
            BY <1>3
          <6>. QED BY <2>2, <3>2, <6>1
        <5>2. Rec(k) > Position
          BY <1>1, <3>0, <4>1, <5>1 DEF AheadKey
        <5>3. n \in 1..n
          BY <1>15, <2>0, <4>3
        <5>4. sent'[n] = sent[Len(sent)]
          BY <1>3, <2>0, <5>3
        <5>5. Position' = sent'[n].seq
          BY <2>0, <4>3 DEF Position
        <5>6. Position = sent[Len(sent)].seq
          BY <1>1 DEF Position
        <5>. QED BY <5>2, <5>4, <5>5, <5>6
      <4>. QED BY <4>2, <4>3
    <3>3. ASSUME NEW j \in 1..n, Captures(j, k)' PROVE Rec(k) >= sent'[j].seq
      <4>1. j + 1 \in 1..Len(sent) /\ Captures(j + 1, k) /\ sent'[j] = sent[j + 1]
        BY <2>0, <2>2, <3>3
      <4>. QED BY <3>0, <4>1 DEF AheadKey
    <3>4. Rec(k) > cursor.after /\ (page'.times[k] = 0 => r.more /\ Rec(k) > r.seq)
      BY <1>14, <3>0 DEF AheadKey
    <3>5. AheadKey(k)'
      BY <1>1, <1>6, <1>10, <1>19, <2>0, <3>1, <3>2, <3>3, <3>4 DEF AheadKey
    <3>. QED BY <1>13, <3>5
  <2>. QED BY <1>1, <1>16, <1>17, <2>1, <2>3, <2>4, BucketFrame DEF ListInv
<1>. QED BY <1>1, <1>18, <1>19

LEMMA StallKeeps ==
  ASSUME ListInv, Stall
  PROVE  ListInv'
<1>1. /\ pc = "read" /\ page.last # 0 /\ pc' = "fetch" /\ sent' = <<>> /\ cursor' = cursor
      /\ page' = page /\ got' = got /\ owed' = owed /\ moved' = moved /\ UNCHANGED bucket
  BY DEF Stall, history
<1>2. Mode = page.mode /\ page.mode \in {"i", "d"} /\ Consumer
  BY <1>1, ReadMode
<1>3. Mode' = Mode /\ data' = data /\ index' = index /\ Consumer'
  BY <1>1, <1>2 DEF Mode, Consumer, bucket
<1>4. \A k : Rec(k)' = Rec(k) /\ Live(k)' = Live(k)
  BY <1>3 DEF Rec, Live
<1>5. Len(sent') = 0 /\ 1..0 = {} /\ sent' \in Seq(Sent)
  BY <1>1
<1>6. TypeOK'
  BY <1>1, <1>5, BucketFrame DEF ListInv, TypeOK
<1>7. PlaceInv' /\ OrderInv'
  BY <1>1, <1>2, <1>3, <1>5 DEF ListInv, PlaceInv, OrderInv
<1>8. TwiceInv'
  <2>. SUFFICES ASSUME NEW k \in Keys \ moved PROVE got[k] <= 1 /\ BehindKey(k)'
    BY <1>1, <1>2, <1>3 DEF TwiceInv
  <2>1. got[k] <= 1 /\ BehindKey(k)
    BY <1>1, <1>2 DEF ListInv, TwiceInv
  <2>. QED BY <1>1, <1>4, <1>5, <2>1 DEF BehindKey
<1>9. OwedInv'
  <2>. SUFFICES ASSUME NEW k \in owed
                PROVE  Live(k) /\ got[k] = 0 /\ (Mode # "d" => index[k] # 0) /\ AheadKey(k)'
    BY <1>1, <1>2, <1>3, <1>4 DEF OwedInv
  <2>1. Live(k) /\ got[k] = 0 /\ (Mode # "d" => index[k] # 0) /\ AheadKey(k)
    BY <1>2 DEF ListInv, OwedInv
  <2>2. AheadKey(k)'
    BY <1>1, <1>4, <1>5, <2>1 DEF AheadKey
  <2>. QED BY <2>1, <2>2
<1>. QED BY <1>1, <1>6, <1>7, <1>8, <1>9, BucketFrame DEF ListInv

-----------------------------------------------------------------------------
(* The end of a page, and a call that fails.                               *)

LEMMA FetchKeeps ==
  ASSUME ListInv, Fetch
  PROVE  ListInv'
<1>1. /\ pc = "fetch" /\ sent' = sent /\ moved' = moved /\ UNCHANGED bucket
      /\ got' = [k \in Keys |-> IF Live(k) THEN UpToTwo(got[k] + page.times[k]) ELSE got[k]]
      /\ owed' = {k \in owed : got'[k] = 0}
      /\ page' = [NoPage EXCEPT !.mode = page.mode]
      /\ \/ page.more /\ cursor' = [mode |-> page.mode, after |-> page.last] /\ pc' = "call"
         \/ ~page.more /\ pc' = "done" /\ cursor' = cursor
  BY DEF Fetch, NextCursor
<1>2. /\ cursor.after \in Nat /\ page.last \in Nat /\ page.mode \in Modes /\ cursor.mode \in Modes
      /\ \A k \in Keys : Rec(k) \in Nat /\ got[k] \in Nat /\ page.times[k] \in Nat
  BY TypeFacts DEF ListInv
<1>3. /\ page'.mode = page.mode /\ page'.times = Never /\ page'.last = 0 /\ page' \in Page
      /\ \A k \in Keys : page'.times[k] = 0
  BY <1>1, <1>2 DEF NoPage, Page, Never
<1>4. sent' = <<>> /\ Len(sent') = 0 /\ 1..0 = {} /\ page.mode # "first" /\ Mode = page.mode /\ Mode' = Mode
  BY <1>1, <1>3 DEF ListInv, PlaceInv, Mode
<1>5. data' = data /\ index' = index /\ Consumer' = Consumer /\ \A k : Rec(k)' = Rec(k) /\ Live(k)' = Live(k)
  BY <1>1, <1>4 DEF bucket, Consumer, Rec, Live
<1>6. \A k \in Keys : got'[k] = IF Live(k) THEN UpToTwo(got[k] + page.times[k]) ELSE got[k]
  BY <1>1
<1>7. \A n \in Nat : UpToTwo(n) \in 0..2 /\ UpToTwo(n) <= n /\ (UpToTwo(n) = 0 => n = 0)
  BY DEF UpToTwo
<1>8. cursor' \in [mode : Modes, after : Nat] /\ pc' \in {"call", "done"}
  BY <1>1, <1>2 DEF ListInv, TypeOK
<1>9. TypeOK'
  <2>1. \A k \in Keys : got[k] \in 0..2 /\ got[k] + page.times[k] \in Nat
    BY <1>2 DEF ListInv, TypeOK
  <2>2. got' \in [Keys -> 0..2]
    BY <1>1, <1>7, <2>1
  <2>3. owed' \subseteq Matching
    BY <1>1 DEF ListInv, TypeOK
  <2>. QED BY <1>1, <1>3, <1>4, <1>8, <2>2, <2>3, BucketFrame DEF ListInv, TypeOK
<1>10. PlaceInv'
  <2>1. CASE pc' = "call"
    BY <1>1, <1>3, <1>4, <2>1 DEF PlaceInv
  <2>2. CASE pc' = "done" /\ cursor' = cursor
    BY <1>1, <1>3, <1>4, <2>2 DEF ListInv, PlaceInv
  <2>. QED BY <1>1, <2>1, <2>2
<1>11. OrderInv'
  BY <1>3, <1>4, <1>8 DEF OrderInv
<1>12. pc' # "done" => page.more /\ cursor'.after = page.last /\ page.last > cursor.after
  BY <1>1 DEF ListInv, OrderInv
<1>13. TwiceInv'
  <2>1. ASSUME NEW k \in Keys, Consumer, k \notin moved PROVE got'[k] <= 1 /\ (pc' # "done" => BehindKey(k)')
    <3>1. got[k] <= 1 /\ BehindKey(k)
      BY <1>1, <2>1 DEF ListInv, TwiceInv
    <3>2. /\ got[k] > 0 => Rec(k) <= cursor.after
          /\ page.times[k] > 0 => page.times[k] = 1 /\ got[k] = 0 /\ Rec(k) <= page.last
      BY <3>1 DEF BehindKey
    <3>3. got[k] + page.times[k] \in Nat /\ got[k] + page.times[k] <= 1
      BY <1>2, <3>1, <3>2
    <3>4. got'[k] \in Nat /\ got'[k] <= got[k] + page.times[k]
      <4>1. CASE Live(k)
        BY <1>6, <1>7, <2>1, <3>3, <4>1
      <4>2. CASE ~Live(k)
        BY <1>2, <1>6, <2>1, <4>2
      <4>. QED BY <4>1, <4>2
    <3>5. got'[k] <= 1
      BY <3>3, <3>4
    <3>6. ASSUME pc' # "done", got'[k] > 0 PROVE Rec(k) <= cursor'.after
      <4>1. got[k] > 0 \/ page.times[k] > 0
        BY <1>2, <3>4, <3>6
      <4>. QED BY <1>2, <1>12, <3>2, <3>6, <4>1
    <3>7. pc' # "done" => BehindKey(k)'
      BY <1>3, <1>4, <1>5, <2>1, <3>6 DEF BehindKey
    <3>. QED BY <3>5, <3>7
  <2>2. ASSUME NEW k \in Keys, Mode = "s" PROVE got'[k] <= 1 /\ (pc' # "done" => BehindSubject(k)')
    <3>0. k \in Nat
      BY KeysFinite
    <3>1. got[k] <= 1 /\ BehindSubject(k)
      BY <1>1, <2>2 DEF ListInv, TwiceInv
    <3>2. /\ got[k] > 0 => k <= cursor.after
          /\ page.times[k] > 0 => page.times[k] = 1 /\ cursor.after < k /\ k <= page.last
      BY <3>1 DEF BehindSubject
    <3>3. got[k] + page.times[k] \in Nat /\ got[k] + page.times[k] <= 1
      BY <1>2, <3>0, <3>1, <3>2
    <3>4. got'[k] \in Nat /\ got'[k] <= got[k] + page.times[k]
      <4>1. CASE Live(k)
        BY <1>6, <1>7, <3>3, <4>1
      <4>2. CASE ~Live(k)
        BY <1>2, <1>6, <4>2
      <4>. QED BY <4>1, <4>2
    <3>5. got'[k] <= 1
      BY <3>3, <3>4
    <3>6. ASSUME pc' # "done", got'[k] > 0 PROVE k <= cursor'.after
      <4>1. got[k] > 0 \/ page.times[k] > 0
        BY <1>2, <3>4, <3>6
      <4>. QED BY <1>2, <1>12, <3>0, <3>2, <3>6, <4>1
    <3>7. pc' # "done" => BehindSubject(k)'
      BY <1>3, <3>6 DEF BehindSubject
    <3>. QED BY <3>5, <3>7
  <2>. QED BY <1>1, <1>4, <1>5, <2>1, <2>2 DEF TwiceInv
<1>14. OwedInv'
  <2>. SUFFICES ASSUME NEW k \in owed'
                PROVE  /\ pc' # "done" /\ Live(k) /\ got'[k] = 0 /\ (Mode # "d" => index[k] # 0)
                       /\ Consumer => AheadKey(k)'
                       /\ Mode = "s" => AheadSubject(k)'
    BY <1>4, <1>5 DEF OwedInv
  <2>1. k \in owed /\ got'[k] = 0 /\ k \in Keys
    BY <1>1, ListAssumption DEF ListInv, TypeOK
  <2>2. /\ Live(k) /\ got[k] = 0 /\ (Mode # "d" => index[k] # 0)
        /\ Consumer => AheadKey(k)
        /\ Mode = "s" => AheadSubject(k)
    BY <2>1 DEF ListInv, OwedInv
  <2>3. page.times[k] = 0
    <3>1. UpToTwo(got[k] + page.times[k]) = 0 /\ got[k] + page.times[k] \in Nat
      BY <1>2, <1>6, <2>1, <2>2
    <3>. QED BY <1>2, <1>7, <2>1, <2>2, <3>1
  <2>4. Consumer \/ Mode = "s"
    BY <1>2, <1>4 DEF Modes, Consumer
  <2>5. page.more /\ (Consumer => Rec(k) > page.last) /\ (Mode = "s" => k > page.last)
    BY <1>1, <2>2, <2>3, <2>4 DEF AheadKey, AheadSubject
  <2>6. pc' = "call" /\ cursor'.after = page.last
    BY <1>1, <2>5
  <2>7. Consumer => AheadKey(k)'
    BY <1>4, <1>5, <2>5, <2>6 DEF AheadKey
  <2>8. Mode = "s" => AheadSubject(k)'
    BY <2>5, <2>6 DEF AheadSubject
  <2>. QED BY <2>1, <2>2, <2>6, <2>7, <2>8
<1>. QED BY <1>1, <1>9, <1>10, <1>11, <1>13, <1>14, BucketFrame DEF ListInv

LEMMA FailKeeps ==
  ASSUME ListInv, Fail
  PROVE  ListInv'
<1>1. /\ pc \in {"open", "read", "fetch"} /\ pc' = "call" /\ page' = NoPage /\ sent' = <<>>
      /\ cursor' = cursor /\ got' = got /\ UNCHANGED bucket
      /\ \/ cursor.mode = "first" /\ owed' = {} /\ moved' = {}
         \/ cursor.mode # "first" /\ owed' = owed /\ moved' = moved
  BY DEF Fail, history
<1>2. /\ page'.mode = "first" /\ page'.last = 0 /\ page'.times = Never /\ page' \in Page
      /\ \A k \in Keys : page'.times[k] = 0
  BY <1>1 DEF NoPage, Never, Page, Modes
<1>3. Len(sent') = 0 /\ 1..0 = {} /\ sent' \in Seq(Sent)
  BY <1>1
<1>4. Mode' = cursor.mode /\ data' = data /\ index' = index /\ \A k : Live(k)' = Live(k)
  BY <1>1, <1>2 DEF Mode, bucket, Live
<1>5. TypeOK'
  <2>1. owed' \subseteq Matching /\ moved' \subseteq Keys
    BY <1>1 DEF ListInv, TypeOK
  <2>. QED BY <1>1, <1>2, <1>3, <2>1, BucketFrame DEF ListInv, TypeOK
<1>6. PlaceInv' /\ OrderInv'
  BY <1>1, <1>2, <1>3, <1>4 DEF ListInv, PlaceInv, OrderInv
<1>7. CASE cursor.mode = "first"
  BY <1>1, <1>4, <1>5, <1>6, <1>7, BucketFrame DEF ListInv, TwiceInv, OwedInv, Consumer
<1>8. CASE cursor.mode # "first"
  <2>1. Mode = cursor.mode /\ Mode' = Mode /\ Consumer' = Consumer /\ owed' = owed /\ moved' = moved
    BY <1>1, <1>4, <1>8 DEF ListInv, PlaceInv, Mode, Consumer
  <2>2. \A k : Rec(k)' = Rec(k)
    BY <1>4, <2>1 DEF Rec
  <2>3. TwiceInv'
    <3>1. ASSUME NEW k \in Keys, Consumer, k \notin moved PROVE got[k] <= 1 /\ BehindKey(k)'
      <4>1. got[k] <= 1 /\ BehindKey(k)
        BY <1>1, <3>1 DEF ListInv, TwiceInv
      <4>. QED BY <1>1, <1>2, <1>3, <2>2, <4>1 DEF BehindKey
    <3>2. ASSUME NEW k \in Keys, Mode = "s" PROVE got[k] <= 1 /\ BehindSubject(k)'
      <4>1. got[k] <= 1 /\ BehindSubject(k)
        BY <1>1, <3>2 DEF ListInv, TwiceInv
      <4>. QED BY <1>1, <1>2, <4>1 DEF BehindSubject
    <3>. QED BY <1>1, <2>1, <3>1, <3>2 DEF TwiceInv
  <2>4. OwedInv'
    <3>. SUFFICES ASSUME NEW k \in owed
                  PROVE  /\ Live(k) /\ got[k] = 0 /\ (Mode # "d" => index[k] # 0)
                         /\ Consumer => AheadKey(k)'
                         /\ Mode = "s" => AheadSubject(k)'
      BY <1>1, <1>4, <2>1 DEF OwedInv
    <3>1. /\ Live(k) /\ got[k] = 0 /\ (Mode # "d" => index[k] # 0)
          /\ Consumer => AheadKey(k)
          /\ Mode = "s" => AheadSubject(k)
      BY DEF ListInv, OwedInv
    <3>2. Consumer => AheadKey(k)'
      BY <1>1, <1>3, <2>2, <3>1 DEF AheadKey
    <3>3. Mode = "s" => AheadSubject(k)'
      BY <1>1, <3>1 DEF AheadSubject
    <3>. QED BY <3>1, <3>2, <3>3
  <2>. QED BY <1>1, <1>5, <1>6, <2>3, <2>4, BucketFrame DEF ListInv
<1>. QED BY <1>7, <1>8

-----------------------------------------------------------------------------
(* The theorems.                                                           *)

LEMMA NextKeeps ==
  ASSUME ListInv, [Next]_vars
  PROVE  ListInv'
<1>1. CASE Write
  <2>1. TypeOK' /\ StoreInv' /\ WriteChange
    BY <1>1, WriteTyped, WriteKeepsStore, WriteIsChange DEF ListInv
  <2>2. PlaceInv' /\ OrderInv' /\ TwiceInv' /\ OwedInv'
    BY <2>1, ChangeKeeps DEF ListInv
  <2>. QED BY <2>1, <2>2 DEF ListInv
<1>2. CASE Call
  BY <1>2, SubjectStepsKeep, OpenKeeps, DeliverKeeps, ReadKeeps, StallKeeps, FetchKeeps DEF Call
<1>3. CASE Fail
  BY <1>3, FailKeeps
<1>4. CASE UNCHANGED vars
  <2>1. /\ seq' = seq /\ data' = data /\ index' = index /\ dead' = dead /\ pc' = pc /\ cursor' = cursor
        /\ page' = page /\ sent' = sent /\ got' = got /\ owed' = owed /\ moved' = moved
    BY <1>4 DEF vars, bucket, call, history
  <2>2. /\ Mode' = Mode /\ Position' = Position /\ Consumer' = Consumer
        /\ \A k : Rec(k)' = Rec(k) /\ Live(k)' = Live(k)
        /\ \A i, k : Captures(i, k)' = Captures(i, k)
    BY <2>1 DEF Mode, Position, Consumer, Rec, Live, Captures
  <2>3. TypeOK' /\ StoreInv' /\ PlaceInv' /\ OrderInv'
    BY <2>1, <2>2 DEF ListInv, TypeOK, StoreInv, PlaceInv, OrderInv
  <2>4. TwiceInv' /\ OwedInv'
    BY <2>1, <2>2
       DEF ListInv, TwiceInv, OwedInv, BehindKey, BehindSubject, AheadKey, AheadSubject
  <2>. QED BY <2>3, <2>4 DEF ListInv
<1>. QED BY <1>1, <1>2, <1>3, <1>4 DEF Next

\* The invariant of list_page, its callers and the writers beside it.
THEOREM ListInvariance == Spec => []ListInv
  BY InitInv, NextKeeps, PTL DEF Spec

\* Every page that hands over a cursor (KvPage.next of list_page) has moved past
\* the one it was given, whatever it read and however it ended: a pass cannot
\* stand still or go in circles.
THEOREM CursorsAdvance == Spec => CursorAdvances
<1>1. ASSUME ListInv, [Next]_vars
      PROVE  [Fetch /\ pc' = "call" => cursor'.after > cursor.after]_vars
  <2>. SUFFICES ASSUME Fetch, pc' = "call" PROVE cursor'.after > cursor.after
    OBVIOUS
  <2>1. pc = "fetch" /\ page.more /\ cursor'.after = page.last
    BY DEF Fetch, NextCursor
  <2>2. page.last > cursor.after
    BY <1>1, <2>1 DEF ListInv, OrderInv
  <2>. QED BY <2>1, <2>2
<1>. QED BY <1>1, ListInvariance, PTL DEF Spec, CursorAdvances

\* list_page: "a key that is not rewritten during the pass sits at one sequence
\* and is read exactly once", here at most once, for any number of keys, pages,
\* writers, retries and records sent ahead.
THEOREM PassReturnsOnce == Spec => []NothingTwice
<1>1. ListInv => NothingTwice
  <2>. SUFFICES ASSUME ListInv, NEW k \in Keys, got[k] > 1 PROVE Mode \in {"d", "i"} /\ k \in moved
    BY DEF NothingTwice
  <2>0. got[k] \in Nat /\ page.mode \in Modes /\ cursor.mode \in Modes
    BY TypeFacts DEF ListInv
  <2>1. Mode # "first"
    <3>. SUFFICES ASSUME Mode = "first" PROVE FALSE
      OBVIOUS
    <3>1. page.mode = "first" /\ cursor.mode = "first"
      BY DEF Mode
    <3>2. got[k] = 0
      BY <3>1 DEF ListInv, PlaceInv, Never
    <3>. QED BY <3>2
  <2>2. Mode # "s" /\ (Consumer => k \in moved)
    BY <2>0 DEF ListInv, TwiceInv
  <2>. QED BY <2>0, <2>1, <2>2 DEF Consumer, Mode, Modes
<1>. QED BY <1>1, ListInvariance, PTL

\* A pass that has ended owes nothing: every key under the prefix that was live
\* (and, where list_page reads the index, indexed) from the first page to the
\* last was returned.
THEOREM PassMissesNothing == Spec => []NothingMissed
<1>1. ListInv => NothingMissed
  BY DEF ListInv, OwedInv, NothingMissed
<1>. QED BY <1>1, ListInvariance, PTL
=============================================================================
