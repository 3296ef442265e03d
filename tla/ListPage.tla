------------------------------ MODULE ListPage ------------------------------
(***************************************************************************)
(* A listing of the keys under a prefix, page by page (list_page of        *)
(* state/kv.rs), while others write, delete and sweep.  A page reads       *)
(*   "s"  the stream's list of index subjects, in key order,               *)
(*   "i"  index records through a consumer, in stream order, or            *)
(*   "d"  every record through a consumer, in stream order;                *)
(* the first page decides which and the cursor keeps it.                   *)
(*                                                                         *)
(* The bucket is external: a stream that keeps the last record of each     *)
(* subject, whose consumer sends records ahead of the reader, each with    *)
(* whether more are pending at that moment.  Keys are numbers, their order *)
(* is the byte order.  KvStore models a write and a sweep of one key; here *)
(* they are the records they store and remove.                             *)
(***************************************************************************)
EXTENDS Naturals, Sequences, FiniteSets

CONSTANTS
  Keys,         \* keys of the bucket
  Matching,     \* those under the listing's prefix
  Filtered,     \* those whose index subjects the server's filter lets through:
                \* it cuts the prefix to whole tokens
  Limits,       \* page sizes the host asks for
  SubjectMaxes, \* values of SUBJECT_LISTING_MAX, around the number of keys
  Ahead,        \* bound: records sent and not read yet
  MaxSeq        \* bound: the stream's last sequence

ASSUME ListAssumption ==
  /\ Keys \subseteq Nat \ {0} /\ IsFiniteSet(Keys)
  /\ Matching \subseteq Filtered /\ Filtered \subseteq Keys
  /\ Limits \subseteq Nat \ {0} /\ SubjectMaxes \subseteq Nat /\ Ahead \in Nat \ {0}
  /\ MaxSeq \in Nat /\ 2 * Cardinality(Keys) <= MaxSeq

VARIABLES
  seq,       \* last sequence of the stream
  data,      \* data record of each key
  index,     \* sequence of its index record; 0: none
  dead,      \* what a sweep has done about a dead record of the key
  pc,        \* the caller of list_page and the page it waits for
  cursor,    \* the cursor it passes
  page,      \* locals of the call
  sent,      \* records the consumer has sent and the call has not read
  got,       \* how often the pass has returned each key, up to twice
  owed,      \* history: keys to return, live (and, in a pass over the index,
             \* indexed) since the first page began to read
  moved      \* history: keys whose record, of those the pass reads, was stored
             \* since

bucket == <<seq, data, index, dead>>
history == <<owed, moved>>
call == <<pc, cursor, page, sent, got>>
vars == <<bucket, call, history>>

Modes == {"first", "s", "i", "d"}
NoData == [seq |-> 0, op |-> "none"]
\* A put is live until it lapses or a delete marker replaces it.
Live(k) == data[k].op = "put"

-----------------------------------------------------------------------------
(* Writers and the sweep.                                                  *)

\* How the pass reads, once a page has decided.
Mode == IF page.mode = "first" THEN cursor.mode ELSE page.mode

Store == seq < MaxSeq /\ seq' = seq + 1
\* A record of key k was stored that passes in this mode read.
Moves(k, mode) == moved' = IF Mode = mode THEN moved \cup {k} ELSE moved

Put(k) ==
  /\ Store /\ data' = [data EXCEPT ![k] = [seq |-> seq + 1, op |-> "put"]]
  /\ Moves(k, "d")
  /\ UNCHANGED <<index, dead, call, owed>>

\* Create-only, behind a put that created the key, a backfill or a sweep.
Index(k) ==
  /\ Live(k) /\ index[k] = 0 /\ Store /\ index' = [index EXCEPT ![k] = seq + 1]
  /\ Moves(k, "i")
  /\ UNCHANGED <<data, dead, call, owed>>

Delete(k) ==
  /\ Live(k) /\ Store /\ data' = [data EXCEPT ![k] = [seq |-> seq + 1, op |-> "del"]]
  /\ owed' = owed \ {k} /\ Moves(k, "d")
  /\ UNCHANGED <<index, dead, call>>

Lapse(k) ==
  /\ Live(k) /\ data' = [data EXCEPT ![k].op = "lapsed"] /\ owed' = owed \ {k}
  /\ UNCHANGED <<seq, index, dead, call, moved>>

\* The sweep has read a dead record: it removes the key's index record, then
\* the record it read.  What was put meanwhile is indexed again (Index).
SweepReads(k) ==
  /\ data[k].op \in {"lapsed", "del"} /\ dead[k].step = "none"
  /\ dead' = [dead EXCEPT ![k] = [step |-> "read", seq |-> data[k].seq]]
  /\ UNCHANGED <<seq, data, index, call, history>>
SweepUnindexes(k) ==
  /\ dead[k].step = "read" /\ dead' = [dead EXCEPT ![k].step = "unindexed"]
  /\ index' = [index EXCEPT ![k] = 0]
  /\ owed' = (IF Mode = "d" THEN owed ELSE owed \ {k})
  /\ UNCHANGED <<seq, data, call, moved>>
SweepPurges(k) ==
  /\ dead[k].step = "unindexed" /\ dead' = [dead EXCEPT ![k] = [step |-> "none", seq |-> 0]]
  /\ data' = [data EXCEPT ![k] = IF @.seq <= dead[k].seq THEN NoData ELSE @]
  /\ UNCHANGED <<seq, index, call, history>>

-----------------------------------------------------------------------------
(* The first page: which way to read.                                      *)

First == [mode |-> "first", after |-> 0]
Never == [k \in Keys |-> 0]
NoPage == [mode |-> "first", times |-> Never, n |-> 0, last |-> 0, more |-> FALSE]

\* The pass begins: what it has to return.
Begins(mode) ==
  /\ owed' = (IF cursor.mode # "first" THEN owed
              ELSE {k \in Matching : Live(k) /\ (mode = "d" \/ index[k] # 0)})
  /\ UNCHANGED moved

\* index_ready: the index gate (IndexGate) sets and clears it at any time.
IndexReady == BOOLEAN

\* indexed_keys under the prefix.
Subjects == {k \in Matching : index[k] # 0}

\* subjects_page: the next keys after the cursor; their values are read next.
SubjectsPage(after, limit) ==
  LET rest == {k \in Subjects : k > after}
  IN \E keys \in SUBSET rest :
       /\ Cardinality(keys) <= limit /\ \A k \in keys, j \in rest \ keys : k < j
       /\ keys # rest => Cardinality(keys) = limit
       /\ \E last \in (IF keys = {} THEN {0} ELSE keys) :
            /\ \A k \in keys : k <= last
            /\ page' = [mode |-> "s", times |-> [k \in Keys |-> IF k \in keys THEN 1 ELSE 0],
                        n |-> 0, last |-> last, more |-> keys # rest]
       /\ pc' = "fetch" /\ Begins("s")

\* Without a ready index, or with too many index subjects, a consumer.
FirstPage ==
  /\ pc = "call" /\ cursor.mode = "first"
  /\ \E ready \in IndexReady, max \in SubjectMaxes :
       \/ /\ ready /\ Cardinality(Subjects) <= max
          /\ \E limit \in Limits : SubjectsPage(0, limit)
       \/ /\ ~(ready /\ Cardinality(Subjects) <= max)
          /\ pc' = "open" /\ UNCHANGED <<page, history>>
  /\ UNCHANGED <<bucket, cursor, sent, got>>

NextSubjects ==
  /\ pc = "call" /\ cursor.mode = "s"
  /\ \E limit \in Limits : SubjectsPage(cursor.after, limit)
  /\ UNCHANGED <<bucket, cursor, sent, got>>

-----------------------------------------------------------------------------
(* A page through a consumer.                                              *)

\* The records after a sequence, of index subjects under the filter or all.
RecordsAfter(mode, n) ==
  {[key |-> k, seq |-> index[k], put |-> mode = "i"] :
     k \in {j \in (IF mode = "i" THEN Filtered ELSE Keys) : index[j] > n}}
  \cup {[key |-> k, seq |-> data[k].seq, put |-> data[k].op \in {"put", "lapsed"}] :
          k \in {j \in Keys : mode = "d" /\ data[j].seq > n}}

\* Faulty variant: the pass switches with index_ready.
OpenConsumerAnyMode ==
  /\ \E ready \in IndexReady :
       LET mode == IF ready THEN "i" ELSE "d"
       IN /\ pc = "open" \/ (pc = "call" /\ cursor.mode \in {"i", "d"})
          /\ Begins(mode)
          /\ page' = [mode |-> mode, times |-> Never, n |-> 0,
                      last |-> 0, more |-> TRUE]
          /\ pc' = (IF RecordsAfter(mode, cursor.after) = {} THEN "done" ELSE "read")
  /\ sent' = <<>>
  /\ UNCHANGED <<bucket, cursor, got>>
\* index_ready is read anew when the subject list was too long.
OpenConsumer ==
  /\ \E ready \in IndexReady :
       LET mode == CASE cursor.mode # "first" -> cursor.mode
                     [] cursor.mode = "first" /\ ready -> "i"
                     [] OTHER -> "d"
       IN /\ pc = "open" \/ (pc = "call" /\ cursor.mode \in {"i", "d"})
          /\ Begins(mode)
          /\ page' = [mode |-> mode, times |-> Never, n |-> 0,
                      last |-> 0, more |-> TRUE]
          /\ pc' = (IF RecordsAfter(mode, cursor.after) = {} THEN "done" ELSE "read")
  /\ sent' = <<>>
  /\ UNCHANGED <<bucket, cursor, got>>

\* Where the consumer stands.
Position ==
  CASE sent # <<>> -> sent[Len(sent)].seq
    [] sent = <<>> /\ page.last # 0 -> page.last
    [] OTHER -> cursor.after

Deliver ==
  /\ pc = "read" /\ Len(sent) < Ahead
  /\ LET rest == RecordsAfter(page.mode, Position)
     IN \E r \in rest :
          /\ \A q \in rest : r.seq <= q.seq
          /\ sent' = Append(sent, [key |-> r.key, seq |-> r.seq, put |-> r.put,
                                   more |-> rest # {r}])
  /\ UNCHANGED <<bucket, pc, cursor, page, got, history>>

\* Of index records, those of keys under the prefix count; of all records,
\* their data records that are no marker.  The cursor moves past every record.
Counts(r) == r.put /\ r.key \in Matching

\* The limit is any that has not ended the page yet.
ReadRecord ==
  /\ pc = "read" /\ sent # <<>>
  /\ LET r == Head(sent)
         one == IF Counts(r) THEN 1 ELSE 0
     IN /\ page' = [mode |-> page.mode, times |-> [page.times EXCEPT ![r.key] = @ + one],
                    n |-> page.n + one, last |-> r.seq, more |-> r.more]
        /\ \E limit \in Limits :
             /\ limit > page.n
             /\ \/ r.more /\ page.n + one < limit /\ pc' = "read" /\ sent' = Tail(sent)
                \/ ~(r.more /\ page.n + one < limit) /\ pc' = "fetch" /\ sent' = <<>>
  /\ UNCHANGED <<bucket, cursor, got, history>>

\* No record for five seconds after some: the rest is for the next page.
Stall ==
  /\ pc = "read" /\ page.last # 0 /\ pc' = "fetch" /\ sent' = <<>>
  /\ UNCHANGED <<bucket, cursor, page, got, history>>

-----------------------------------------------------------------------------
(* The end of a page: live_entries, and the cursor of the next one.        *)

UpToTwo(n) == IF n > 2 THEN 2 ELSE n

\* Faulty variant: one past the last sequence, for a consumer that adds one.
NextCursorPast == [mode |-> page.mode, after |-> page.last + 1]
\* Faulty variant: the cursor moves only with a key to return.
NextCursorMatched ==
  [mode |-> page.mode, after |-> IF page.times = Never THEN cursor.after ELSE page.last]
NextCursor == [mode |-> page.mode, after |-> page.last]

Fetch ==
  /\ pc = "fetch"
  /\ got' = [k \in Keys |-> IF Live(k) THEN UpToTwo(got[k] + page.times[k]) ELSE got[k]]
  /\ owed' = {k \in owed : got'[k] = 0}
  /\ \/ page.more /\ cursor' = NextCursor /\ pc' = "call"
     \/ ~page.more /\ pc' = "done" /\ UNCHANGED cursor
  /\ page' = [NoPage EXCEPT !.mode = page.mode]
  /\ UNCHANGED <<bucket, sent, moved>>

\* A store call fails, or no record arrives at all: the caller passes the same
\* cursor again, and without a cursor begins anew.
Fail ==
  /\ pc \in {"open", "read", "fetch"}
  /\ pc' = "call" /\ page' = NoPage /\ sent' = <<>>
  /\ \/ cursor.mode = "first" /\ owed' = {} /\ moved' = {}
     \/ cursor.mode # "first" /\ UNCHANGED history
  /\ UNCHANGED <<bucket, cursor, got>>

-----------------------------------------------------------------------------
\* The keys were put one after the other.
Init ==
  /\ seq = 2 * Cardinality(Keys)
  /\ \E place \in [Keys -> 1..Cardinality(Keys)] :
       /\ \A j, k \in Keys : j # k => place[j] # place[k]
       /\ data = [k \in Keys |-> [seq |-> 2 * place[k] - 1, op |-> "put"]]
       /\ index = [k \in Keys |-> 2 * place[k]]
  /\ dead = [k \in Keys |-> [step |-> "none", seq |-> 0]]
  /\ pc = "call" /\ cursor = First /\ page = NoPage /\ sent = <<>>
  /\ got = Never
  /\ owed = {} /\ moved = {}

\* Bound: nobody writes after the pass.
Write ==
  /\ pc # "done"
  /\ \E k \in Keys : \/ Put(k) \/ Index(k) \/ Delete(k) \/ Lapse(k)
                     \/ SweepReads(k) \/ SweepUnindexes(k) \/ SweepPurges(k)
Call ==
  \/ FirstPage \/ NextSubjects \/ OpenConsumer \/ Deliver \/ ReadRecord \/ Stall \/ Fetch

Next == Write \/ Call \/ Fail

Spec == Init /\ [][Next]_vars

-----------------------------------------------------------------------------
(* Properties.                                                             *)

Page == [mode : Modes, times : [Keys -> Nat], n : Nat, last : Nat, more : BOOLEAN]
Sent == [key : Keys, seq : Nat, put : BOOLEAN, more : BOOLEAN]
TypeOK ==
  /\ seq \in 0..MaxSeq
  /\ data \in [Keys -> [seq : 0..seq, op : {"none", "put", "lapsed", "del"}]]
  /\ index \in [Keys -> 0..seq]
  /\ dead \in [Keys -> [step : {"none", "read", "unindexed"}, seq : 0..seq]]
  /\ pc \in {"call", "open", "read", "fetch", "done"}
  /\ cursor \in [mode : Modes, after : Nat] /\ page \in Page /\ sent \in Seq(Sent)
  /\ got \in [Keys -> 0..2]
  /\ owed \subseteq Matching /\ moved \subseteq Keys

\* A pass returns every key under the prefix that was live all along, however
\* its record moved in the stream, what was purged between two pages and
\* where pages ended early; a pass over the index, every such key that was
\* indexed all along.
NothingMissed == pc = "done" => owed = {}

\* "a key that is not rewritten during the pass sits at one sequence and is
\* read exactly once": a key comes twice only when its data record (its index
\* record, in a pass over index records) was stored during the pass, and in a
\* pass over the subject list never.
NothingTwice == \A k \in Keys : got[k] > 1 => Mode \in {"d", "i"} /\ k \in moved

\* A page that ends early, or read nothing the caller asked for, still moves the
\* pass on: list_page never returns a cursor that is not past the one it was
\* given, the same cursor included.
CursorAdvances == [][Fetch /\ pc' = "call" => cursor'.after > cursor.after]_vars
=============================================================================
