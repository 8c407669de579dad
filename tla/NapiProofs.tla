------------------------------ MODULE NapiProofs -------------------------------
(***************************************************************************)
(* Proofs about NapiDriver, for any number of async work items, of threads *)
(* and of payloads, and every bound of the payload queue: the counters are *)
(* exact, payloads are conserved, completions are honest and a dispose     *)
(* that found the driver finished frees the Env.                           *)
(*                                                                         *)
(* Everything is counted the same way: Count(s, M) is how many elements of *)
(* the sequence s, the job channel, the payload queue or the stack of the  *)
(* JavaScript thread, belong to the set M.                                 *)
(***************************************************************************)
EXTENDS NapiDriver, SequenceTheorems, FunctionTheorems, FiniteSetTheorems, TLAPS

Marks(s, M) == {i \in DOMAIN s : s[i] \in M}
Count(s, M) == Cardinality(Marks(s, M))

(* Jobs of the channel, and the ones that complete item w.                 *)
Outcome == {"ok", "cancelled"}
Plain(op) == {<<op>>}
Job == {<<"wake">>, <<"tsfn">>, <<"abort">>, <<"release">>}
         \cup ({"done"} \X Works \X Outcome)
DoneJob(w, r) == {<<"done", w, r>>}

(* Frames of the JavaScript thread's stack.                                *)
NonEmpty == Seq(Payloads) \ {<<>>}
Frame ==
  {<<"drain">>, <<"tsfns">>, <<"job">>, <<"finish">>, <<"drop">>,
   <<"closesender">>, <<"free">>}
    \cup ({"batch"} \X NonEmpty) \cup ({"call", "teardown"} \X Payloads)
    \cup ({"complete"} \X Works) \cup ({"acquire"} \X Threads)
CompleteFrame(w) == {<<"complete", w>>}

Driver ==
  [tx : BOOLEAN, jobs : Seq(Job), pending : Nat, idle : Nat, inflight : Nat,
   running : BOOLEAN, finished : BOOLEAN]

Function ==
  [state : {"open", "closing", "closed"}, max : Nat, items : Seq(Payloads),
   closed : BOOLEAN, refs : Int, idle : {0, 1}, aborted : BOOLEAN,
   finish : BOOLEAN, finalized : Nat, reg : BOOLEAN, mine : BOOLEAN, reref : Nat]

Item ==
  [st : {"created", "queued", "running", "cancelled"},
   task : {"none", "spawned", "executing", "ended"},
   posted : BOOLEAN, out : {"none"} \cup Outcome, done : Nat]

Thread ==
  {x \in [pc : {"idle", "admit", "drop", "postabort", "postrelease"},
          item : Payloads \cup {"none"}, blocking : BOOLEAN, ref : BOOLEAN] :
     x.pc = "admit" => x.item \in Payloads}

LoopStates == {"spawned", "top", "try", "recv", "drain", "exit", "last", "none"}
Owners == {"caller", "queue", "delivered", "torn"}
EnvStates == {"active", "beginning", "finished", "failed"}

Types ==
  /\ d \in Driver /\ f \in Function /\ work \in [Works -> Item]
  /\ js \in Seq(Frame) /\ loop \in LoopStates /\ tail \in BOOLEAN
  /\ th \in [Threads -> Thread] /\ pay \in [Payloads -> Owners]
  /\ env \in [state : EnvStates, roots : BOOLEAN]

(* An item x of which the channel holds a completion "ok" a times and one  *)
(* "cancelled" b times, and the stack the callback c times.  There is one  *)
(* completion: the task, then a job, then a frame; and what is reported of *)
(* the item is what happened to it.                                        *)
ItemFits(x, a, b, c) ==
  /\ a + b + c <= 1
  /\ a + b > 0 => x.task = "ended" /\ ~x.posted
  /\ c > 0 => x.task = "ended" /\ x.posted
  /\ x.posted => x.task = "ended"
  /\ x.out # "none" => x.posted
  /\ x.done = IF x.posted THEN 1 ELSE 0
  /\ x.st = "created" <=> x.task = "none"
  /\ x.task = "spawned" => x.st \in {"queued", "cancelled"}
  /\ x.task = "executing" => x.st = "running"
  /\ x.st = "queued" => x.task = "spawned"
  /\ a > 0 \/ x.out = "ok" => x.st = "running"
  /\ b > 0 \/ x.out = "cancelled" => x.st = "cancelled"

(* It keeps the loop.                                                      *)
Keeps(x, a, b, c) == x.task \in {"spawned", "executing"} \/ a + b + c > 0

Fits(wk, q, s, w) ==
  ItemFits(wk[w], Count(q, DoneJob(w, "ok")), Count(q, DoneJob(w, "cancelled")),
           Count(s, CompleteFrame(w)))
OwedIn(wk, q, s, w) ==
  Keeps(wk[w], Count(q, DoneJob(w, "ok")), Count(q, DoneJob(w, "cancelled")),
        Count(s, CompleteFrame(w)))
OwedSet(wk, q, s) == {w \in Works : OwedIn(wk, q, s, w)}

(* The counters of the driver x, with the stack s and an idle reference or *)
(* none.                                                                   *)
Counted(x, wk, s, idle) ==
  /\ x.pending = Len(x.jobs) + Count(s, Plain("job"))
  /\ x.inflight = Cardinality(OwedSet(wk, x.jobs, s))
  /\ x.idle = idle
  /\ \A w \in Works : Fits(wk, x.jobs, s, w)

(* Once the roots are gone nothing is owed and nothing can be queued.      *)
RootsGone == env.roots => d.inflight = 0 /\ env.state # "active"

(* The sender is closed by a dispose.                                      *)
Closes == Count(js, Plain("closesender")) > 0 => env.state # "active"

CInv == Types /\ Counted(d, work, js, f.idle) /\ RootsGone

KInv == CInv /\ Closes

------------------------------------------------------------------------------
(* The payloads.                                                           *)

Just(p) == {p}

(* Batches with payload p, and batches with a payload twice.               *)
BatchWith(p) == {x \in {"batch"} \X NonEmpty : Count(x[2], Just(p)) > 0}
Twice == {x \in {"batch"} \X NonEmpty : \E p \in Payloads : Count(x[2], Just(p)) > 1}

(* A payload is owned once.                                                *)
Owned(items, s, pp) ==
  /\ \A p \in Payloads :
       Count(items, Just(p)) + Count(s, BatchWith(p)) = IF pp[p] = "queue" THEN 1 ELSE 0
  /\ Count(s, Twice) = 0

(* A thread that is about to enter the queue has its payload for itself.   *)
Carried(tt, pp) ==
  /\ \A t \in Threads : tt[t].pc = "admit" => pp[tt[t].item] = "caller"
  /\ \A t, u \in Threads :
       tt[t].pc = "admit" /\ tt[u].pc = "admit" /\ tt[t].item = tt[u].item => t = u

(* The function finishes once, and takes no payload afterwards.            *)
Finishing(ff, s) ==
  /\ ff.finish => ff.items = <<>> /\ ff.closed
  /\ Count(s, Plain("finish")) + ff.finalized = IF ff.finish THEN 1 ELSE 0
  /\ ff.state = "closed" => ff.finalized = 1
  /\ ~ff.reg => ff.finish
  /\ ff.finish /\ ff.reg => Count(s, Plain("finish")) = 1

Backed(q, items) == Len(items) <= Count(q, Plain("tsfn"))

PInv ==
  /\ Owned(f.items, js, pay) /\ Carried(th, pay) /\ Finishing(f, js)
  /\ Backed(d.jobs, f.items)

------------------------------------------------------------------------------
(* The dispose.                                                            *)

(* The loop that is running is somewhere; one that left found nothing to   *)
(* do; between its awaits it runs no callback but those of a job.          *)
LoopState ==
  /\ d.running <=> loop \notin {"none", "last"}
  /\ loop = "none" /\ ~tail => d.inflight = 0 /\ d.idle = 0 /\ d.finished
  /\ js # <<>> => loop \notin {"try", "exit", "last"}

Unwound == d.inflight = 0 /\ d.idle = 0 /\ loop = "none" /\ ~tail /\ ~d.tx

Disposing ==
  /\ env.state # "active" => f.finish
  /\ env.state # "active" /\ Count(js, Plain("closesender")) = 0 => ~d.tx
  /\ Count(js, Plain("free")) > 0 =>
       /\ env.state = "beginning" /\ d.finished /\ Unwound
       /\ \/ js = << <<"drain">>, <<"free">> >>
          \/ js = << <<"free">> >> /\ d.jobs = <<>>
  /\ env.state = "finished" => Unwound /\ d.jobs = <<>> /\ js = <<>> /\ ~f.reg
  /\ env.state # "failed"

DInv == LoopState /\ Disposing

IInv == KInv /\ PInv /\ DInv

------------------------------------------------------------------------------
(* Counting.                                                               *)

(* A count is a number, zero when no element belongs to M.                 *)
LEMMA CountType ==
  ASSUME NEW S, NEW s \in Seq(S), NEW M
  PROVE  /\ IsFiniteSet(Marks(s, M)) /\ Count(s, M) \in Nat
         /\ Count(s, M) = 0 <=> \A i \in 1..Len(s) : s[i] \notin M
         /\ Count(s, M) <= Len(s)
<1>1. Len(s) \in Nat /\ DOMAIN s = 1..Len(s)
  BY LenProperties
<1>2. IsFiniteSet(1..Len(s)) /\ Cardinality(1..Len(s)) = Len(s)
  BY <1>1, FS_Interval
<1>3. Marks(s, M) \in SUBSET (1..Len(s))
  BY <1>1 DEF Marks
<1>4. IsFiniteSet(Marks(s, M)) /\ Cardinality(Marks(s, M)) <= Len(s)
  BY <1>2, <1>3, FS_Subset
<1>5. Cardinality(Marks(s, M)) \in Nat
  BY <1>4, FS_CardinalityType
<1>6. Cardinality(Marks(s, M)) = 0 <=> Marks(s, M) = {}
  BY <1>4, FS_EmptySet
<1>7. Marks(s, M) = {} <=> \A i \in 1..Len(s) : s[i] \notin M
  BY <1>1 DEF Marks
<1> QED
  BY <1>4, <1>5, <1>6, <1>7 DEF Count

(* The empty sequence and the sequences of one and of two elements.        *)
LEMMA CountEmpty ==
  ASSUME NEW M
  PROVE  Count(<<>>, M) = 0
<1>1. Marks(<<>>, M) = {}
  BY DEF Marks
<1> QED
  BY <1>1, FS_EmptySet DEF Count

(* A sequence of one element counts it, or not.                            *)
LEMMA CountOne ==
  ASSUME NEW M, NEW x
  PROVE  Count(<<x>>, M) = IF x \in M THEN 1 ELSE 0
<1>1. Marks(<<x>>, M) = IF x \in M THEN {1} ELSE {}
  BY DEF Marks
<1> QED
  BY <1>1, FS_EmptySet, FS_Singleton DEF Count

(* The count of a concatenation is the sum of the counts.                  *)
LEMMA CountConcat ==
  ASSUME NEW S, NEW s \in Seq(S), NEW t \in Seq(S), NEW M
  PROVE  Count(s \o t, M) = Count(s, M) + Count(t, M)
<1> DEFINE n == Len(s)
           A == Marks(s, M)
           B == Marks(t, M)
           C == {i \in (n + 1)..(n + Len(t)) : t[i - n] \in M}
           g == [i \in B |-> i + n]
<1>1. n \in Nat /\ Len(t) \in Nat /\ DOMAIN s = 1..n /\ DOMAIN t = 1..Len(t)
  BY LenProperties
<1>2. /\ s \o t \in Seq(S) /\ Len(s \o t) = n + Len(t)
      /\ \A i \in 1..(n + Len(t)) : (s \o t)[i] = IF i <= n THEN s[i] ELSE t[i - n]
  BY ConcatProperties
<1>3. DOMAIN (s \o t) = 1..(n + Len(t))
  BY <1>2, LenProperties
<1>4. Marks(s \o t, M) = A \cup C
  BY <1>1, <1>2, <1>3 DEF Marks
<1>5. A \cap C = {}
  BY <1>1 DEF Marks
<1>6. g \in Bijection(B, C)
  <2>1. g \in [B -> C]
    BY <1>1 DEF Marks
  <2>2. \A i, j \in B : g[i] = g[j] => i = j
    BY <1>1 DEF Marks
  <2>3. ASSUME NEW c \in C PROVE \E i \in B : g[i] = c
    <3>1. c - n \in B /\ g[c - n] = c
      BY <1>1 DEF Marks
    <3> QED
      BY <3>1
  <2> QED
    BY <2>1, <2>2, <2>3, Fun_IsBij
<1>7. IsFiniteSet(A) /\ IsFiniteSet(B) /\ Count(s, M) \in Nat /\ Count(t, M) \in Nat
  BY CountType
<1>8. ExistsBijection(B, C)
  BY <1>6 DEF ExistsBijection
<1>9. IsFiniteSet(C) /\ Cardinality(C) = Cardinality(B)
  BY <1>7, <1>8, FS_Bijection
<1>10. Cardinality(A \cup C) = Cardinality(A) + Cardinality(C) - Cardinality(A \cap C)
  BY <1>7, <1>9, FS_Union
<1>11. Cardinality(A \cap C) = 0
  BY <1>5, FS_EmptySet
<1>12. Cardinality(A) = Count(s, M) /\ Cardinality(B) = Count(t, M)
         /\ Count(s \o t, M) = Cardinality(A \cup C)
  BY <1>4 DEF Count
<1> QED
  BY <1>7, <1>9, <1>10, <1>11, <1>12

(* One more element at the end, or one less at the front.                  *)
LEMMA CountAppend ==
  ASSUME NEW S, NEW s \in Seq(S), NEW x \in S, NEW M
  PROVE  Count(Append(s, x), M) = Count(s, M) + (IF x \in M THEN 1 ELSE 0)
<1>1. Append(s, x) = s \o <<x>>
  BY AppendIsConcat
<1>2. <<x>> \in Seq(S)
  OBVIOUS
<1>3. Count(s \o <<x>>, M) = Count(s, M) + Count(<<x>>, M)
  BY <1>2, CountConcat
<1>4. Count(<<x>>, M) = IF x \in M THEN 1 ELSE 0
  BY CountOne
<1> QED
  BY <1>1, <1>3, <1>4

(* One element less at the front.                                          *)
LEMMA CountTail ==
  ASSUME NEW S, NEW s \in Seq(S), s # <<>>, NEW M
  PROVE  Count(s, M) = Count(Tail(s), M) + (IF Head(s) \in M THEN 1 ELSE 0)
<1>1. Head(s) \in S /\ Tail(s) \in Seq(S)
  BY HeadTailProperties
<1>2. <<Head(s)>> \in Seq(S)
  BY <1>1
<1>3. s = <<Head(s)>> \o Tail(s)
  OBVIOUS
<1>4. Count(s, M) = Count(<<Head(s)>>, M) + Count(Tail(s), M)
  BY <1>1, <1>2, <1>3, CountConcat
<1>5. Count(Tail(s), M) \in Nat
  BY <1>1, CountType
<1> QED
  BY <1>4, <1>5, CountOne

------------------------------------------------------------------------------
(* What the operators of the model do to the driver, the function and the  *)
(* stack.                                                                  *)

(* The driver y has at most the job j more than x.                         *)
Adds(x, y, j) ==
  /\ y \in Driver
  /\ y.tx = x.tx /\ y.idle = x.idle /\ y.inflight = x.inflight
  /\ y.running = x.running /\ y.finished = x.finished
  /\ y.pending + Len(x.jobs) = x.pending + Len(y.jobs)
  /\ ~x.tx => y.jobs = x.jobs
  /\ \A M : Count(y.jobs, M) >= Count(x.jobs, M)
  /\ \A M : j \notin M => Count(y.jobs, M) = Count(x.jobs, M)

(* The function z is y but for the way it is closing.                      *)
SameFunction(y, z) ==
  /\ z \in Function
  /\ z.items = y.items /\ z.finish = y.finish /\ z.finalized = y.finalized
  /\ z.reg = y.reg /\ z.idle = y.idle /\ (y.closed => z.closed)
  /\ z.state = "closed" <=> y.state = "closed"

(* The frames of the stacks s and t are the same, but for those of the     *)
(* kinds K and those no property counts.                                   *)
AgreeBut(s, t, K) ==
  /\ t \in Seq(Frame)
  /\ "job" \in K \/ Count(t, Plain("job")) = Count(s, Plain("job"))
  /\ "finish" \in K \/ Count(t, Plain("finish")) = Count(s, Plain("finish"))
  /\ "closesender" \in K \/ Count(t, Plain("closesender")) = Count(s, Plain("closesender"))
  /\ "free" \in K \/ Count(t, Plain("free")) = Count(s, Plain("free"))
  /\ "complete" \in K \/ \A w \in Works : Count(t, CompleteFrame(w)) = Count(s, CompleteFrame(w))
  /\ "batch" \in K \/ /\ \A p \in Payloads : Count(t, BatchWith(p)) = Count(s, BatchWith(p))
                      /\ Count(t, Twice) = Count(s, Twice)

(* Which frames a set of marks holds.                                      *)
LEMMA MarkKinds ==
  ASSUME NEW x \in Frame
  PROVE  /\ \A op \in {"job", "finish", "closesender", "free", "drain"} :
              x[1] = op <=> x \in Plain(op)
         /\ \A w \in Works : x \in CompleteFrame(w) <=> x[1] = "complete" /\ x[2] = w
         /\ \A p : x \in BatchWith(p) => x[1] = "batch"
         /\ x \in Twice => x[1] = "batch"
         /\ x[1] = "batch" => x = <<"batch", x[2]>> /\ x[2] \in NonEmpty
         /\ x[1] = "complete" => x[2] \in Works /\ x = <<"complete", x[2]>>
         /\ x[1] = "acquire" => x[2] \in Threads
<1>1. \/ x \in {<<"drain">>, <<"tsfns">>, <<"job">>, <<"finish">>, <<"drop">>,
                <<"closesender">>, <<"free">>}
      \/ x \in {"batch"} \X NonEmpty
      \/ x \in {"call", "teardown"} \X Payloads
      \/ x \in {"complete"} \X Works
      \/ x \in {"acquire"} \X Threads
  BY DEF Frame
<1>2. CASE x \in {<<"drain">>, <<"tsfns">>, <<"job">>, <<"finish">>, <<"drop">>,
                  <<"closesender">>, <<"free">>}
  BY <1>2 DEF Plain, CompleteFrame, BatchWith, Twice
<1>3. CASE x \in {"batch"} \X NonEmpty
  BY <1>3 DEF Plain, CompleteFrame, BatchWith, Twice
<1>4. CASE x \in {"call", "teardown"} \X Payloads
  BY <1>4 DEF Plain, CompleteFrame, BatchWith, Twice
<1>5. CASE x \in {"complete"} \X Works
  BY <1>5 DEF Plain, CompleteFrame, BatchWith, Twice
<1>6. CASE x \in {"acquire"} \X Threads
  BY <1>6 DEF Plain, CompleteFrame, BatchWith, Twice
<1> QED
  BY <1>1, <1>2, <1>3, <1>4, <1>5, <1>6

(* A frame is pushed or popped.                                            *)
LEMMA PopAgrees ==
  ASSUME NEW s \in Seq(Frame), s # <<>>
  PROVE  AgreeBut(s, Tail(s), {Head(s)[1]})
<1> DEFINE x == Head(s)
<1>1. x \in Frame /\ Tail(s) \in Seq(Frame)
  BY HeadTailProperties
<1>2. \A M : Count(s, M) = Count(Tail(s), M) + (IF x \in M THEN 1 ELSE 0)
  BY CountTail
<1>3. \A M : Count(Tail(s), M) \in Nat
  BY <1>1, CountType
<1>4. \A M : x \notin M => Count(Tail(s), M) = Count(s, M)
  BY <1>2, <1>3
<1> HIDE DEF x
<1> QED
  BY <1>1, <1>4, MarkKinds DEF AgreeBut, x

(* A frame that is pushed counts for its kind only.                        *)
LEMMA PushAgrees ==
  ASSUME NEW s \in Seq(Frame), NEW x \in Frame
  PROVE  AgreeBut(s, <<x>> \o s, {x[1]})
<1>1. <<x>> \in Seq(Frame)
  OBVIOUS
<1>2. <<x>> \o s \in Seq(Frame)
  BY <1>1, ConcatProperties
<1>3. \A M : Count(<<x>> \o s, M) = Count(<<x>>, M) + Count(s, M)
  BY <1>1, CountConcat
<1>4. \A M : Count(s, M) \in Nat
  BY CountType
<1>5. \A M : x \notin M => Count(<<x>> \o s, M) = Count(s, M)
  BY <1>3, <1>4, CountOne
<1> QED
  BY <1>2, <1>5, MarkKinds DEF AgreeBut

(* Agreement is transitive.                                                *)
LEMMA AgreeTwice ==
  ASSUME NEW s, NEW t, NEW u, NEW K, NEW L, AgreeBut(s, t, K), AgreeBut(t, u, L)
  PROVE  AgreeBut(s, u, K \cup L)
BY DEF AgreeBut

(* Stacks that agree but for K agree but for more.                         *)
LEMMA AgreeMore ==
  ASSUME NEW s, NEW t, NEW K, NEW L, AgreeBut(s, t, K), K \subseteq L
  PROVE  AgreeBut(s, t, L)
BY DEF AgreeBut

(* A stack agrees with itself.                                             *)
LEMMA AgreeSame ==
  ASSUME NEW s \in Seq(Frame), NEW K
  PROVE  AgreeBut(s, s, K)
BY DEF AgreeBut

(* A batch is at most one frame, of its kind.                              *)
LEMMA BatchFrames ==
  ASSUME NEW items \in Seq(Payloads), NEW s \in Seq(Frame)
  PROVE  /\ BatchOf(items) \in Seq(Frame)
         /\ AgreeBut(s, BatchOf(items) \o s, {"batch"})
<1>1. CASE items = <<>>
  <2>1. BatchOf(items) = <<>> /\ <<>> \in Seq(Frame)
    BY <1>1 DEF BatchOf
  <2>2. BatchOf(items) \o s = s
    BY <2>1, ConcatEmptySeq
  <2> QED
    BY <2>1, <2>2, AgreeSame
<1>2. CASE items # <<>>
  <2>1. BatchOf(items) = << <<"batch", items>> >>
    BY <1>2 DEF BatchOf
  <2>2. <<"batch", items>> \in Frame
    BY <1>2 DEF Frame, NonEmpty
  <2>3. << <<"batch", items>> >> \in Seq(Frame)
    BY <2>2
  <2>4. AgreeBut(s, << <<"batch", items>> >> \o s, {<<"batch", items>>[1]})
    BY <2>2, PushAgrees
  <2> QED
    BY <2>1, <2>3, <2>4
<1> QED
  BY <1>1, <1>2

(* Posting a job, and waking the loop.                                     *)
LEMMA PostAdds ==
  ASSUME NEW x \in Driver, NEW j \in Job
  PROVE  /\ Adds(x, Post(x, j), j)
         /\ \A M : Count(Post(x, j).jobs, M)
                     = Count(x.jobs, M) + (IF x.tx /\ j \in M THEN 1 ELSE 0)
<1> DEFINE y == Post(x, j)
<1>1. x.jobs \in Seq(Job) /\ x.pending \in Nat /\ x.tx \in BOOLEAN
  BY DEF Driver
<1>2. Len(x.jobs) \in Nat /\ \A M : Count(x.jobs, M) \in Nat
  BY <1>1, LenProperties, CountType
<1>3. CASE ~x.tx
  <2>1. y = x
    BY <1>3 DEF Post
  <2> QED
    BY <1>1, <1>2, <1>3, <2>1 DEF Adds
<1>4. CASE x.tx
  <2> DEFINE q == Append(x.jobs, j)
  <2>1. q \in Seq(Job) /\ Len(q) = Len(x.jobs) + 1
    BY <1>1, AppendProperties
  <2>2. \A M : Count(q, M) = Count(x.jobs, M) + (IF j \in M THEN 1 ELSE 0)
    BY <1>1, CountAppend
  <2> HIDE DEF q
  <2>3. y = [x EXCEPT !.pending = x.pending + 1, !.jobs = q]
    BY <1>4 DEF Post, q
  <2> HIDE DEF y
  <2>4. /\ y \in Driver /\ y.jobs = q /\ y.pending = x.pending + 1
        /\ y.tx = x.tx /\ y.idle = x.idle /\ y.inflight = x.inflight
        /\ y.running = x.running /\ y.finished = x.finished
    <3>1. x.pending + 1 \in Nat
      BY <1>1
    <3> QED
      BY <2>1, <2>3, <3>1 DEF Driver
  <2>5. \A M : Count(y.jobs, M) = Count(x.jobs, M) + (IF x.tx /\ j \in M THEN 1 ELSE 0)
    BY <1>4, <2>2, <2>4
  <2>6. /\ \A M : Count(y.jobs, M) >= Count(x.jobs, M)
        /\ \A M : j \notin M => Count(y.jobs, M) = Count(x.jobs, M)
    BY <1>2, <2>5
  <2>7. Adds(x, y, j)
    BY <1>1, <1>2, <1>4, <2>1, <2>4, <2>6 DEF Adds
  <2> QED
    BY <2>5, <2>7 DEF y
<1> QED
  BY <1>1, <1>3, <1>4

(* wake_if_quiescent posts a wake, or nothing.                             *)
LEMMA WakeAdds ==
  ASSUME NEW x \in Driver
  PROVE  Adds(x, WakeIfQuiescent(x), <<"wake">>)
<1>1. <<"wake">> \in Job
  BY DEF Job
<1>2. Adds(x, x, <<"wake">>)
  <2>1. x.jobs \in Seq(Job) /\ x.pending \in Nat
    BY DEF Driver
  <2>2. Len(x.jobs) \in Nat /\ \A M : Count(x.jobs, M) \in Nat
    BY <2>1, LenProperties, CountType
  <2> QED
    BY <2>1, <2>2 DEF Adds
<1> QED
  BY <1>1, <1>2, PostAdds DEF WakeIfQuiescent

(* The fields of a driver.                                                 *)
Holds(y, tx, q, pending, idle, inflight, running, finished) ==
  /\ y \in Driver /\ y.tx = tx /\ y.jobs = q /\ y.pending = pending
  /\ y.idle = idle /\ y.inflight = inflight
  /\ y.running = running /\ y.finished = finished

(* The types of its fields.                                                *)
LEMMA DriverTypes ==
  ASSUME NEW x \in Driver
  PROVE  /\ x.tx \in BOOLEAN /\ x.jobs \in Seq(Job) /\ x.pending \in Nat
         /\ x.idle \in Nat /\ x.inflight \in Nat
         /\ x.running \in BOOLEAN /\ x.finished \in BOOLEAN
         /\ Len(x.jobs) \in Nat /\ \A M : Count(x.jobs, M) \in Nat
<1>1. /\ x.tx \in BOOLEAN /\ x.jobs \in Seq(Job) /\ x.pending \in Nat
      /\ x.idle \in Nat /\ x.inflight \in Nat
      /\ x.running \in BOOLEAN /\ x.finished \in BOOLEAN
  BY DEF Driver
<1> QED
  BY <1>1, LenProperties, CountType

(* Each assignment to the driver.                                          *)
LEMMA DriverSets ==
  ASSUME NEW x \in Driver, NEW n \in Nat, NEW b \in BOOLEAN, NEW q \in Seq(Job)
  PROVE  /\ Holds([x EXCEPT !.inflight = n], x.tx, x.jobs, x.pending, x.idle, n,
                  x.running, x.finished)
         /\ Holds([x EXCEPT !.idle = n], x.tx, x.jobs, x.pending, n, x.inflight,
                  x.running, x.finished)
         /\ Holds([x EXCEPT !.pending = n], x.tx, x.jobs, n, x.idle, x.inflight,
                  x.running, x.finished)
         /\ Holds([x EXCEPT !.jobs = q], x.tx, q, x.pending, x.idle, x.inflight,
                  x.running, x.finished)
         /\ Holds([x EXCEPT !.running = FALSE], x.tx, x.jobs, x.pending, x.idle,
                  x.inflight, FALSE, x.finished)
         /\ Holds([x EXCEPT !.finished = TRUE], x.tx, x.jobs, x.pending, x.idle,
                  x.inflight, x.running, TRUE)
         /\ Holds([x EXCEPT !.tx = FALSE], FALSE, x.jobs, x.pending, x.idle,
                  x.inflight, x.running, x.finished)
         /\ Holds([x EXCEPT !.running = TRUE, !.finished = b], x.tx, x.jobs, x.pending,
                  x.idle, x.inflight, TRUE, b)
<1>1. Holds([x EXCEPT !.inflight = n], x.tx, x.jobs, x.pending, x.idle, n, x.running, x.finished)
  BY DEF Driver, Holds
<1>2. Holds([x EXCEPT !.idle = n], x.tx, x.jobs, x.pending, n, x.inflight, x.running, x.finished)
  BY DEF Driver, Holds
<1>3. Holds([x EXCEPT !.pending = n], x.tx, x.jobs, n, x.idle, x.inflight, x.running, x.finished)
  BY DEF Driver, Holds
<1>4. Holds([x EXCEPT !.jobs = q], x.tx, q, x.pending, x.idle, x.inflight, x.running, x.finished)
  BY DEF Driver, Holds
<1>5. Holds([x EXCEPT !.running = FALSE], x.tx, x.jobs, x.pending, x.idle, x.inflight, FALSE, x.finished)
  BY DEF Driver, Holds
<1>6. Holds([x EXCEPT !.finished = TRUE], x.tx, x.jobs, x.pending, x.idle, x.inflight, x.running, TRUE)
  BY DEF Driver, Holds
<1>7. Holds([x EXCEPT !.tx = FALSE], FALSE, x.jobs, x.pending, x.idle, x.inflight, x.running, x.finished)
  BY DEF Driver, Holds
<1>8. Holds([x EXCEPT !.running = TRUE, !.finished = b], x.tx, x.jobs, x.pending, x.idle, x.inflight, TRUE, b)
  BY DEF Driver, Holds
<1> QED
  BY <1>1, <1>2, <1>3, <1>4, <1>5, <1>6, <1>7, <1>8

(* spawn_loop sets the two flags and nothing else.                         *)
LEMMA SpawnHolds ==
  ASSUME NEW x \in Driver
  PROVE  Holds(SpawnLoop(x), x.tx, x.jobs, x.pending, x.idle, x.inflight, TRUE,
               x.finished /\ x.running)
<1>1. (x.finished /\ x.running) \in BOOLEAN
  OBVIOUS
<1>2. SpawnLoop(x) = [x EXCEPT !.running = TRUE, !.finished = x.finished /\ x.running]
  BY DEF SpawnLoop, Driver
<1>3. 0 \in Nat /\ <<>> \in Seq(Job)
  OBVIOUS
<1> QED
  BY <1>1, <1>2, <1>3, DriverSets

(* dec_pending, of a driver with a job pending.                            *)
LEMMA DecPendingHolds ==
  ASSUME NEW x \in Driver, x.pending > 0
  PROVE  Holds(DecPending(x), x.tx, x.jobs, x.pending - 1, x.idle, x.inflight,
               x.running, x.finished)
<1>1. x.pending - 1 \in Nat
  BY DriverTypes
<1>2. DecPending(x) = [x EXCEPT !.pending = x.pending - 1]
  BY DriverTypes DEF DecPending
<1>3. FALSE \in BOOLEAN /\ <<>> \in Seq(Job)
  OBVIOUS
<1> QED
  BY <1>1, <1>2, <1>3, DriverSets

(* One completion less is owed.                                            *)
LEMMA ReleaseAdds ==
  ASSUME NEW x \in Driver, x.inflight > 0
  PROVE  \E z : /\ Holds(z, x.tx, x.jobs, x.pending, x.idle, x.inflight - 1,
                         x.running, x.finished)
                /\ Adds(z, ReleaseKeepalive(x), <<"wake">>)
<1> DEFINE z == [x EXCEPT !.inflight = x.inflight - 1]
<1>1. x.inflight - 1 \in Nat
  BY DriverTypes
<1>2. ReleaseKeepalive(x) = WakeIfQuiescent(z)
  BY DriverTypes DEF ReleaseKeepalive
<1>3. FALSE \in BOOLEAN /\ <<>> \in Seq(Job)
  OBVIOUS
<1>4. Holds(z, x.tx, x.jobs, x.pending, x.idle, x.inflight - 1, x.running, x.finished)
  BY <1>1, <1>3, DriverSets
<1> HIDE DEF z
<1>5. Adds(z, WakeIfQuiescent(z), <<"wake">>)
  BY <1>4, WakeAdds DEF Holds
<1> QED
  BY <1>2, <1>4, <1>5

------------------------------------------------------------------------------
(* The function.                                                           *)

(* The types of the function's fields.                                     *)
LEMMA FunctionTypes ==
  ASSUME NEW y \in Function
  PROVE  /\ y.state \in {"open", "closing", "closed"} /\ y.max \in Nat
         /\ y.items \in Seq(Payloads) /\ y.closed \in BOOLEAN /\ y.refs \in Int
         /\ y.idle \in {0, 1} /\ y.aborted \in BOOLEAN /\ y.finish \in BOOLEAN
         /\ y.finalized \in Nat /\ y.reg \in BOOLEAN /\ y.mine \in BOOLEAN
         /\ y.reref \in Nat
BY DEF Function

(* Closing, aborting and dropping a reference leave the payloads alone.    *)
LEMMA ClosingSame ==
  ASSUME NEW y \in Function
  PROVE  /\ SameFunction(y, BeginClosing(y)) /\ BeginClosing(y).closed
         /\ SameFunction(y, Abort(y)) /\ Abort(y).closed
         /\ SameFunction(y, Drop(y)) /\ (y.refs = 1 => Drop(y).closed)
<1>1. ASSUME NEW z \in Function
      PROVE  /\ BeginClosing(z) \in Function /\ BeginClosing(z).closed
             /\ SameFunction(z, BeginClosing(z))
  <2> DEFINE c == IF z.state = "open" THEN "closing" ELSE z.state
  <2>1. c \in {"open", "closing", "closed"} /\ (c = "closed" <=> z.state = "closed")
    BY FunctionTypes
  <2> HIDE DEF c
  <2>2. BeginClosing(z) = [z EXCEPT !.state = c, !.closed = TRUE]
    BY DEF BeginClosing, c
  <2> QED
    BY <2>1, <2>2 DEF SameFunction, Function
<1>2. SameFunction(y, Abort(y)) /\ Abort(y).closed
  <2> DEFINE z == BeginClosing(y)
  <2>1. z \in Function /\ z.closed /\ SameFunction(y, z)
    BY <1>1
  <2> HIDE DEF z
  <2>2. Abort(y) = [z EXCEPT !.aborted = TRUE]
    BY DEF Abort, z
  <2>3. SameFunction(z, [z EXCEPT !.aborted = TRUE]) /\ [z EXCEPT !.aborted = TRUE].closed
    BY <2>1 DEF SameFunction, Function
  <2> QED
    BY <2>1, <2>2, <2>3 DEF SameFunction
<1>3. SameFunction(y, Drop(y)) /\ (y.refs = 1 => Drop(y).closed)
  <2> DEFINE z == [y EXCEPT !.refs = y.refs - 1]
  <2>0. y.refs - 1 \in Int
    BY FunctionTypes
  <2>1. z \in Function /\ z.refs = y.refs - 1 /\ SameFunction(y, z)
    BY <2>0 DEF SameFunction, Function
  <2>2. Drop(y) = IF z.refs = 0 THEN BeginClosing(z) ELSE z
    BY DEF Drop
  <2> HIDE DEF z
  <2>3. BeginClosing(z).closed /\ SameFunction(z, BeginClosing(z))
    BY <1>1, <2>1
  <2>4. SameFunction(y, BeginClosing(z))
    BY <2>1, <2>3 DEF SameFunction
  <2>5. y.refs = 1 => z.refs = 0
    BY <2>1, FunctionTypes
  <2> QED
    BY <2>1, <2>2, <2>3, <2>4, <2>5
<1> QED
  BY <1>1, <1>2, <1>3

(* Taking the whole queue.                                                 *)
LEMMA TakeAllIs ==
  ASSUME NEW y \in Function
  PROVE  LET z == TakeAll(y)
         IN  /\ z \in Function /\ z.items = <<>> /\ z.finish = y.finish
             /\ z.finalized = y.finalized /\ z.reg = y.reg /\ z.idle = y.idle
             /\ z.closed = y.closed /\ z.state = y.state
<1>1. <<>> \in Seq(Payloads)
  OBVIOUS
<1> QED
  BY <1>1 DEF TakeAll, Function

(* The beginning of finish_tsfn_release, the first time.                   *)
LEMMA StartFinishIs ==
  ASSUME NEW y \in Function
  PROVE  LET z == StartFinish(y)
         IN  /\ z \in Function /\ z.finish /\ z.finalized = y.finalized
             /\ z.idle = y.idle /\ z.state = y.state /\ (y.closed => z.closed)
             /\ z.items = IF y.finish THEN y.items ELSE <<>>
             /\ (z.reg <=> y.reg /\ ~y.finish)
             /\ ~y.finish => z.closed
<1>1. CASE y.finish
  BY <1>1 DEF StartFinish, Function
<1>2. CASE ~y.finish
  <2> DEFINE u == [y EXCEPT !.finish = TRUE, !.closed = TRUE]
  <2>1. /\ u \in Function /\ u.finish /\ u.closed /\ u.finalized = y.finalized
        /\ u.reg = y.reg /\ u.idle = y.idle /\ u.state = y.state
    BY DEF Function
  <2>2. StartFinish(y) = TakeAll(u)
    BY <1>2 DEF StartFinish
  <2> HIDE DEF u
  <2> QED
    BY <1>2, <2>1, <2>2, TakeAllIs
<1> QED
  BY <1>1, <1>2, FunctionTypes

------------------------------------------------------------------------------
(* The counters.                                                           *)

(* The set of owed items is finite.                                        *)
LEMMA OwedFinite ==
  ASSUME NEW wk, NEW q, NEW s
  PROVE  IsFiniteSet(OwedSet(wk, q, s)) /\ Cardinality(OwedSet(wk, q, s)) \in Nat
<1>1. OwedSet(wk, q, s) \in SUBSET Works
  BY DEF OwedSet
<1>2. IsFiniteSet(OwedSet(wk, q, s))
  BY <1>1, NapiAssumption, FS_Subset
<1> QED
  BY <1>2, FS_CardinalityType

(* Where the completions of the items differ from those of item w only.    *)
OthersKeep(wk, q, s, wk2, q2, s2, w) ==
  \A v \in Works \ {w} :
    /\ wk2[v] = wk[v]
    /\ Count(q2, DoneJob(v, "ok")) = Count(q, DoneJob(v, "ok"))
    /\ Count(q2, DoneJob(v, "cancelled")) = Count(q, DoneJob(v, "cancelled"))
    /\ Count(s2, CompleteFrame(v)) = Count(s, CompleteFrame(v))

(* A step of one item.                                                     *)
LEMMA ItemCounted ==
  ASSUME NEW x \in Driver, NEW y \in Driver, NEW wk, NEW wk2, NEW s, NEW s2,
         NEW i, NEW w \in Works,
         Counted(x, wk, s, i), OthersKeep(wk, x.jobs, s, wk2, y.jobs, s2, w),
         y.pending = Len(y.jobs) + Count(s2, Plain("job")),
         y.inflight + (IF OwedIn(wk, x.jobs, s, w) THEN 1 ELSE 0)
           = x.inflight + (IF OwedIn(wk2, y.jobs, s2, w) THEN 1 ELSE 0),
         Fits(wk2, y.jobs, s2, w), y.idle = i
  PROVE  Counted(y, wk2, s2, i)
<1> DEFINE A == OwedSet(wk, x.jobs, s)
           B == OwedSet(wk2, y.jobs, s2)
<1>1. IsFiniteSet(A) /\ Cardinality(A) \in Nat /\ x.inflight = Cardinality(A)
  BY OwedFinite DEF Counted
<1>2. /\ w \in A <=> OwedIn(wk, x.jobs, s, w)
      /\ w \in B <=> OwedIn(wk2, y.jobs, s2, w)
  BY DEF OwedSet
<1>3. \A v \in Works \ {w} : /\ OwedIn(wk2, y.jobs, s2, v) <=> OwedIn(wk, x.jobs, s, v)
                             /\ Fits(wk2, y.jobs, s2, v)
  BY DEF OthersKeep, OwedIn, Fits, Counted
<1>4. B = IF w \in B THEN A \cup {w} ELSE A \ {w}
  BY <1>3 DEF OwedSet
<1> HIDE DEF A, B
<1>5. /\ w \in B => Cardinality(B) = IF w \in A THEN Cardinality(A) ELSE Cardinality(A) + 1
      /\ w \notin B => Cardinality(B) = IF w \in A THEN Cardinality(A) - 1 ELSE Cardinality(A)
  BY <1>1, <1>4, FS_AddElement, FS_RemoveElement
<1>6. y.inflight \in Nat /\ x.inflight \in Nat
  BY DriverTypes
<1>7. y.inflight = Cardinality(B)
  BY <1>1, <1>2, <1>5, <1>6
<1> QED
  BY <1>3, <1>7 DEF Counted, B

(* A step that leaves every completion where it was.                       *)
LEMMA KeepsCounted ==
  ASSUME NEW x \in Driver, NEW y \in Driver, NEW wk, NEW s, NEW s2, NEW i, NEW k,
         Counted(x, wk, s, i),
         \A v \in Works : /\ Count(y.jobs, DoneJob(v, "ok")) = Count(x.jobs, DoneJob(v, "ok"))
                          /\ Count(y.jobs, DoneJob(v, "cancelled"))
                               = Count(x.jobs, DoneJob(v, "cancelled"))
                          /\ Count(s2, CompleteFrame(v)) = Count(s, CompleteFrame(v)),
         y.pending = Len(y.jobs) + Count(s2, Plain("job")),
         y.inflight = x.inflight, y.idle = k
  PROVE  Counted(y, wk, s2, k)
<1>1. \A v \in Works : /\ OwedIn(wk, y.jobs, s2, v) <=> OwedIn(wk, x.jobs, s, v)
                       /\ Fits(wk, y.jobs, s2, v)
  BY DEF OwedIn, Fits, Counted
<1>2. OwedSet(wk, y.jobs, s2) = OwedSet(wk, x.jobs, s)
  BY <1>1 DEF OwedSet
<1> QED
  BY <1>1, <1>2 DEF Counted

(* A job that completes nothing was posted, and the stack changed in       *)
(* frames that count for nothing.                                          *)
LEMMA AddsCounted ==
  ASSUME NEW x \in Driver, NEW y, NEW wk, NEW s \in Seq(Frame), NEW s2, NEW i, NEW j, NEW K,
         Counted(x, wk, s, i), Adds(x, y, j), AgreeBut(s, s2, K),
         "job" \notin K, "complete" \notin K,
         \A v \in Works, r \in Outcome : j \notin DoneJob(v, r)
  PROVE  Counted(y, wk, s2, i)
<1>1. y \in Driver /\ y.inflight = x.inflight /\ y.idle = i
  BY DEF Adds, Counted
<1>2. \A v \in Works : /\ Count(y.jobs, DoneJob(v, "ok")) = Count(x.jobs, DoneJob(v, "ok"))
                       /\ Count(y.jobs, DoneJob(v, "cancelled"))
                            = Count(x.jobs, DoneJob(v, "cancelled"))
                       /\ Count(s2, CompleteFrame(v)) = Count(s, CompleteFrame(v))
  BY DEF Adds, AgreeBut, Outcome
<1>3. y.pending = Len(y.jobs) + Count(s2, Plain("job"))
  <2>1. /\ y.pending + Len(x.jobs) = x.pending + Len(y.jobs)
        /\ x.pending = Len(x.jobs) + Count(s, Plain("job"))
        /\ Count(s2, Plain("job")) = Count(s, Plain("job"))
    BY DEF Adds, AgreeBut, Counted
  <2>2. y.pending \in Nat /\ Len(y.jobs) \in Nat /\ Len(x.jobs) \in Nat
    BY <1>1, DriverTypes
  <2>3. Count(s, Plain("job")) \in Nat
    BY CountType
  <2> QED
    BY <2>1, <2>2, <2>3
<1> QED
  BY <1>1, <1>2, <1>3, KeepsCounted

------------------------------------------------------------------------------
(* Taking a job.                                                           *)

(* A job of the channel.                                                   *)
LEMMA JobKinds ==
  ASSUME NEW j \in Job
  PROVE  /\ \A op \in {"wake", "tsfn", "abort", "release"} : j[1] = op => j = <<op>>
         /\ j[1] = "done" => /\ j[2] \in Works /\ j[3] \in Outcome
                             /\ j = <<"done", j[2], j[3]>>
<1>1. CASE j \in {<<"wake">>, <<"tsfn">>, <<"abort">>, <<"release">>}
  BY <1>1
<1>2. CASE j \in {"done"} \X Works \X Outcome
  BY <1>2
<1> QED
  BY <1>1, <1>2 DEF Job

(* The first job is taken, and frames run on top of the stack.             *)
Runs(frames) ==
  /\ d' \in Driver /\ d'.jobs = Tail(d.jobs)
  /\ d'.tx = d.tx /\ d'.idle = d.idle /\ d'.inflight = d.inflight
  /\ d'.running = d.running /\ d'.finished = d.finished
  /\ js' \in Seq(Frame)
  /\ d'.pending = Len(d'.jobs) + Count(js', Plain("job"))
  /\ \A M : <<"job">> \notin M => Count(js', M) = Count(frames, M) + Count(js, M)
  /\ frames = <<>> => js' = js
  /\ frames # <<>> => js' # <<>>

(* RunJob is what Runs says, for frames without a job's own.               *)
LEMMA RunJobRuns ==
  ASSUME d \in Driver, js \in Seq(Frame), d.jobs # <<>>,
         d.pending = Len(d.jobs) + Count(js, Plain("job")),
         NEW frames \in Seq(Frame), Count(frames, Plain("job")) = 0, RunJob(frames, js)
  PROVE  Runs(frames)
<1> DEFINE y == [d EXCEPT !.jobs = Tail(d.jobs)]
           J == Plain("job")
<1>1. /\ d.jobs \in Seq(Job) /\ Len(d.jobs) \in Nat /\ d.pending \in Nat
      /\ Count(js, J) \in Nat
  BY DriverTypes, CountType
<1>2. /\ Tail(d.jobs) \in Seq(Job) /\ Len(Tail(d.jobs)) = Len(d.jobs) - 1
      /\ Len(d.jobs) > 0
  BY <1>1, HeadTailProperties, EmptySeq
<1>3. Holds(y, d.tx, Tail(d.jobs), d.pending, d.idle, d.inflight, d.running, d.finished)
  <2>1. FALSE \in BOOLEAN /\ 0 \in Nat
    OBVIOUS
  <2> QED
    BY <1>2, <2>1, DriverSets
<1> HIDE DEF y
<1>4. CASE frames = <<>>
  <2>1. js' = js /\ d' = DecPending(y)
    BY <1>4 DEF RunJob, y
  <2>2. y \in Driver /\ y.pending > 0
    BY <1>1, <1>2, <1>3 DEF Holds
  <2>3. Holds(DecPending(y), y.tx, y.jobs, y.pending - 1, y.idle, y.inflight,
              y.running, y.finished)
    BY <2>2, DecPendingHolds
  <2>4. /\ d' \in Driver /\ d'.jobs = Tail(d.jobs)
        /\ d'.tx = d.tx /\ d'.idle = d.idle /\ d'.inflight = d.inflight
        /\ d'.running = d.running /\ d'.finished = d.finished
        /\ d'.pending = d.pending - 1
    BY <1>3, <2>1, <2>3 DEF Holds
  <2>5. d'.pending = Len(d'.jobs) + Count(js', J)
    BY <1>1, <1>2, <2>1, <2>4
  <2>6. \A M : Count(js', M) = Count(frames, M) + Count(js, M)
    <3>1. \A M : Count(frames, M) = 0 /\ Count(js, M) \in Nat
      BY <1>4, CountEmpty, CountType
    <3> QED
      BY <2>1, <3>1
  <2> QED
    BY <1>4, <2>1, <2>4, <2>5, <2>6 DEF Runs
<1>5. CASE frames # <<>>
  <2> DEFINE t == << <<"job">> >>
             u == frames \o t
  <2>1. js' = u \o js /\ d' = y
    BY <1>5 DEF RunJob, y
  <2>2. <<"job">> \in Frame
    BY DEF Frame
  <2>3. t \in Seq(Frame) /\ \A M : Count(t, M) = IF <<"job">> \in M THEN 1 ELSE 0
    BY <2>2, CountOne
  <2> HIDE DEF t
  <2>4. u \in Seq(Frame) /\ Len(u) = Len(frames) + Len(t)
    BY <2>3, ConcatProperties
  <2>5. \A M : Count(u, M) = Count(frames, M) + Count(t, M)
    BY <2>3, CountConcat
  <2> HIDE DEF u
  <2>6. u \o js \in Seq(Frame) /\ Len(u \o js) = Len(u) + Len(js)
    BY <2>4, ConcatProperties
  <2>7. \A M : Count(u \o js, M) = Count(u, M) + Count(js, M)
    BY <2>4, CountConcat
  <2>8. \A M : Count(frames, M) \in Nat /\ Count(js, M) \in Nat
    BY CountType
  <2>9. \A M : <<"job">> \notin M => Count(js', M) = Count(frames, M) + Count(js, M)
    BY <2>1, <2>3, <2>5, <2>7, <2>8
  <2>10. Count(js', J) = 1 + Count(js, J)
    <3>1. <<"job">> \in J
      BY DEF Plain
    <3>2. Count(t, J) = 1
      BY <2>3, <3>1
    <3> HIDE DEF J
    <3>3. Count(frames, J) = 0
      BY DEF J
    <3> QED
      BY <1>1, <2>1, <2>5, <2>7, <3>2, <3>3
  <2>11. js' # <<>>
    <3>1. Len(frames) \in Nat /\ Len(frames) > 0 /\ Len(t) \in Nat /\ Len(js) \in Nat
      BY <1>5, <2>3, LenProperties, EmptySeq
    <3>2. Len(u \o js) > 0
      BY <2>4, <2>6, <3>1
    <3> QED
      BY <2>1, <3>2, EmptySeq
  <2>12. d'.pending = Len(d'.jobs) + Count(js', J)
    <3>1. d'.pending = d.pending /\ Len(d'.jobs) = Len(d.jobs) - 1
      BY <1>2, <1>3, <2>1 DEF Holds
    <3>2. d.pending = Len(d.jobs) + Count(js, J)
      OBVIOUS
    <3> HIDE DEF J
    <3> QED
      BY <1>1, <2>10, <3>1, <3>2
  <2>13. js' \in Seq(Frame)
    BY <2>1, <2>6
  <2> QED
    BY <1>3, <1>5, <2>1, <2>9, <2>11, <2>12, <2>13 DEF Runs, Holds
<1> QED
  BY <1>4, <1>5

(* What the five kinds of job do.                                          *)
TakesWake(frames) ==
  Head(d.jobs) = <<"wake">> /\ frames = <<>> /\ f' = f /\ work' = work
TakesTsfn(frames) ==
  /\ Head(d.jobs) = <<"tsfn">> /\ frames = BatchOf(FirstOf(f.items))
  /\ f' = [f EXCEPT !.items = RestOf(f.items)] /\ work' = work
TakesAbort(frames) ==
  /\ Head(d.jobs) = <<"abort">> /\ frames = BatchOf(f.items)
  /\ f' = TakeAll(f) /\ work' = work
TakesRelease(frames) ==
  /\ Head(d.jobs) = <<"release">> /\ frames = FinishFrames(f)
  /\ f' = StartFinish(f) /\ work' = work
TakesDone(frames, w, r) ==
  /\ Head(d.jobs) = <<"done", w, r>> /\ f' = f
  /\ IF work[w].posted THEN frames = <<>> /\ work' = work
     ELSE /\ frames = << <<"complete", w>> >>
          /\ work' = [work EXCEPT ![w].posted = TRUE, ![w].out = r, ![w].done = @ + 1]

(* The frames of finish_tsfn_release.                                      *)
LEMMA FinishFramesAre ==
  ASSUME NEW y \in Function
  PROVE  /\ FinishFrames(y) \in Seq(Frame)
         /\ y.finish => FinishFrames(y) = <<>>
         /\ ~y.finish => /\ FinishFrames(y) = BatchOf(y.items) \o << <<"finish">> >>
                         /\ \A M : Count(FinishFrames(y), M)
                                = Count(BatchOf(y.items), M) + (IF <<"finish">> \in M THEN 1 ELSE 0)
<1>1. <<"finish">> \in Frame
  BY DEF Frame
<1>2. y.items \in Seq(Payloads) /\ <<>> \in Seq(Frame)
  BY FunctionTypes
<1>3. BatchOf(y.items) \in Seq(Frame)
  BY <1>2, BatchFrames
<1>4. CASE y.finish
  BY <1>2, <1>4 DEF FinishFrames
<1>5. CASE ~y.finish
  <2>1. FinishFrames(y) = Append(BatchOf(y.items), <<"finish">>)
    BY <1>5 DEF FinishFrames, Batch
  <2>2. FinishFrames(y) = BatchOf(y.items) \o << <<"finish">> >>
    BY <1>1, <1>3, <2>1, AppendIsConcat
  <2>3. FinishFrames(y) \in Seq(Frame)
    BY <1>1, <1>3, <2>1, AppendProperties
  <2>4. \A M : Count(FinishFrames(y), M)
                 = Count(BatchOf(y.items), M) + (IF <<"finish">> \in M THEN 1 ELSE 0)
    BY <1>1, <1>3, <2>1, CountAppend
  <2> QED
    BY <1>5, <2>2, <2>3, <2>4
<1> QED
  BY <1>4, <1>5

(* A batch alone counts for no mark but those of batches.                  *)
LEMMA BatchCounts ==
  ASSUME NEW items \in Seq(Payloads)
  PROVE  /\ BatchOf(items) \in Seq(Frame)
         /\ \A op \in {"job", "finish", "closesender", "free"} : Count(BatchOf(items), Plain(op)) = 0
         /\ \A w \in Works : Count(BatchOf(items), CompleteFrame(w)) = 0
         /\ \A M : Count(BatchOf(items), M)
                     = IF items # <<>> /\ <<"batch", items>> \in M THEN 1 ELSE 0
<1>1. \A M : Count(BatchOf(items), M) = IF items # <<>> /\ <<"batch", items>> \in M THEN 1 ELSE 0
  BY CountEmpty, CountOne DEF BatchOf
<1>2. \A op \in {"job", "finish", "closesender", "free"} : <<"batch", items>> \notin Plain(op)
  BY DEF Plain
<1>3. \A w \in Works : <<"batch", items>> \notin CompleteFrame(w)
  BY DEF CompleteFrame
<1>4. <<>> \in Seq(Frame)
  OBVIOUS
<1> QED
  BY <1>1, <1>2, <1>3, <1>4, BatchFrames

(* TakeJob is one of them.                                                 *)
LEMMA TakeJobCases ==
  ASSUME Types, d.pending = Len(d.jobs) + Count(js, Plain("job")),
         d.jobs # <<>>, TakeJob(js)
  PROVE  \E frames \in Seq(Frame) :
           /\ Runs(frames)
           /\ \/ TakesWake(frames) \/ TakesTsfn(frames) \/ TakesAbort(frames)
              \/ TakesRelease(frames)
              \/ \E w \in Works, r \in Outcome : TakesDone(frames, w, r)
<1> DEFINE job == Head(d.jobs)
           J == Plain("job")
<1>1. d \in Driver /\ f \in Function /\ js \in Seq(Frame) /\ d.jobs \in Seq(Job)
  BY DriverTypes DEF Types
<1>2. job \in Job
  BY <1>1, HeadTailProperties
<1>3. f.items \in Seq(Payloads)
  BY <1>1, FunctionTypes
<1>4. \A fr \in Seq(Frame) : Count(fr, J) = 0 /\ RunJob(fr, js) => Runs(fr)
  BY <1>1, RunJobRuns
<1>5. <<>> \in Seq(Frame) /\ Count(<<>>, J) = 0
  BY CountEmpty
<1>6. CASE job[1] = "wake" /\ RunJob(<<>>, js) /\ UNCHANGED <<f, work>>
  BY <1>2, <1>4, <1>5, <1>6, JobKinds DEF TakesWake
<1>7. CASE /\ job[1] = "tsfn" /\ RunJob(BatchOf(FirstOf(f.items)), js)
           /\ f' = [f EXCEPT !.items = RestOf(@)] /\ UNCHANGED work
  <2>1. FirstOf(f.items) \in Seq(Payloads)
    BY <1>3, HeadTailProperties DEF FirstOf
  <2>2. BatchOf(FirstOf(f.items)) \in Seq(Frame) /\ Count(BatchOf(FirstOf(f.items)), J) = 0
    BY <2>1, BatchCounts
  <2>3. TakesTsfn(BatchOf(FirstOf(f.items)))
    BY <1>2, <1>7, JobKinds DEF TakesTsfn
  <2> QED
    BY <1>4, <1>7, <2>2, <2>3
<1>8. CASE /\ job[1] = "abort" /\ RunJob(Batch(f), js) /\ f' = TakeAll(f)
           /\ UNCHANGED work
  <2>1. BatchOf(f.items) \in Seq(Frame) /\ Count(BatchOf(f.items), J) = 0
    BY <1>3, BatchCounts
  <2>2. TakesAbort(BatchOf(f.items)) /\ RunJob(BatchOf(f.items), js)
    BY <1>2, <1>8, JobKinds DEF TakesAbort, Batch
  <2> QED
    BY <1>4, <2>1, <2>2
<1>9. CASE /\ job[1] = "release" /\ RunJob(FinishFrames(f), js)
           /\ f' = StartFinish(f) /\ UNCHANGED work
  <2>1. FinishFrames(f) \in Seq(Frame) /\ Count(FinishFrames(f), J) = 0
    <3>1. Count(BatchOf(f.items), J) = 0 /\ <<"finish">> \notin J
      BY <1>3, BatchCounts DEF Plain
    <3> HIDE DEF J
    <3> QED
      BY <1>1, <1>5, <3>1, FinishFramesAre
  <2>2. TakesRelease(FinishFrames(f))
    BY <1>2, <1>9, JobKinds DEF TakesRelease
  <2> QED
    BY <1>4, <1>9, <2>1, <2>2
<1>10. CASE job[1] = "done" /\ TakeDone(job[2], job[3], js)
  <2> DEFINE w == job[2]
             r == job[3]
  <2>1. w \in Works /\ r \in Outcome /\ job = <<"done", w, r>>
    BY <1>2, <1>10, JobKinds
  <2>2. CASE work[w].posted
    <3>1. RunJob(<<>>, js) /\ work' = work /\ f' = f
      BY <1>10, <2>2 DEF TakeDone
    <3>2. TakesDone(<<>>, w, r)
      BY <2>1, <2>2, <3>1 DEF TakesDone
    <3> QED
      BY <1>4, <1>5, <2>1, <3>1, <3>2
  <2>3. CASE ~work[w].posted
    <3> DEFINE fr == << <<"complete", w>> >>
    <3>1. /\ RunJob(fr, js) /\ f' = f
          /\ work' = [work EXCEPT ![w].posted = TRUE, ![w].out = r, ![w].done = @ + 1]
      BY <1>10, <2>3 DEF TakeDone
    <3>2. TakesDone(fr, w, r)
      BY <2>1, <2>3, <3>1 DEF TakesDone
    <3>3. <<"complete", w>> \in Frame /\ <<"complete", w>> \notin J
      BY <2>1 DEF Frame, Plain
    <3>4. fr \in Seq(Frame) /\ Count(fr, J) = 0
      BY <3>3, CountOne
    <3> QED
      BY <1>4, <2>1, <3>1, <3>2, <3>4
  <2> QED
    BY <2>2, <2>3
<1> QED
  BY <1>6, <1>7, <1>8, <1>9, <1>10 DEF TakeJob

(* What the other jobs do to the function.                                 *)
LEMMA RestOfIs ==
  ASSUME NEW q \in Seq(Payloads)
  PROVE  /\ FirstOf(q) \in Seq(Payloads) /\ RestOf(q) \in Seq(Payloads)
         /\ \A M : Count(q, M) = Count(FirstOf(q), M) + Count(RestOf(q), M)
         /\ Len(RestOf(q)) = IF q = <<>> THEN 0 ELSE Len(q) - 1
         /\ \A M : Count(FirstOf(q), M) <= 1
<1>1. CASE q = <<>>
  BY <1>1, CountEmpty DEF FirstOf, RestOf
<1>2. CASE q # <<>>
  <2>1. FirstOf(q) = <<Head(q)>> /\ RestOf(q) = Tail(q)
    BY <1>2 DEF FirstOf, RestOf
  <2>2. Head(q) \in Payloads /\ Tail(q) \in Seq(Payloads) /\ Len(Tail(q)) = Len(q) - 1
    BY <1>2, HeadTailProperties
  <2>3. \A M : Count(q, M) = Count(Tail(q), M) + (IF Head(q) \in M THEN 1 ELSE 0)
    BY <1>2, CountTail
  <2>4. \A M : Count(<<Head(q)>>, M) = IF Head(q) \in M THEN 1 ELSE 0
    BY CountOne
  <2>5. \A M : Count(Tail(q), M) \in Nat
    BY <2>2, CountType
  <2>6. <<Head(q)>> \in Seq(Payloads)
    BY <2>2
  <2>7. \A M : Count(q, M) = Count(<<Head(q)>>, M) + Count(Tail(q), M)
    BY <2>3, <2>4, <2>5
  <2> QED
    BY <1>2, <2>1, <2>2, <2>4, <2>6, <2>7
<1> QED
  BY <1>1, <1>2

(* The jobs that are not completions leave the items alone.                *)
LEMMA TakesTypes ==
  ASSUME Types, NEW frames \in Seq(Frame),
         TakesWake(frames) \/ TakesTsfn(frames) \/ TakesAbort(frames) \/ TakesRelease(frames)
  PROVE  /\ f' \in Function /\ f'.idle = f.idle /\ work' = work
         /\ \A w \in Works : Count(frames, CompleteFrame(w)) = 0
         /\ \A w \in Works, r \in Outcome : Head(d.jobs) \notin DoneJob(w, r)
<1>1. f \in Function /\ f.items \in Seq(Payloads)
  BY FunctionTypes DEF Types
<1>2. CASE TakesWake(frames)
  BY <1>1, <1>2, CountEmpty DEF TakesWake, DoneJob
<1>3. CASE TakesTsfn(frames)
  <2>1. FirstOf(f.items) \in Seq(Payloads) /\ RestOf(f.items) \in Seq(Payloads)
    BY <1>1, RestOfIs
  <2>2. f' \in Function /\ f'.idle = f.idle
    BY <1>1, <1>3, <2>1 DEF TakesTsfn, Function
  <2>3. \A w \in Works : Count(frames, CompleteFrame(w)) = 0
    BY <1>3, <2>1, BatchCounts DEF TakesTsfn
  <2>4. \A w \in Works, r \in Outcome : <<"tsfn">> \notin DoneJob(w, r)
    BY DEF DoneJob
  <2> QED
    BY <1>3, <2>2, <2>3, <2>4 DEF TakesTsfn
<1>4. CASE TakesAbort(frames)
  <2>1. f' \in Function /\ f'.idle = f.idle
    BY <1>1, <1>4, TakeAllIs DEF TakesAbort
  <2>2. \A w \in Works : Count(frames, CompleteFrame(w)) = 0
    BY <1>1, <1>4, BatchCounts DEF TakesAbort
  <2>3. \A w \in Works, r \in Outcome : <<"abort">> \notin DoneJob(w, r)
    BY DEF DoneJob
  <2> QED
    BY <1>4, <2>1, <2>2, <2>3 DEF TakesAbort
<1>5. CASE TakesRelease(frames)
  <2>1. f' \in Function /\ f'.idle = f.idle
    BY <1>1, <1>5, StartFinishIs DEF TakesRelease
  <2>2. \A w \in Works : Count(frames, CompleteFrame(w)) = 0
    <3>1. \A w \in Works : <<"finish">> \notin CompleteFrame(w) /\ Count(<<>>, CompleteFrame(w)) = 0
                             /\ Count(BatchOf(f.items), CompleteFrame(w)) = 0
      BY <1>1, CountEmpty, BatchCounts DEF CompleteFrame
    <3>2. \A M : f.finish \/ Count(FinishFrames(f), M)
                                = Count(BatchOf(f.items), M) + (IF <<"finish">> \in M THEN 1 ELSE 0)
      BY <1>1, FinishFramesAre
    <3>3. f.finish => FinishFrames(f) = <<>>
      BY <1>1, FinishFramesAre
    <3> QED
      BY <1>5, <3>1, <3>2, <3>3 DEF TakesRelease
  <2> QED
    BY <1>5, <2>1, <2>2 DEF TakesRelease, DoneJob
<1> QED
  BY <1>2, <1>3, <1>4, <1>5

(* The counters stay exact when a job is taken.                            *)
LEMMA TakeJobCounted ==
  ASSUME Types, Counted(d, work, js, f.idle), d.jobs # <<>>, TakeJob(js)
  PROVE  /\ d' \in Driver /\ f' \in Function /\ work' \in [Works -> Item]
         /\ js' \in Seq(Frame) /\ Counted(d', work', js', f'.idle)
         /\ d'.inflight = d.inflight
<1>1. d \in Driver /\ js \in Seq(Frame) /\ work \in [Works -> Item] /\ f \in Function
  BY DEF Types
<1>2. d.pending = Len(d.jobs) + Count(js, Plain("job"))
  BY DEF Counted
<1>3. PICK frames \in Seq(Frame) :
        /\ Runs(frames)
        /\ \/ TakesWake(frames) \/ TakesTsfn(frames) \/ TakesAbort(frames)
           \/ TakesRelease(frames)
           \/ \E w \in Works, r \in Outcome : TakesDone(frames, w, r)
  BY <1>2, TakeJobCases
<1>4. /\ d' \in Driver /\ js' \in Seq(Frame) /\ d'.jobs = Tail(d.jobs)
      /\ d'.inflight = d.inflight /\ d'.idle = d.idle
      /\ d'.pending = Len(d'.jobs) + Count(js', Plain("job"))
  BY <1>3 DEF Runs
<1>5. \A w \in Works : Count(js', CompleteFrame(w)) = Count(frames, CompleteFrame(w))
                                                      + Count(js, CompleteFrame(w))
  <2>1. \A w \in Works : <<"job">> \notin CompleteFrame(w)
    BY DEF CompleteFrame
  <2> QED
    BY <1>3, <2>1 DEF Runs
<1>6. \A M : Count(d.jobs, M) = Count(d'.jobs, M) + (IF Head(d.jobs) \in M THEN 1 ELSE 0)
  BY <1>1, <1>4, DriverTypes, CountTail
<1>7. /\ \A M : Count(d'.jobs, M) \in Nat /\ Count(d.jobs, M) \in Nat /\ Count(js, M) \in Nat
      /\ d.inflight \in Nat
  BY <1>1, <1>4, DriverTypes, CountType
<1>8. d.idle = f.idle
  BY DEF Counted
<1>9. CASE TakesWake(frames) \/ TakesTsfn(frames) \/ TakesAbort(frames) \/ TakesRelease(frames)
  <2>1. /\ f' \in Function /\ f'.idle = f.idle /\ work' = work
        /\ \A w \in Works : Count(frames, CompleteFrame(w)) = 0
        /\ \A w \in Works, r \in Outcome : Head(d.jobs) \notin DoneJob(w, r)
    BY <1>9, TakesTypes
  <2>2. \A v \in Works : /\ Count(d'.jobs, DoneJob(v, "ok")) = Count(d.jobs, DoneJob(v, "ok"))
                         /\ Count(d'.jobs, DoneJob(v, "cancelled"))
                              = Count(d.jobs, DoneJob(v, "cancelled"))
                         /\ Count(js', CompleteFrame(v)) = Count(js, CompleteFrame(v))
    <3>1. \A v \in Works, r \in Outcome : Count(d'.jobs, DoneJob(v, r)) = Count(d.jobs, DoneJob(v, r))
      BY <1>6, <1>7, <2>1
    <3> QED
      BY <1>5, <1>7, <2>1, <3>1 DEF Outcome
  <2>3. Counted(d', work, js', f.idle)
    BY <1>1, <1>4, <1>8, <2>2, KeepsCounted
  <2> QED
    BY <1>1, <1>4, <2>1, <2>3
<1>10. ASSUME NEW w \in Works, NEW r \in Outcome, TakesDone(frames, w, r)
       PROVE  /\ f' = f /\ work' \in [Works -> Item] /\ Counted(d', work', js', f'.idle)
  <2>1. Fits(work, d.jobs, js, w) /\ Head(d.jobs) = <<"done", w, r>> /\ f' = f
    BY <1>10 DEF Counted, TakesDone
  <2>2. /\ \A v \in Works, o \in Outcome : <<"done", w, r>> \in DoneJob(v, o) <=> v = w /\ o = r
        /\ \A v \in Works : <<"complete", w>> \in CompleteFrame(v) <=> v = w
    BY DEF DoneJob, CompleteFrame
  <2>3. \A v \in Works, o \in Outcome :
          Count(d.jobs, DoneJob(v, o))
            = Count(d'.jobs, DoneJob(v, o)) + (IF v = w /\ o = r THEN 1 ELSE 0)
    BY <1>6, <2>1, <2>2
  <2> DEFINE a == Count(d.jobs, DoneJob(w, "ok"))
             b == Count(d.jobs, DoneJob(w, "cancelled"))
             c == Count(js, CompleteFrame(w))
             a1 == Count(d'.jobs, DoneJob(w, "ok"))
             b1 == Count(d'.jobs, DoneJob(w, "cancelled"))
             c1 == Count(js', CompleteFrame(w))
  <2>4. /\ a \in Nat /\ b \in Nat /\ c \in Nat /\ a1 \in Nat /\ b1 \in Nat
        /\ a = a1 + (IF r = "ok" THEN 1 ELSE 0)
        /\ b = b1 + (IF r = "cancelled" THEN 1 ELSE 0)
        /\ ItemFits(work[w], a, b, c)
        /\ r = "ok" \/ r = "cancelled"
    BY <1>7, <2>1, <2>3 DEF Fits, Outcome
  <2> HIDE DEF a, b, c, a1, b1, c1
  <2>5. /\ a + b = 1 /\ c = 0 /\ a1 = 0 /\ b1 = 0 /\ ~work[w].posted
        /\ work[w].task = "ended"
        /\ (r = "ok" => work[w].st = "running") /\ (r = "cancelled" => work[w].st = "cancelled")
    BY <2>4 DEF ItemFits
  <2>6. /\ frames = << <<"complete", w>> >>
        /\ work' = [work EXCEPT ![w].posted = TRUE, ![w].out = r, ![w].done = @ + 1]
    BY <1>10, <2>5 DEF TakesDone
  <2>7. \A v \in Works : Count(frames, CompleteFrame(v)) = IF v = w THEN 1 ELSE 0
    BY <2>2, <2>6, CountOne
  <2>8. c1 = 1
    BY <1>5, <2>5, <2>7 DEF c, c1
  <2>9. /\ work' \in [Works -> Item] /\ \A v \in Works \ {w} : work'[v] = work[v]
        /\ work'[w].posted /\ work'[w].out = r /\ work'[w].st = work[w].st
        /\ work'[w].task = work[w].task /\ work'[w].done = work[w].done + 1
    BY <1>1, <2>6 DEF Item
  <2>10. OthersKeep(work, d.jobs, js, work', d'.jobs, js', w)
    <3>1. \A v \in Works \ {w}, o \in Outcome : Count(d'.jobs, DoneJob(v, o)) = Count(d.jobs, DoneJob(v, o))
      BY <1>7, <2>3
    <3>2. \A v \in Works \ {w} : Count(js', CompleteFrame(v)) = Count(js, CompleteFrame(v))
      BY <1>5, <1>7, <2>7
    <3> QED
      BY <2>9, <3>1, <3>2 DEF OthersKeep, Outcome
  <2>11. ItemFits(work'[w], a1, b1, c1)
    BY <2>4, <2>5, <2>8, <2>9 DEF ItemFits
  <2>12. Fits(work', d'.jobs, js', w)
    BY <2>11 DEF Fits, a1, b1, c1
  <2>13. OwedIn(work, d.jobs, js, w) /\ OwedIn(work', d'.jobs, js', w)
    <3>1. Keeps(work[w], a, b, c) /\ Keeps(work'[w], a1, b1, c1)
      BY <2>4, <2>5, <2>8 DEF Keeps
    <3> QED
      BY <3>1 DEF OwedIn, a, b, c, a1, b1, c1
  <2>14. d'.inflight + (IF OwedIn(work, d.jobs, js, w) THEN 1 ELSE 0)
           = d.inflight + (IF OwedIn(work', d'.jobs, js', w) THEN 1 ELSE 0)
    BY <1>4, <2>13
  <2>15. Counted(d', work', js', f.idle)
    BY <1>1, <1>4, <1>8, <2>10, <2>12, <2>14, ItemCounted
  <2> QED
    BY <2>1, <2>9, <2>15
<1> QED
  BY <1>1, <1>3, <1>4, <1>9, <1>10

------------------------------------------------------------------------------
(* The stacks the actions leave.                                           *)

(* Two frames that are pushed count for their kinds only.                  *)
LEMMA PushTwoAgrees ==
  ASSUME NEW s \in Seq(Frame), NEW x \in Frame, NEW y \in Frame
  PROVE  AgreeBut(s, <<x, y>> \o s, {x[1], y[1]})
<1>1. AgreeBut(s, <<y>> \o s, {y[1]})
  BY PushAgrees
<1>2. <<y>> \o s \in Seq(Frame)
  BY <1>1 DEF AgreeBut
<1>3. AgreeBut(<<y>> \o s, <<x>> \o (<<y>> \o s), {x[1]})
  BY <1>2, PushAgrees
<1>4. <<x, y>> \o s = <<x>> \o (<<y>> \o s)
  <2>1. <<x>> \in Seq(Frame) /\ <<y>> \in Seq(Frame)
    OBVIOUS
  <2>2. <<x>> \o <<y>> = <<x, y>>
    <3> DEFINE u == <<x>> \o <<y>>
               v == <<x, y>>
    <3>1. /\ u \in Seq(Frame) /\ Len(u) = Len(<<x>>) + Len(<<y>>)
          /\ \A i \in 1..(Len(<<x>>) + Len(<<y>>)) :
               u[i] = IF i <= Len(<<x>>) THEN <<x>>[i] ELSE <<y>>[i - Len(<<x>>)]
      BY <2>1, ConcatProperties
    <3>2. Len(<<x>>) = 1 /\ Len(<<y>>) = 1
      OBVIOUS
    <3>3. v \in Seq(Frame) /\ Len(v) = 2 /\ v[1] = x /\ v[2] = y
      OBVIOUS
    <3>4. u \in Seq(Frame) /\ Len(u) = 2 /\ u[1] = x /\ u[2] = y
      BY <3>1, <3>2
    <3> HIDE DEF u, v
    <3>5. \A i \in 1..2 : u[i] = v[i]
      BY <3>3, <3>4
    <3>6. u = v
      BY <3>3, <3>4, <3>5, SeqEqual
    <3> QED
      BY <3>6 DEF u, v
  <2>3. (<<x>> \o <<y>>) \o s = <<x>> \o (<<y>> \o s)
    BY <2>1, ConcatAssociative
  <2> QED
    BY <2>2, <2>3, Zenon
<1>5. AgreeBut(s, <<x>> \o (<<y>> \o s), {y[1]} \cup {x[1]})
  BY <1>1, <1>3, AgreeTwice
<1>6. {y[1]} \cup {x[1]} = {x[1], y[1]}
  OBVIOUS
<1> QED
  BY <1>4, <1>5, <1>6

(* finish_tsfn_release.                                                    *)
LEMMA FinishAgrees ==
  ASSUME NEW y \in Function, NEW s \in Seq(Frame)
  PROVE  AgreeBut(s, FinishFrames(y) \o s, {"batch", "finish"})
<1>1. y.items \in Seq(Payloads)
  BY FunctionTypes
<1>2. CASE y.finish
  <2>1. FinishFrames(y) \o s = s
    BY <1>2, FinishFramesAre, ConcatEmptySeq
  <2> QED
    BY <2>1, AgreeSame
<1>3. CASE ~y.finish
  <2> DEFINE b == BatchOf(y.items)
             x == << <<"finish">> >>
  <2>1. FinishFrames(y) = b \o x
    BY <1>3, FinishFramesAre
  <2>2. <<"finish">> \in Frame
    BY DEF Frame
  <2>3. AgreeBut(s, x \o s, {<<"finish">>[1]}) /\ x \in Seq(Frame)
    BY <2>2, PushAgrees
  <2>4. b \in Seq(Frame)
    BY <1>1, BatchFrames
  <2>5. x \o s \in Seq(Frame)
    BY <2>3 DEF AgreeBut
  <2>6. AgreeBut(x \o s, b \o (x \o s), {"batch"})
    BY <1>1, <2>5, BatchFrames
  <2>7. (b \o x) \o s = b \o (x \o s)
    BY <2>3, <2>4, ConcatAssociative
  <2>8. AgreeBut(s, b \o (x \o s), {<<"finish">>[1]} \cup {"batch"})
    BY <2>3, <2>6, AgreeTwice
  <2>9. {<<"finish">>[1]} \cup {"batch"} = {"batch", "finish"}
    OBVIOUS
  <2> HIDE DEF b, x
  <2> QED
    BY <2>1, <2>7, <2>8, <2>9
<1> QED
  BY <1>2, <1>3

(* abort_pending_payloads above the rest of the abort.                     *)
LEMMA AbortAgrees ==
  ASSUME NEW items \in Seq(Payloads), NEW s \in Seq(Frame)
  PROVE  /\ AgreeBut(s, BatchOf(items) \o << <<"drop">> >> \o s, {"batch", "drop"})
         /\ BatchOf(items) \o << <<"drop">> >> \o s
              = BatchOf(items) \o (<< <<"drop">> >> \o s)
<1> DEFINE b == BatchOf(items)
           x == << <<"drop">> >>
<1>1. <<"drop">> \in Frame
  BY DEF Frame
<1>2. AgreeBut(s, x \o s, {<<"drop">>[1]}) /\ x \in Seq(Frame)
  BY <1>1, PushAgrees
<1>3. b \in Seq(Frame)
  BY BatchFrames
<1>4. x \o s \in Seq(Frame)
  BY <1>2 DEF AgreeBut
<1>5. AgreeBut(x \o s, b \o (x \o s), {"batch"})
  BY <1>4, BatchFrames
<1>6. (b \o x) \o s = b \o (x \o s)
  BY <1>2, <1>3, ConcatAssociative
<1>7. AgreeBut(s, b \o (x \o s), {<<"drop">>[1]} \cup {"batch"})
  BY <1>2, <1>5, AgreeTwice
<1>8. {<<"drop">>[1]} \cup {"batch"} = {"batch", "drop"}
  OBVIOUS
<1> HIDE DEF b, x
<1> QED
  BY <1>6, <1>7, <1>8 DEF b, x

(* The callback of the first payload above the rest of the batch.          *)
LEMMA ConsumeAgrees ==
  ASSUME NEW s \in Seq(Frame), s # <<>>, Head(s)[1] = "batch",
         NEW op \in {"call", "teardown"}
  PROVE  LET b == Head(s)[2]
             t == << <<op, Head(b)>> >> \o BatchOf(Tail(b)) \o Tail(s)
         IN  /\ b \in NonEmpty /\ Head(s) = <<"batch", b>> /\ Head(b) \in Payloads
             /\ Tail(b) \in Seq(Payloads)
             /\ AgreeBut(s, t, {"batch", "call", "teardown"})
             /\ \A p \in Payloads :
                  Count(t, BatchWith(p)) = Count(BatchOf(Tail(b)), BatchWith(p))
                                             + Count(Tail(s), BatchWith(p))
             /\ Count(t, Twice) = Count(BatchOf(Tail(b)), Twice) + Count(Tail(s), Twice)
<1> DEFINE b == Head(s)[2]
           x == <<op, Head(b)>>
           c == BatchOf(Tail(b))
           r == Tail(s)
<1>1. Head(s) \in Frame /\ r \in Seq(Frame)
  BY HeadTailProperties
<1>2. b \in NonEmpty /\ Head(s) = <<"batch", b>>
  BY <1>1, MarkKinds
<1>3. Head(b) \in Payloads /\ Tail(b) \in Seq(Payloads)
  BY <1>2, HeadTailProperties DEF NonEmpty
<1>4. x \in Frame
  BY <1>3 DEF Frame
<1>5. c \in Seq(Frame) /\ AgreeBut(r, c \o r, {"batch"})
  BY <1>1, <1>3, BatchFrames
<1>6. AgreeBut(s, r, {"batch"})
  BY PopAgrees
<1>7. AgreeBut(s, c \o r, {"batch"})
  <2>1. {"batch"} \cup {"batch"} = {"batch"}
    OBVIOUS
  <2> HIDE DEF c, r
  <2> QED
    BY <1>5, <1>6, <2>1, AgreeTwice
<1>8. c \o r \in Seq(Frame) /\ <<x>> \in Seq(Frame)
  BY <1>4, <1>7 DEF AgreeBut
<1>9. AgreeBut(c \o r, <<x>> \o (c \o r), {x[1]})
  BY <1>4, <1>8, PushAgrees
<1>10. (<<x>> \o c) \o r = <<x>> \o (c \o r)
  BY <1>1, <1>5, <1>8, ConcatAssociative
<1>11. AgreeBut(s, <<x>> \o (c \o r), {"batch", "call", "teardown"})
  <2>1. AgreeBut(s, <<x>> \o (c \o r), {"batch"} \cup {x[1]})
    <3> HIDE DEF c, r, x
    <3> QED
      BY <1>7, <1>9, AgreeTwice
  <2>2. {"batch"} \cup {x[1]} \subseteq {"batch", "call", "teardown"}
    OBVIOUS
  <2> HIDE DEF c, r, x
  <2> QED
    BY <2>1, <2>2, AgreeMore
<1>12. \A M : x \notin M => Count(<<x>> \o (c \o r), M) = Count(c, M) + Count(r, M)
  <2> HIDE DEF c, r, x
  <2>1. \A M : Count(<<x>> \o (c \o r), M) = Count(<<x>>, M) + Count(c \o r, M)
    BY <1>8, CountConcat
  <2>2. \A M : Count(c \o r, M) = Count(c, M) + Count(r, M)
    BY <1>1, <1>5, CountConcat
  <2>3. \A M : Count(c, M) \in Nat /\ Count(r, M) \in Nat
    BY <1>1, <1>5, CountType
  <2> QED
    BY <2>1, <2>2, <2>3, CountOne
<1>13. x \notin Twice /\ \A p \in Payloads : x \notin BatchWith(p)
  <2>1. x[1] # "batch"
    OBVIOUS
  <2> HIDE DEF x
  <2> QED
    BY <1>4, <2>1, MarkKinds
<1> HIDE DEF c, r, x, b
<1> QED
  BY <1>2, <1>3, <1>10, <1>11, <1>12, <1>13 DEF c, r, x, b

------------------------------------------------------------------------------
(* Every step keeps the counters exact.                                    *)

(* The conjuncts of CInv, one variable at a time.                          *)
LEMMA CInvBy ==
  ASSUME d' \in Driver, f' \in Function, work' \in [Works -> Item], js' \in Seq(Frame),
         loop' \in LoopStates, tail' \in BOOLEAN, th' \in [Threads -> Thread],
         pay' \in [Payloads -> Owners], env' \in [state : EnvStates, roots : BOOLEAN],
         Counted(d', work', js', f'.idle), RootsGone'
  PROVE  CInv'
BY DEF CInv, Types

(* A driver with the same jobs and counters.                               *)
LEMMA SameCounted ==
  ASSUME NEW x, NEW y, NEW wk, NEW s, NEW i, Counted(x, wk, s, i),
         y.jobs = x.jobs, y.pending = x.pending, y.inflight = x.inflight, y.idle = x.idle
  PROVE  Counted(y, wk, s, i)
BY DEF Counted

(* A step of the stack alone.                                              *)
LEMMA StackCounted ==
  ASSUME CInv, NEW y \in Driver, NEW s, NEW K, AgreeBut(js, s, K),
         "job" \notin K, "complete" \notin K,
         y.jobs = d.jobs, y.pending = d.pending, y.inflight = d.inflight, y.idle = d.idle
  PROVE  s \in Seq(Frame) /\ Counted(y, work, s, f.idle)
<1>1. d \in Driver /\ js \in Seq(Frame) /\ Counted(d, work, js, f.idle)
  BY DEF CInv, Types
<1>2. Adds(d, d, <<"wake">>)
  <2>1. d.pending \in Nat /\ Len(d.jobs) \in Nat /\ \A M : Count(d.jobs, M) \in Nat
    BY <1>1, DriverTypes
  <2> QED
    BY <1>1, <2>1 DEF Adds
<1>3. \A v \in Works, r \in Outcome : <<"wake">> \notin DoneJob(v, r)
  BY DEF DoneJob
<1>4. Counted(d, work, s, f.idle)
  BY <1>1, <1>2, <1>3, AddsCounted
<1> QED
  BY <1>4, SameCounted DEF AgreeBut

(* drain_threadsafe_functions pushes a batch at most.                      *)
LEMMA DrainThreadsafeIs ==
  ASSUME NEW stack \in Seq(Frame), f \in Function, DrainThreadsafeFunctions(stack)
  PROVE  /\ AgreeBut(stack, js', {"batch"}) /\ f' \in Function /\ f'.idle = f.idle
<1>1. f.items \in Seq(Payloads)
  BY FunctionTypes
<1>2. CASE f.reg
  <2>1. js' = BatchOf(f.items) \o stack /\ f' = TakeAll(f)
    BY <1>2 DEF DrainThreadsafeFunctions, Batch
  <2> QED
    BY <1>1, <2>1, BatchFrames, TakeAllIs
<1>3. CASE ~f.reg
  <2>1. js' = stack /\ f' = f
    BY <1>3 DEF DrainThreadsafeFunctions
  <2> QED
    BY <2>1, AgreeSame
<1> QED
  BY <1>2, <1>3

(* The steps of the JavaScript thread's stack.                             *)
LEMMA StackStepsCInv ==
  ASSUME CInv,
         \/ Poll \/ DrainJob \/ DrainEnd \/ JobEnd \/ DrainTsfns \/ Consume
         \/ CallReturns \/ CompleteReturns \/ FinishRelease
  PROVE  CInv'
<1>0. /\ Types /\ Counted(d, work, js, f.idle) /\ RootsGone
      /\ d \in Driver /\ f \in Function /\ work \in [Works -> Item] /\ js \in Seq(Frame)
      /\ loop \in LoopStates /\ tail \in BOOLEAN /\ th \in [Threads -> Thread]
      /\ pay \in [Payloads -> Owners] /\ env \in [state : EnvStates, roots : BOOLEAN]
  BY DEF CInv, Types
<1>1. CASE Poll
  <2> DEFINE spawn == d.pending > 0 /\ ~d.running
  <2>1. /\ d' = (IF spawn THEN SpawnLoop(d) ELSE d)
        /\ loop' = (IF spawn THEN "spawned" ELSE loop)
        /\ work' = work /\ tail' = tail /\ th' = th /\ pay' = pay /\ env' = env
    BY <1>1 DEF Poll
  <2>2. /\ d' \in Driver /\ d'.jobs = d.jobs /\ d'.pending = d.pending
        /\ d'.inflight = d.inflight /\ d'.idle = d.idle
    BY <1>0, <2>1, SpawnHolds DEF Holds
  <2>3. loop' \in LoopStates
    BY <1>0, <2>1 DEF LoopStates
  <2>4. \E K : /\ AgreeBut(js, js', K) /\ "job" \notin K /\ "complete" \notin K
               /\ f' \in Function /\ f'.idle = f.idle
    <3>1. CASE RxFree
      <4>1. js' = << <<"drain">>, <<"tsfns">> >> \o js /\ f' = f
        BY <1>1, <3>1 DEF Poll
      <4>2. <<"drain">> \in Frame /\ <<"tsfns">> \in Frame
        BY DEF Frame
      <4>3. AgreeBut(js, js', {<<"drain">>[1], <<"tsfns">>[1]})
        BY <1>0, <4>1, <4>2, PushTwoAgrees
      <4>4. {<<"drain">>[1], <<"tsfns">>[1]} = {"drain", "tsfns"}
        OBVIOUS
      <4> QED
        BY <1>0, <4>1, <4>3, <4>4
    <3>2. CASE ~RxFree
      <4>1. DrainThreadsafeFunctions(js)
        BY <1>1, <3>2 DEF Poll
      <4> QED
        BY <1>0, <4>1, DrainThreadsafeIs
    <3> QED
      BY <3>1, <3>2
  <2>5. js' \in Seq(Frame) /\ Counted(d', work, js', f.idle)
    BY <2>2, <2>4, StackCounted
  <2>6. RootsGone'
    BY <1>0, <2>1, <2>2 DEF RootsGone
  <2> QED
    BY <1>0, <2>1, <2>2, <2>3, <2>4, <2>5, <2>6, CInvBy
<1>2. CASE DrainJob
  <2>1. /\ d.jobs # <<>> /\ TakeJob(js)
        /\ loop' = loop /\ tail' = tail /\ th' = th /\ pay' = pay /\ env' = env
    BY <1>2 DEF DrainJob
  <2>2. /\ d' \in Driver /\ f' \in Function /\ work' \in [Works -> Item]
        /\ js' \in Seq(Frame) /\ Counted(d', work', js', f'.idle) /\ d'.inflight = d.inflight
    BY <1>0, <2>1, TakeJobCounted
  <2>3. RootsGone'
    BY <1>0, <2>1, <2>2 DEF RootsGone
  <2> QED
    BY <1>0, <2>1, <2>2, <2>3, CInvBy
<1>3. CASE DrainEnd
  <2>1. /\ js # <<>> /\ Head(js) = <<"drain">> /\ js' = Tail(js)
        /\ d' = d /\ f' = f /\ work' = work
        /\ loop' = loop /\ tail' = tail /\ th' = th /\ pay' = pay /\ env' = env
    BY <1>3 DEF DrainEnd
  <2>2. AgreeBut(js, js', {<<"drain">>[1]}) /\ <<"drain">>[1] = "drain"
    BY <1>0, <2>1, PopAgrees
  <2>3. js' \in Seq(Frame) /\ Counted(d', work, js', f.idle)
    BY <1>0, <2>1, <2>2, StackCounted
  <2>4. RootsGone'
    BY <1>0, <2>1 DEF RootsGone
  <2> QED
    BY <1>0, <2>1, <2>3, <2>4, CInvBy
<1>4. CASE JobEnd
  <2>1. /\ js # <<>> /\ Head(js) = <<"job">> /\ js' = Tail(js) /\ d' = DecPending(d)
        /\ f' = f /\ work' = work
        /\ loop' = loop /\ tail' = tail /\ th' = th /\ pay' = pay /\ env' = env
    BY <1>4 DEF JobEnd
  <2>2. AgreeBut(js, js', {"job"})
    BY <1>0, <2>1, PopAgrees
  <2>3. Count(js, Plain("job")) = Count(js', Plain("job")) + 1
    <3>1. <<"job">> \in Plain("job")
      BY DEF Plain
    <3> QED
      BY <1>0, <2>1, <3>1, CountTail
  <2>4. /\ js' \in Seq(Frame) /\ Count(js', Plain("job")) \in Nat
        /\ Len(d.jobs) \in Nat /\ d.pending \in Nat
        /\ d.pending = Len(d.jobs) + Count(js, Plain("job"))
    BY <1>0, <2>2, CountType, DriverTypes DEF AgreeBut, Counted
  <2>5. /\ d' \in Driver /\ d'.jobs = d.jobs /\ d'.pending = d.pending - 1
        /\ d'.inflight = d.inflight /\ d'.idle = d.idle
    BY <1>0, <2>1, <2>3, <2>4, DecPendingHolds DEF Holds
  <2>6. d'.pending = Len(d'.jobs) + Count(js', Plain("job"))
    BY <2>3, <2>4, <2>5
  <2>7. \A v \in Works : Count(js', CompleteFrame(v)) = Count(js, CompleteFrame(v))
    BY <2>2 DEF AgreeBut
  <2>8. Counted(d', work, js', f.idle)
    <3>1. d.idle = f.idle
      BY <1>0 DEF Counted
    <3> QED
      BY <1>0, <2>5, <2>6, <2>7, <3>1, KeepsCounted
  <2>9. RootsGone'
    BY <1>0, <2>1, <2>5 DEF RootsGone
  <2> QED
    BY <1>0, <2>1, <2>4, <2>5, <2>8, <2>9, CInvBy
<1>5. CASE DrainTsfns
  <2>1. /\ js # <<>> /\ Head(js) = <<"tsfns">> /\ DrainThreadsafeFunctions(Tail(js))
        /\ d' = d /\ work' = work
        /\ loop' = loop /\ tail' = tail /\ th' = th /\ pay' = pay /\ env' = env
    BY <1>5 DEF DrainTsfns
  <2>2. AgreeBut(js, Tail(js), {"tsfns"}) /\ Tail(js) \in Seq(Frame)
    BY <1>0, <2>1, PopAgrees DEF AgreeBut
  <2>3. AgreeBut(Tail(js), js', {"batch"}) /\ f' \in Function /\ f'.idle = f.idle
    BY <1>0, <2>1, <2>2, DrainThreadsafeIs
  <2>4. AgreeBut(js, js', {"tsfns"} \cup {"batch"})
    BY <2>2, <2>3, AgreeTwice
  <2>5. js' \in Seq(Frame) /\ Counted(d', work, js', f.idle)
    BY <1>0, <2>1, <2>4, StackCounted
  <2>6. RootsGone'
    BY <1>0, <2>1 DEF RootsGone
  <2> QED
    BY <1>0, <2>1, <2>3, <2>5, <2>6, CInvBy
<1>6. CASE Consume
  <2> DEFINE p == Head(Head(js)[2])
             op == IF f.aborted THEN "teardown" ELSE "call"
  <2>1. /\ js # <<>> /\ Head(js)[1] = "batch"
        /\ js' = << <<op, p>> >> \o BatchOf(Tail(Head(js)[2])) \o Tail(js)
        /\ pay' = [pay EXCEPT ![p] = IF f.aborted THEN "torn" ELSE "delivered"]
        /\ d' = d /\ f' = f /\ work' = work /\ loop' = loop /\ tail' = tail
        /\ th' = th /\ env' = env
    BY <1>6 DEF Consume
  <2>2. op \in {"call", "teardown"}
    OBVIOUS
  <2> HIDE DEF op
  <2>3. p \in Payloads /\ AgreeBut(js, js', {"batch", "call", "teardown"})
    BY <1>0, <2>1, <2>2, ConsumeAgrees
  <2> HIDE DEF p
  <2>4. pay' \in [Payloads -> Owners]
    BY <1>0, <2>1, <2>3 DEF Owners
  <2>5. js' \in Seq(Frame) /\ Counted(d', work, js', f.idle)
    BY <1>0, <2>1, <2>3, StackCounted
  <2>6. RootsGone'
    BY <1>0, <2>1 DEF RootsGone
  <2> QED
    BY <1>0, <2>1, <2>4, <2>5, <2>6, CInvBy
<1>7. CASE CallReturns
  <2>1. /\ js # <<>> /\ Head(js)[1] \in {"call", "teardown"} /\ js' = Tail(js)
        /\ d' = d /\ f' = f /\ work' = work
        /\ loop' = loop /\ tail' = tail /\ th' = th /\ pay' = pay /\ env' = env
    BY <1>7 DEF CallReturns
  <2>2. AgreeBut(js, js', {Head(js)[1]})
    BY <1>0, <2>1, PopAgrees
  <2>3. js' \in Seq(Frame) /\ Counted(d', work, js', f.idle)
    BY <1>0, <2>1, <2>2, StackCounted
  <2>4. RootsGone'
    BY <1>0, <2>1 DEF RootsGone
  <2> QED
    BY <1>0, <2>1, <2>3, <2>4, CInvBy
<1>8. CASE CompleteReturns
  <2> DEFINE w == Head(js)[2]
  <2>1. /\ js # <<>> /\ Head(js)[1] = "complete" /\ js' = Tail(js) /\ d' = ReleaseKeepalive(d)
        /\ f' = f /\ work' = work
        /\ loop' = loop /\ tail' = tail /\ th' = th /\ pay' = pay /\ env' = env
    BY <1>8 DEF CompleteReturns
  <2>2. Head(js) \in Frame /\ js' \in Seq(Frame)
    BY <1>0, <2>1, HeadTailProperties
  <2>3. w \in Works /\ Head(js) = <<"complete", w>>
    BY <2>1, <2>2, MarkKinds
  <2> HIDE DEF w
  <2>4. \A v \in Works : <<"complete", w>> \in CompleteFrame(v) <=> v = w
    BY DEF CompleteFrame
  <2>5. \A v \in Works : Count(js, CompleteFrame(v))
                           = Count(js', CompleteFrame(v)) + (IF v = w THEN 1 ELSE 0)
    BY <1>0, <2>1, <2>3, <2>4, CountTail
  <2>6. AgreeBut(js, js', {"complete"})
    BY <1>0, <2>1, PopAgrees
  <2>7. /\ \A M : Count(js, M) \in Nat /\ Count(js', M) \in Nat /\ Count(d.jobs, M) \in Nat
        /\ d.inflight \in Nat /\ Len(d.jobs) \in Nat /\ d.pending \in Nat
    BY <1>0, <2>2, CountType, DriverTypes
  <2> DEFINE a == Count(d.jobs, DoneJob(w, "ok"))
             b == Count(d.jobs, DoneJob(w, "cancelled"))
             c == Count(js, CompleteFrame(w))
             c1 == Count(js', CompleteFrame(w))
  <2>8. ItemFits(work[w], a, b, c) /\ c = c1 + 1
    BY <1>0, <2>3, <2>5 DEF Counted, Fits
  <2>9. a \in Nat /\ b \in Nat /\ c \in Nat /\ c1 \in Nat
    BY <2>7
  <2>10. OwedIn(work, d.jobs, js, w) <=> Keeps(work[w], a, b, c)
    BY DEF OwedIn
  <2>11. ASSUME NEW q, Count(q, DoneJob(w, "ok")) = a, Count(q, DoneJob(w, "cancelled")) = b
         PROVE  /\ OwedIn(work, q, js', w) <=> Keeps(work[w], a, b, c1)
                /\ Fits(work, q, js', w) <=> ItemFits(work[w], a, b, c1)
    BY <2>11 DEF OwedIn, Fits
  <2> HIDE DEF a, b, c, c1
  <2>12. /\ Keeps(work[w], a, b, c) /\ ~Keeps(work[w], a, b, c1)
         /\ ItemFits(work[w], a, b, c1)
    BY <2>8, <2>9 DEF ItemFits, Keeps
  <2>13. d.inflight > 0
    <3>1. w \in OwedSet(work, d.jobs, js)
      BY <2>3, <2>10, <2>12 DEF OwedSet
    <3>2. d.inflight = Cardinality(OwedSet(work, d.jobs, js)) /\ IsFiniteSet(OwedSet(work, d.jobs, js))
      BY <1>0, OwedFinite DEF Counted
    <3> QED
      BY <2>7, <3>1, <3>2, FS_EmptySet
  <2>14. PICK z : /\ Holds(z, d.tx, d.jobs, d.pending, d.idle, d.inflight - 1, d.running, d.finished)
                  /\ Adds(z, d', <<"wake">>)
    BY <1>0, <2>1, <2>13, ReleaseAdds
  <2>15. /\ d' \in Driver /\ d'.inflight = d.inflight - 1 /\ d'.idle = d.idle
         /\ \A v \in Works, r \in Outcome : Count(d'.jobs, DoneJob(v, r)) = Count(d.jobs, DoneJob(v, r))
    <3>1. \A v \in Works, r \in Outcome : <<"wake">> \notin DoneJob(v, r)
      BY DEF DoneJob
    <3> QED
      BY <2>14, <3>1 DEF Holds, Adds
  <2>16. d'.pending = Len(d'.jobs) + Count(js', Plain("job"))
    <3>1. d'.pending + Len(d.jobs) = d.pending + Len(d'.jobs)
      BY <2>14 DEF Holds, Adds
    <3>2. d.pending = Len(d.jobs) + Count(js', Plain("job"))
      BY <1>0, <2>6 DEF Counted, AgreeBut
    <3>3. d'.pending \in Nat /\ Len(d'.jobs) \in Nat
      BY <2>15, DriverTypes
    <3>4. Count(js', Plain("job")) \in Nat /\ Len(d.jobs) \in Nat /\ d.pending \in Nat
      BY <2>7
    <3>5. ASSUME NEW k \in Nat, NEW l \in Nat, NEW m \in Nat, NEW n \in Nat, NEW o \in Nat,
                 m + k = n + l, n = k + o
          PROVE  m = l + o
      BY <3>5
    <3> QED
      BY <3>1, <3>2, <3>3, <3>4, <3>5
  <2>17. OthersKeep(work, d.jobs, js, work, d'.jobs, js', w)
    BY <2>5, <2>7, <2>15 DEF OthersKeep, Outcome
  <2>18. /\ OwedIn(work, d.jobs, js, w) /\ ~OwedIn(work, d'.jobs, js', w)
         /\ Fits(work, d'.jobs, js', w)
    <3>1. Count(d'.jobs, DoneJob(w, "ok")) = a /\ Count(d'.jobs, DoneJob(w, "cancelled")) = b
      BY <2>3, <2>15 DEF a, b, Outcome
    <3> QED
      BY <2>10, <2>11, <2>12, <3>1
  <2>19. Counted(d', work, js', f.idle)
    <3>1. d.idle = f.idle
      BY <1>0 DEF Counted
    <3>2. d'.inflight + (IF OwedIn(work, d.jobs, js, w) THEN 1 ELSE 0)
            = d.inflight + (IF OwedIn(work, d'.jobs, js', w) THEN 1 ELSE 0)
      BY <2>7, <2>15, <2>18
    <3> QED
      BY <1>0, <2>3, <2>15, <2>16, <2>17, <2>18, <3>1, <3>2, ItemCounted
  <2>20. RootsGone'
    BY <1>0, <2>1, <2>13 DEF RootsGone
  <2> QED
    BY <1>0, <2>1, <2>2, <2>15, <2>19, <2>20, CInvBy
<1>9. CASE FinishRelease
  <2> DEFINE z == [d EXCEPT !.idle = 0]
  <2>1. /\ js # <<>> /\ Head(js) = <<"finish">> /\ js' = Tail(js)
        /\ f' = [f EXCEPT !.finalized = @ + 1, !.idle = 0, !.state = "closed", !.reg = FALSE]
        /\ d' = WakeIfQuiescent([d EXCEPT !.idle = @ - f.idle]) /\ work' = work
        /\ loop' = loop /\ tail' = tail /\ th' = th /\ pay' = pay /\ env' = env
    BY <1>9 DEF FinishRelease
  <2>2. d.idle = f.idle /\ d.idle - f.idle = 0
    BY <1>0, DriverTypes DEF Counted
  <2>3. [d EXCEPT !.idle = @ - f.idle] = z
    BY <2>2
  <2>4. Holds(z, d.tx, d.jobs, d.pending, 0, d.inflight, d.running, d.finished)
    <3>1. 0 \in Nat /\ FALSE \in BOOLEAN /\ <<>> \in Seq(Job)
      OBVIOUS
    <3> QED
      BY <1>0, <3>1, DriverSets
  <2> HIDE DEF z
  <2>5. Adds(z, d', <<"wake">>)
    BY <2>1, <2>3, <2>4, WakeAdds DEF Holds
  <2>6. AgreeBut(js, js', {"finish"})
    BY <1>0, <2>1, PopAgrees
  <2>7. Counted(z, work, js, 0)
    BY <1>0, <2>4 DEF Counted, Holds
  <2>8. Counted(d', work, js', 0)
    <3>1. \A v \in Works, r \in Outcome : <<"wake">> \notin DoneJob(v, r)
      BY DEF DoneJob
    <3> QED
      BY <1>0, <2>4, <2>5, <2>6, <2>7, <3>1, AddsCounted DEF Holds
  <2>9. f' \in Function /\ f'.idle = 0
    <3>1. f.finalized + 1 \in Nat
      BY <1>0, FunctionTypes
    <3> QED
      BY <1>0, <2>1, <3>1 DEF Function
  <2>10. d' \in Driver /\ d'.inflight = d.inflight /\ js' \in Seq(Frame)
    BY <2>4, <2>5, <2>6 DEF Holds, Adds, AgreeBut
  <2>11. RootsGone'
    BY <1>0, <2>1, <2>10 DEF RootsGone
  <2> QED
    BY <1>0, <2>1, <2>8, <2>9, <2>10, <2>11, CInvBy
<1> QED
  BY <1>1, <1>2, <1>3, <1>4, <1>5, <1>6, <1>7, <1>8, <1>9

(* A drain is the first frame of the stack.                                *)
LEMMA FirstDrain ==
  AgreeBut(<<>>, << <<"drain">> >>, {"drain"})
<1>1. <<"drain">> \in Frame
  BY DEF Frame
<1>2. <<>> \in Seq(Frame) /\ << <<"drain">> >> \in Seq(Frame)
  BY <1>1
<1>3. AgreeBut(<<>>, << <<"drain">> >> \o <<>>, {<<"drain">>[1]})
  BY <1>1, <1>2, PushAgrees
<1>4. << <<"drain">> >> \o <<>> = << <<"drain">> >> /\ <<"drain">>[1] = "drain"
  BY <1>2, ConcatEmptySeq
<1> QED
  BY <1>3, <1>4

(* The steps of run_loop.                                                  *)
LEMMA LoopStepsCInv ==
  ASSUME CInv,
         \/ LoopTop \/ LoopTry \/ LoopRecv \/ LoopDrain \/ LoopExit \/ LoopLast \/ LoopTail
  PROVE  CInv'
<1>0. /\ Types /\ Counted(d, work, js, f.idle) /\ RootsGone
      /\ d \in Driver /\ f \in Function /\ work \in [Works -> Item] /\ js \in Seq(Frame)
      /\ loop \in LoopStates /\ tail \in BOOLEAN /\ th \in [Threads -> Thread]
      /\ pay \in [Payloads -> Owners] /\ env \in [state : EnvStates, roots : BOOLEAN]
  BY DEF CInv, Types
<1>1. ASSUME d.jobs # <<>>, TakeJob(js), loop' \in LoopStates,
             UNCHANGED <<tail, th, pay, env>>
      PROVE  CInv'
  <2>1. /\ d' \in Driver /\ f' \in Function /\ work' \in [Works -> Item]
        /\ js' \in Seq(Frame) /\ Counted(d', work', js', f'.idle) /\ d'.inflight = d.inflight
    BY <1>0, <1>1, TakeJobCounted
  <2>2. RootsGone'
    BY <1>0, <1>1, <2>1 DEF RootsGone
  <2> QED
    BY <1>0, <1>1, <2>1, <2>2, CInvBy
<1>2. ASSUME NEW s, NEW y \in Driver, AgreeBut(js, s, {"drain"}),
             y.jobs = d.jobs, y.pending = d.pending, y.inflight = d.inflight, y.idle = d.idle,
             d' = y, js' = s, loop' \in LoopStates, tail' \in BOOLEAN,
             UNCHANGED <<f, work, th, pay, env>>
      PROVE  CInv'
  <2>1. s \in Seq(Frame) /\ Counted(y, work, s, f.idle)
    BY <1>2, StackCounted
  <2>2. RootsGone'
    BY <1>0, <1>2 DEF RootsGone
  <2> QED
    BY <1>0, <1>2, <2>1, <2>2, CInvBy
<1>3. AgreeBut(js, js, {"drain"})
  BY <1>0, AgreeSame
<1>4. js = <<>> => AgreeBut(js, << <<"drain">> >>, {"drain"})
  BY FirstDrain
<1>5. /\ Holds([d EXCEPT !.running = FALSE], d.tx, d.jobs, d.pending, d.idle,
               d.inflight, FALSE, d.finished)
      /\ Holds([d EXCEPT !.finished = TRUE], d.tx, d.jobs, d.pending, d.idle,
               d.inflight, d.running, TRUE)
  <2>1. 0 \in Nat /\ FALSE \in BOOLEAN /\ <<>> \in Seq(Job)
    OBVIOUS
  <2> QED
    BY <1>0, <2>1, DriverSets
<1>6. CASE LoopTop
  <2>1. /\ d' = d /\ js' = js /\ loop' \in {"try", "recv"} /\ tail' = tail
        /\ UNCHANGED <<f, work, th, pay, env>>
    BY <1>6 DEF LoopTop
  <2> QED
    BY <1>0, <1>2, <1>3, <2>1 DEF LoopStates
<1>7. CASE LoopTry
  <2>1. CASE d.jobs # <<>> /\ loop' = "top" /\ TakeJob(js) /\ UNCHANGED <<tail, th, pay, env>>
    BY <1>1, <2>1 DEF LoopStates
  <2>2. CASE /\ d' = d /\ js' = js /\ loop' \in {"exit", "drain"} /\ tail' = tail
             /\ UNCHANGED <<f, work, th, pay, env>>
    BY <1>0, <1>2, <1>3, <2>2 DEF LoopStates
  <2> QED
    BY <1>7, <2>1, <2>2 DEF LoopTry
<1>8. CASE LoopRecv
  <2>1. CASE d.jobs # <<>> /\ loop' = "top" /\ TakeJob(js) /\ UNCHANGED <<tail, th, pay, env>>
    BY <1>1, <2>1 DEF LoopStates
  <2>2. CASE /\ d' = d /\ js' = js /\ loop' = "drain" /\ tail' = tail
             /\ UNCHANGED <<f, work, th, pay, env>>
    BY <1>0, <1>2, <1>3, <2>2 DEF LoopStates
  <2> QED
    BY <1>8, <2>1, <2>2 DEF LoopRecv
<1>9. CASE LoopDrain
  <2>1. CASE /\ d' = d /\ js' = << <<"drain">> >> /\ loop' = loop /\ tail' = tail
             /\ UNCHANGED <<f, work, th, pay, env>> /\ js = <<>>
    BY <1>0, <1>2, <1>4, <2>1
  <2>2. CASE /\ d' = d /\ js' = js /\ loop' = "exit" /\ tail' = tail
             /\ UNCHANGED <<f, work, th, pay, env>>
    BY <1>0, <1>2, <1>3, <2>2 DEF LoopStates
  <2> QED
    BY <1>9, <2>1, <2>2 DEF LoopDrain
<1>10. CASE LoopExit
  <2>1. /\ d' = [d EXCEPT !.running = FALSE] /\ js' = js /\ loop' = "last" /\ tail' = tail
        /\ UNCHANGED <<f, work, th, pay, env>>
    BY <1>10 DEF LoopExit
  <2>2. /\ d' \in Driver /\ d'.jobs = d.jobs /\ d'.pending = d.pending
        /\ d'.inflight = d.inflight /\ d'.idle = d.idle
    BY <1>5, <2>1 DEF Holds
  <2> QED
    BY <1>0, <1>2, <1>3, <2>1, <2>2 DEF LoopStates
<1>11. CASE LoopLast
  <2>1. js = <<>> /\ loop' = "none" /\ UNCHANGED <<f, work, th, pay, env>>
    BY <1>11 DEF LoopLast
  <2>2. \/ d' = [d EXCEPT !.finished = TRUE] /\ js' = js /\ tail' = tail
        \/ js' = << <<"drain">> >> /\ tail' = TRUE /\ d' = d
    BY <1>11 DEF LoopLast
  <2>3. /\ d' \in Driver /\ d'.jobs = d.jobs /\ d'.pending = d.pending
        /\ d'.inflight = d.inflight /\ d'.idle = d.idle /\ tail' \in BOOLEAN
    BY <1>0, <1>5, <2>2 DEF Holds
  <2>4. AgreeBut(js, js', {"drain"})
    BY <1>3, <1>4, <2>1, <2>2
  <2> QED
    BY <1>2, <2>1, <2>3, <2>4 DEF LoopStates
<1>12. CASE LoopTail
  <2>1. js = <<>> /\ loop' = loop /\ UNCHANGED <<f, work, th, pay, env>>
    BY <1>12 DEF LoopTail, Idle
  <2>2. \/ d' = [d EXCEPT !.finished = TRUE] /\ js' = js /\ tail' = FALSE
        \/ js' = << <<"drain">> >> /\ tail' = tail /\ d' = d
    BY <1>12 DEF LoopTail
  <2>3. /\ d' \in Driver /\ d'.jobs = d.jobs /\ d'.pending = d.pending
        /\ d'.inflight = d.inflight /\ d'.idle = d.idle /\ tail' \in BOOLEAN
    BY <1>0, <1>5, <2>2 DEF Holds
  <2>4. AgreeBut(js, js', {"drain"})
    BY <1>3, <1>4, <2>1, <2>2
  <2> QED
    BY <1>0, <1>2, <2>1, <2>3, <2>4
<1> QED
  BY <1>6, <1>7, <1>8, <1>9, <1>10, <1>11, <1>12

(* The completion of item w goes to the channel, or, when the channel is   *)
(* closed, is dropped with its keepalive.                                  *)
LEMMA PostCompleteIs ==
  ASSUME NEW x \in Driver, x.inflight > 0, NEW w \in Works, NEW r \in Outcome,
         NEW n \in Nat, x.pending = Len(x.jobs) + n
  PROVE  LET y == PostComplete(x, <<"done", w, r>>)
         IN  /\ y \in Driver /\ y.idle = x.idle /\ y.tx = x.tx
             /\ y.running = x.running /\ y.finished = x.finished
             /\ y.pending = Len(y.jobs) + n
             /\ y.inflight = x.inflight - (IF x.tx THEN 0 ELSE 1)
             /\ \A v \in Works, o \in Outcome :
                  Count(y.jobs, DoneJob(v, o))
                    = Count(x.jobs, DoneJob(v, o)) + (IF x.tx /\ v = w /\ o = r THEN 1 ELSE 0)
             /\ Count(y.jobs, Plain("tsfn")) = Count(x.jobs, Plain("tsfn"))
             /\ ~x.tx => y.jobs = x.jobs
<1> DEFINE j == <<"done", w, r>>
           y == PostComplete(x, j)
<1>1. /\ \A v \in Works, o \in Outcome : j \in DoneJob(v, o) <=> v = w /\ o = r
      /\ \A v \in Works, o \in Outcome : <<"wake">> \notin DoneJob(v, o)
      /\ j \notin Plain("tsfn") /\ <<"wake">> \notin Plain("tsfn")
  BY DEF DoneJob, Plain
<1>2. j \in Job
  BY DEF Job
<1>3. /\ x.pending \in Nat /\ Len(x.jobs) \in Nat /\ x.inflight \in Nat /\ x.tx \in BOOLEAN
      /\ \A M : Count(x.jobs, M) \in Nat
  BY DriverTypes
<1>4. ASSUME NEW z, y \in Driver, z.pending = x.pending, z.jobs = x.jobs,
             y.pending + Len(z.jobs) = z.pending + Len(y.jobs)
      PROVE  y.pending = Len(y.jobs) + n
  <2>1. y.pending \in Nat /\ Len(y.jobs) \in Nat
    BY <1>4, DriverTypes
  <2> HIDE DEF y
  <2>2. y.pending + Len(x.jobs) = x.pending + Len(y.jobs)
    BY <1>4
  <2> DEFINE k == Len(x.jobs)
             l == Len(y.jobs)
             m == y.pending
             e == x.pending
  <2>3. /\ k \in Nat /\ l \in Nat /\ m \in Nat /\ e \in Nat /\ m + k = e + l /\ e = k + n
    BY <1>3, <2>1, <2>2
  <2> HIDE DEF k, l, m, e
  <2>4. m = l + n
    BY <2>3
  <2> QED
    BY <2>4 DEF l, m
<1>5. CASE x.tx
  <2>1. y = Post(x, j)
    BY <1>5 DEF PostComplete
  <2>2. /\ Adds(x, y, j)
        /\ \A M : Count(y.jobs, M) = Count(x.jobs, M) + (IF x.tx /\ j \in M THEN 1 ELSE 0)
    BY <1>2, <2>1, PostAdds
  <2> HIDE DEF y, j
  <2>3. /\ y \in Driver /\ y.idle = x.idle /\ y.tx = x.tx /\ y.inflight = x.inflight
        /\ y.running = x.running /\ y.finished = x.finished
        /\ y.pending + Len(x.jobs) = x.pending + Len(y.jobs)
    BY <2>2 DEF Adds
  <2>4. y.pending = Len(y.jobs) + n
    BY <1>4, <2>3
  <2>5. \A v \in Works, o \in Outcome :
          Count(y.jobs, DoneJob(v, o))
            = Count(x.jobs, DoneJob(v, o)) + (IF x.tx /\ v = w /\ o = r THEN 1 ELSE 0)
    BY <1>1, <2>2
  <2>6. Count(y.jobs, Plain("tsfn")) = Count(x.jobs, Plain("tsfn"))
    BY <1>1, <1>3, <2>2
  <2>7. y.inflight = x.inflight - (IF x.tx THEN 0 ELSE 1)
    BY <1>3, <1>5, <2>3
  <2> QED
    BY <1>5, <2>3, <2>4, <2>5, <2>6, <2>7 DEF y, j
<1>6. CASE ~x.tx
  <2>1. y = ReleaseKeepalive(x)
    BY <1>6 DEF PostComplete
  <2>2. PICK z : /\ Holds(z, x.tx, x.jobs, x.pending, x.idle, x.inflight - 1, x.running, x.finished)
                 /\ Adds(z, y, <<"wake">>)
    BY <2>1, ReleaseAdds
  <2> HIDE DEF y, j
  <2>3. /\ y \in Driver /\ y.idle = x.idle /\ y.tx = x.tx /\ y.inflight = x.inflight - 1
        /\ y.running = x.running /\ y.finished = x.finished /\ y.jobs = x.jobs
        /\ y.pending + Len(z.jobs) = z.pending + Len(y.jobs)
        /\ z.pending = x.pending /\ z.jobs = x.jobs
    BY <1>6, <2>2 DEF Adds, Holds
  <2>4. y.pending = Len(y.jobs) + n
    BY <1>4, <2>3
  <2>5. /\ y.inflight = x.inflight - (IF x.tx THEN 0 ELSE 1)
        /\ Count(y.jobs, Plain("tsfn")) = Count(x.jobs, Plain("tsfn"))
        /\ \A v \in Works, o \in Outcome :
             Count(y.jobs, DoneJob(v, o))
               = Count(x.jobs, DoneJob(v, o)) + (IF x.tx /\ v = w /\ o = r THEN 1 ELSE 0)
    BY <1>3, <1>6, <2>3
  <2> QED
    BY <2>3, <2>4, <2>5 DEF y, j
<1> QED
  BY <1>3, <1>5, <1>6

(* Item w ends its task and its completion is posted.  x is the driver     *)
(* with the keepalive of w.                                                *)
LEMMA WorkPosts ==
  ASSUME CInv, NEW w \in Works, NEW r \in Outcome, NEW wk, NEW x \in Driver,
         work[w].task # "ended", \A v \in Works \ {w} : wk[v] = work[v],
         wk[w].task = "ended", wk[w].done = 0, ~wk[w].posted, wk[w].out = "none", wk[w].st # "created",
         wk[w].st # "queued", r = "ok" => wk[w].st = "running",
         r = "cancelled" => wk[w].st = "cancelled",
         x.jobs = d.jobs, x.pending = d.pending, x.idle = d.idle,
         x.inflight = d.inflight + (IF work[w].task = "none" THEN 1 ELSE 0)
  PROVE  LET y == PostComplete(x, <<"done", w, r>>)
         IN  /\ y \in Driver /\ Counted(y, wk, js, f.idle) /\ x.inflight > 0
<1> DEFINE y == PostComplete(x, <<"done", w, r>>)
           a == Count(d.jobs, DoneJob(w, "ok"))
           b == Count(d.jobs, DoneJob(w, "cancelled"))
           c == Count(js, CompleteFrame(w))
           a1 == Count(y.jobs, DoneJob(w, "ok"))
           b1 == Count(y.jobs, DoneJob(w, "cancelled"))
<1>1. /\ d \in Driver /\ js \in Seq(Frame) /\ Counted(d, work, js, f.idle)
      /\ work[w] \in Item
  BY DEF CInv, Types
<1>2. /\ \A M : Count(js, M) \in Nat /\ Count(d.jobs, M) \in Nat
      /\ d.inflight \in Nat /\ d.idle = f.idle
      /\ d.pending = Len(d.jobs) + Count(js, Plain("job"))
  BY <1>1, CountType, DriverTypes DEF Counted
<1>3. ItemFits(work[w], a, b, c) /\ a \in Nat /\ b \in Nat /\ c \in Nat
  BY <1>1, <1>2 DEF Counted, Fits
<1> HIDE DEF a, b, c
<1>4. a = 0 /\ b = 0 /\ c = 0
  BY <1>3 DEF ItemFits
<1>5. Keeps(work[w], a, b, c) <=> work[w].task # "none"
  BY <1>1, <1>4 DEF Keeps, Item
<1>6. OwedIn(work, d.jobs, js, w) <=> work[w].task # "none"
  BY <1>5 DEF OwedIn, a, b, c
<1>7. x.inflight > 0
  <2>1. CASE work[w].task = "none"
    BY <1>2, <2>1
  <2>2. CASE work[w].task # "none"
    <3>1. w \in OwedSet(work, d.jobs, js)
      BY <1>6, <2>2 DEF OwedSet
    <3>2. d.inflight = Cardinality(OwedSet(work, d.jobs, js)) /\ IsFiniteSet(OwedSet(work, d.jobs, js))
      BY <1>1, OwedFinite DEF Counted
    <3>3. d.inflight # 0
      BY <3>1, <3>2, FS_EmptySet
    <3> QED
      BY <1>2, <2>2, <3>3
  <2> QED
    BY <2>1, <2>2
<1>8. x.pending = Len(x.jobs) + Count(js, Plain("job")) /\ Count(js, Plain("job")) \in Nat
  BY <1>2
<1>9. /\ y \in Driver /\ y.idle = x.idle /\ y.pending = Len(y.jobs) + Count(js, Plain("job"))
      /\ y.inflight = x.inflight - (IF x.tx THEN 0 ELSE 1)
      /\ \A v \in Works, o \in Outcome :
           Count(y.jobs, DoneJob(v, o))
             = Count(x.jobs, DoneJob(v, o)) + (IF x.tx /\ v = w /\ o = r THEN 1 ELSE 0)
  BY <1>7, <1>8, PostCompleteIs
<1> HIDE DEF y
<1>10. /\ a1 = (IF x.tx /\ r = "ok" THEN 1 ELSE 0)
       /\ b1 = (IF x.tx /\ r = "cancelled" THEN 1 ELSE 0)
  <2>1. /\ a1 = a + (IF x.tx /\ r = "ok" THEN 1 ELSE 0)
        /\ b1 = b + (IF x.tx /\ r = "cancelled" THEN 1 ELSE 0)
    BY <1>9 DEF Outcome, a, b
  <2> HIDE DEF a1, b1
  <2> QED
    BY <1>4, <2>1
<1> HIDE DEF a1, b1
<1>11. r = "ok" \/ r = "cancelled"
  BY DEF Outcome
<1>12. ItemFits(wk[w], a1, b1, c) /\ (Keeps(wk[w], a1, b1, c) <=> x.tx)
  BY <1>4, <1>10, <1>11 DEF ItemFits, Keeps
<1>13. Fits(wk, y.jobs, js, w) /\ (OwedIn(wk, y.jobs, js, w) <=> x.tx)
  BY <1>12 DEF Fits, OwedIn, a1, b1, c
<1>14. OthersKeep(work, d.jobs, js, wk, y.jobs, js, w)
  <2>1. \A v \in Works \ {w}, o \in Outcome : Count(y.jobs, DoneJob(v, o)) = Count(d.jobs, DoneJob(v, o))
    BY <1>2, <1>9
  <2> QED
    BY <2>1 DEF OthersKeep, Outcome
<1>15. y.inflight + (IF OwedIn(work, d.jobs, js, w) THEN 1 ELSE 0)
         = d.inflight + (IF OwedIn(wk, y.jobs, js, w) THEN 1 ELSE 0)
  <2>1. y.inflight = x.inflight - (IF x.tx THEN 0 ELSE 1) /\ x.inflight \in Nat
    BY <1>9, DriverTypes
  <2> QED
    BY <1>2, <1>6, <1>13, <2>1
<1>16. Counted(y, wk, js, f.idle)
  BY <1>1, <1>2, <1>9, <1>13, <1>14, <1>15, ItemCounted
<1> QED
  BY <1>7, <1>9, <1>16 DEF y

(* The steps of an async work item.                                        *)
LEMMA WorkStepsCInv ==
  ASSUME CInv, NEW w \in Works,
         \/ QueueWork(w) \/ QueueWorkInline(w) \/ CancelWork(w)
         \/ WorkerStart(w) \/ WorkerEnd(w)
  PROVE  CInv'
<1>0. /\ Types /\ Counted(d, work, js, f.idle) /\ RootsGone
      /\ d \in Driver /\ f \in Function /\ work \in [Works -> Item] /\ js \in Seq(Frame)
      /\ loop \in LoopStates /\ tail \in BOOLEAN /\ th \in [Threads -> Thread]
      /\ pay \in [Payloads -> Owners] /\ env \in [state : EnvStates, roots : BOOLEAN]
      /\ work[w] \in Item
  BY DEF CInv, Types
<1>1. /\ d.inflight \in Nat /\ d.idle = f.idle /\ d.inflight + 1 \in Nat
      /\ d.pending = Len(d.jobs) + Count(js, Plain("job"))
      /\ \A M : Count(js, M) \in Nat /\ Count(d.jobs, M) \in Nat
  BY <1>0, CountType, DriverTypes DEF Counted
<1> DEFINE a == Count(d.jobs, DoneJob(w, "ok"))
           b == Count(d.jobs, DoneJob(w, "cancelled"))
           c == Count(js, CompleteFrame(w))
           x1 == [d EXCEPT !.inflight = d.inflight + 1]
<1>2. ItemFits(work[w], a, b, c) /\ a \in Nat /\ b \in Nat /\ c \in Nat
  BY <1>0, <1>1 DEF Counted, Fits
<1>3. \A wk : /\ Fits(wk, d.jobs, js, w) <=> ItemFits(wk[w], a, b, c)
              /\ OwedIn(wk, d.jobs, js, w) <=> Keeps(wk[w], a, b, c)
  BY DEF Fits, OwedIn
<1> HIDE DEF a, b, c
<1>4. Holds(x1, d.tx, d.jobs, d.pending, d.idle, d.inflight + 1, d.running, d.finished)
  <2>1. FALSE \in BOOLEAN /\ <<>> \in Seq(Job)
    OBVIOUS
  <2> QED
    BY <1>0, <1>1, <2>1, DriverSets
<1> HIDE DEF x1
<1>5. LoopAfterSpawn(d, loop) \in LoopStates
  BY <1>0 DEF LoopAfterSpawn, LoopStates
<1>6. ASSUME NEW y \in Driver, NEW wk, y.jobs = d.jobs, y.pending = d.pending, y.idle = d.idle,
             \A v \in Works \ {w} : wk[v] = work[v], ItemFits(wk[w], a, b, c),
             y.inflight + (IF Keeps(work[w], a, b, c) THEN 1 ELSE 0)
               = d.inflight + (IF Keeps(wk[w], a, b, c) THEN 1 ELSE 0)
      PROVE  Counted(y, wk, js, f.idle)
  <2>1. OthersKeep(work, d.jobs, js, wk, y.jobs, js, w)
    BY <1>6 DEF OthersKeep
  <2>2. Fits(wk, y.jobs, js, w)
    BY <1>3, <1>6
  <2>3. y.inflight + (IF OwedIn(work, d.jobs, js, w) THEN 1 ELSE 0)
          = d.inflight + (IF OwedIn(wk, y.jobs, js, w) THEN 1 ELSE 0)
    BY <1>3, <1>6
  <2>4. y.pending = Len(y.jobs) + Count(js, Plain("job")) /\ y.idle = f.idle
    BY <1>1, <1>6
  <2> QED
    BY <1>0, <1>6, <2>1, <2>2, <2>3, <2>4, ItemCounted
<1>7. CASE QueueWork(w)
  <2>1. /\ env.state = "active" /\ work[w].st = "created"
        /\ work' = [work EXCEPT ![w].st = "queued", ![w].task = "spawned"]
        /\ d' = SpawnLoop(x1) /\ loop' = LoopAfterSpawn(d, loop)
        /\ f' = f /\ js' = js /\ tail' = tail /\ th' = th /\ pay' = pay /\ env' = env
    BY <1>7 DEF QueueWork, x1
  <2>2. /\ work' \in [Works -> Item] /\ \A v \in Works \ {w} : work'[v] = work[v]
        /\ work'[w].st = "queued" /\ work'[w].task = "spawned"
        /\ work'[w].posted = work[w].posted /\ work'[w].out = work[w].out
        /\ work'[w].done = work[w].done
    BY <1>0, <2>1 DEF Item
  <2>3. /\ d' \in Driver /\ d'.jobs = d.jobs /\ d'.pending = d.pending /\ d'.idle = d.idle
        /\ d'.inflight = d.inflight + 1
    BY <1>4, <2>1, SpawnHolds DEF Holds
  <2>4. /\ ~Keeps(work[w], a, b, c) /\ Keeps(work'[w], a, b, c)
        /\ ItemFits(work'[w], a, b, c)
    BY <1>0, <1>2, <2>1, <2>2 DEF ItemFits, Keeps, Item
  <2>5. Counted(d', work', js', f'.idle)
    <3>1. d'.inflight + (IF Keeps(work[w], a, b, c) THEN 1 ELSE 0)
            = d.inflight + (IF Keeps(work'[w], a, b, c) THEN 1 ELSE 0)
      BY <1>1, <2>3, <2>4
    <3>2. Counted(d', work', js, f.idle)
      BY <1>6, <2>2, <2>3, <2>4, <3>1
    <3> QED
      BY <2>1, <3>2
  <2>6. RootsGone'
    BY <1>0, <2>1 DEF RootsGone
  <2> QED
    BY <1>0, <1>5, <2>1, <2>2, <2>3, <2>5, <2>6, CInvBy
<1>8. CASE QueueWorkInline(w)
  <2> DEFINE y == PostComplete(x1, <<"done", w, "ok">>)
  <2>1. /\ env.state = "active" /\ work[w].st = "created"
        /\ work' = [work EXCEPT ![w].st = "running", ![w].task = "ended"]
        /\ d' = SpawnLoop(y) /\ loop' = LoopAfterSpawn(d, loop)
        /\ f' = f /\ js' = js /\ tail' = tail /\ th' = th /\ pay' = pay /\ env' = env
    BY <1>8 DEF QueueWorkInline, x1
  <2>2. /\ work' \in [Works -> Item] /\ \A v \in Works \ {w} : work'[v] = work[v]
        /\ work'[w].st = "running" /\ work'[w].task = "ended"
        /\ work'[w].posted = work[w].posted /\ work'[w].out = work[w].out
        /\ work'[w].done = work[w].done
    BY <1>0, <2>1 DEF Item
  <2>3. work[w].task = "none" /\ ~work[w].posted /\ work[w].out = "none" /\ work[w].done = 0
    BY <1>2, <2>1 DEF ItemFits
  <2>4. /\ x1 \in Driver /\ x1.jobs = d.jobs /\ x1.pending = d.pending /\ x1.idle = d.idle
        /\ x1.inflight = d.inflight + (IF work[w].task = "none" THEN 1 ELSE 0)
    BY <1>4, <2>3 DEF Holds
  <2>5. "ok" \in Outcome
    BY DEF Outcome
  <2>6. y \in Driver /\ Counted(y, work', js, f.idle)
    BY <2>2, <2>3, <2>4, <2>5, WorkPosts
  <2> HIDE DEF y
  <2>7. d' \in Driver /\ Counted(d', work', js, f.idle)
    <3>1. /\ d' \in Driver /\ d'.jobs = y.jobs /\ d'.pending = y.pending
          /\ d'.inflight = y.inflight /\ d'.idle = y.idle
      BY <2>1, <2>6, SpawnHolds DEF Holds
    <3> QED
      BY <2>6, <3>1, SameCounted
  <2>8. RootsGone'
    BY <1>0, <2>1 DEF RootsGone
  <2> QED
    BY <1>0, <1>5, <2>1, <2>2, <2>7, <2>8, CInvBy
<1>9. CASE CancelWork(w)
  <2>1. /\ work[w].st = "queued" /\ work' = [work EXCEPT ![w].st = "cancelled"] /\ d' = d
        /\ f' = f /\ js' = js /\ loop' = loop /\ tail' = tail /\ th' = th /\ pay' = pay
        /\ env' = env
    BY <1>9 DEF CancelWork
  <2>2. /\ work' \in [Works -> Item] /\ \A v \in Works \ {w} : work'[v] = work[v]
        /\ work'[w].st = "cancelled" /\ work'[w].task = work[w].task
        /\ work'[w].posted = work[w].posted /\ work'[w].out = work[w].out
        /\ work'[w].done = work[w].done
    BY <1>0, <2>1 DEF Item
  <2>3. /\ Keeps(work[w], a, b, c) <=> Keeps(work'[w], a, b, c)
        /\ ItemFits(work'[w], a, b, c)
    BY <1>0, <1>2, <2>1, <2>2 DEF ItemFits, Keeps, Item
  <2>4. Counted(d', work', js', f'.idle)
    BY <1>0, <1>1, <1>6, <2>1, <2>2, <2>3
  <2>5. RootsGone'
    BY <1>0, <2>1 DEF RootsGone
  <2> QED
    BY <1>0, <2>1, <2>2, <2>4, <2>5, CInvBy
<1>10. ASSUME NEW r \in Outcome, work' = [work EXCEPT ![w].task = "ended"],
              d' = PostComplete(d, <<"done", w, r>>), work[w].task \in {"spawned", "executing"},
              work[w].st = IF r = "ok" THEN "running" ELSE "cancelled",
              UNCHANGED <<f, js, loop, tail, th, pay, env>>
       PROVE  CInv'
  <2>1. /\ work' \in [Works -> Item] /\ \A v \in Works \ {w} : work'[v] = work[v]
        /\ work'[w].st = work[w].st /\ work'[w].task = "ended"
        /\ work'[w].posted = work[w].posted /\ work'[w].out = work[w].out
        /\ work'[w].done = work[w].done
    BY <1>0, <1>10 DEF Item
  <2>2. /\ ~work[w].posted /\ work[w].out = "none" /\ work[w].done = 0
        /\ work[w].task # "ended" /\ work[w].task # "none"
    BY <1>2, <1>10 DEF ItemFits
  <2>3. /\ work[w].st # "created" /\ work[w].st # "queued"
        /\ (r = "ok" => work[w].st = "running") /\ (r = "cancelled" => work[w].st = "cancelled")
    BY <1>10
  <2>4. d.inflight = d.inflight + (IF work[w].task = "none" THEN 1 ELSE 0)
    BY <1>1, <2>2
  <2>5. d' \in Driver /\ Counted(d', work', js, f.idle) /\ d.inflight > 0
    <3>1. work[w].task # "ended" /\ ~work'[w].posted /\ work'[w].out = "none" /\ work'[w].done = 0
      BY <2>1, <2>2
    <3>2. /\ work'[w].st # "created" /\ work'[w].st # "queued"
          /\ (r = "ok" => work'[w].st = "running")
          /\ (r = "cancelled" => work'[w].st = "cancelled")
      BY <2>1, <2>3
    <3> DEFINE y == PostComplete(d, <<"done", w, r>>)
    <3>3. y \in Driver /\ Counted(y, work', js, f.idle) /\ d.inflight > 0
      BY <1>0, <2>1, <2>4, <3>1, <3>2, WorkPosts
    <3> QED
      BY <1>10, <3>3
  <2>6. RootsGone'
    BY <1>0, <1>10, <2>5 DEF RootsGone
  <2> QED
    BY <1>0, <1>10, <2>1, <2>5, <2>6, CInvBy
<1>11. CASE WorkerStart(w)
  <2>1. CASE /\ work[w].task = "spawned" /\ work[w].st = "queued"
             /\ work' = [work EXCEPT ![w].st = "running", ![w].task = "executing"]
             /\ d' = d /\ UNCHANGED <<f, js, loop, tail, th, pay, env>>
    <3>1. /\ work' \in [Works -> Item] /\ \A v \in Works \ {w} : work'[v] = work[v]
          /\ work'[w].st = "running" /\ work'[w].task = "executing"
          /\ work'[w].posted = work[w].posted /\ work'[w].out = work[w].out
          /\ work'[w].done = work[w].done
      BY <1>0, <2>1 DEF Item
    <3>2. /\ Keeps(work[w], a, b, c) <=> Keeps(work'[w], a, b, c)
          /\ ItemFits(work'[w], a, b, c)
      BY <1>0, <1>2, <2>1, <3>1 DEF ItemFits, Keeps, Item
    <3>3. Counted(d', work', js', f'.idle)
      BY <1>0, <1>1, <1>6, <2>1, <3>1, <3>2
    <3>4. RootsGone'
      BY <1>0, <2>1 DEF RootsGone
    <3> QED
      BY <1>0, <2>1, <3>1, <3>3, <3>4, CInvBy
  <2>2. CASE /\ work[w].task = "spawned" /\ work[w].st = "cancelled"
             /\ work' = [work EXCEPT ![w].task = "ended"]
             /\ d' = PostComplete(d, <<"done", w, "cancelled">>)
             /\ UNCHANGED <<f, js, loop, tail, th, pay, env>>
    BY <1>10, <2>2 DEF Outcome
  <2> QED
    BY <1>11, <2>1, <2>2 DEF WorkerStart
<1>12. CASE WorkerEnd(w)
  <2>1. work[w].st = "running"
    BY <1>2, <1>12 DEF WorkerEnd, ItemFits
  <2> QED
    BY <1>10, <1>12, <2>1 DEF WorkerEnd, Outcome
<1> QED
  BY <1>7, <1>8, <1>9, <1>11, <1>12

(* A call, an abort or a release is posted.                                *)
LEMMA PlainPosts ==
  ASSUME CInv, NEW j \in {<<"tsfn">>, <<"abort">>, <<"release">>}
  PROVE  /\ Post(d, j) \in Driver /\ Post(d, j).inflight = d.inflight
         /\ Counted(Post(d, j), work, js, f.idle)
<1>1. d \in Driver /\ js \in Seq(Frame) /\ Counted(d, work, js, f.idle)
  BY DEF CInv, Types
<1>2. j \in Job
  BY DEF Job
<1>3. Adds(d, Post(d, j), j)
  BY <1>1, <1>2, PostAdds
<1>4. \A v \in Works, r \in Outcome : j \notin DoneJob(v, r)
  BY DEF DoneJob
<1>5. AgreeBut(js, js, {})
  BY <1>1, AgreeSame
<1>6. Counted(Post(d, j), work, js, f.idle)
  BY <1>1, <1>3, <1>4, <1>5, AddsCounted
<1> QED
  BY <1>3, <1>6 DEF Adds

(* The steps of a thread that owns a reference to the function.            *)
LEMMA ThreadStepsCInv ==
  ASSUME CInv, NEW t \in Threads,
         \/ \E p \in Payloads, b \in BOOLEAN : ThreadCall(t, p, b)
         \/ AdmitAndPost(t) \/ ThreadRelease(t) \/ ThreadAbort(t)
         \/ ThreadPostAbort(t) \/ ThreadPostRelease(t)
  PROVE  CInv'
<1>0. /\ Types /\ Counted(d, work, js, f.idle) /\ RootsGone
      /\ d \in Driver /\ f \in Function /\ work \in [Works -> Item] /\ js \in Seq(Frame)
      /\ loop \in LoopStates /\ tail \in BOOLEAN /\ th \in [Threads -> Thread]
      /\ pay \in [Payloads -> Owners] /\ env \in [state : EnvStates, roots : BOOLEAN]
      /\ th[t] \in Thread
  BY DEF CInv, Types
<1>1. CASE \E p \in Payloads, b \in BOOLEAN : ThreadCall(t, p, b)
  <2>1. PICK p \in Payloads, b \in BOOLEAN : ThreadCall(t, p, b)
    BY <1>1
  <2>2. /\ th' = [th EXCEPT ![t].pc = "admit", ![t].item = p, ![t].blocking = b]
        /\ d' = d /\ f' = f /\ work' = work /\ js' = js
        /\ loop' = loop /\ tail' = tail /\ pay' = pay /\ env' = env
    BY <2>1 DEF ThreadCall
  <2>3. th' \in [Threads -> Thread]
    BY <1>0, <2>2 DEF Thread
  <2>4. RootsGone'
    BY <1>0, <2>2 DEF RootsGone
  <2> QED
    BY <1>0, <2>2, <2>3, <2>4, CInvBy
<1>2. CASE AdmitAndPost(t)
  <2>1. /\ th[t].pc = "admit"
        /\ th' = [th EXCEPT ![t].pc = "idle", ![t].item = "none", ![t].blocking = FALSE]
        /\ work' = work /\ js' = js /\ loop' = loop /\ tail' = tail /\ env' = env
    BY <1>2 DEF AdmitAndPost
  <2>2. th' \in [Threads -> Thread] /\ th[t].item \in Payloads
    BY <1>0, <2>1 DEF Thread
  <2>3. CASE d' = d /\ f' = f /\ pay' = pay
    <3>1. RootsGone'
      BY <1>0, <2>1, <2>3 DEF RootsGone
    <3> QED
      BY <1>0, <2>1, <2>2, <2>3, <3>1, CInvBy
  <2>4. CASE /\ f' = [f EXCEPT !.items = Append(f.items, th[t].item)]
             /\ pay' = [pay EXCEPT ![th[t].item] = "queue"]
             /\ d' = Post(d, <<"tsfn">>)
    <3>1. f' \in Function /\ f'.idle = f.idle
      <4>1. Append(f.items, th[t].item) \in Seq(Payloads)
        BY <1>0, <2>2, FunctionTypes, AppendProperties
      <4> QED
        BY <1>0, <2>4, <4>1 DEF Function
    <3>2. pay' \in [Payloads -> Owners]
      BY <1>0, <2>2, <2>4 DEF Owners
    <3>3. d' \in Driver /\ d'.inflight = d.inflight /\ Counted(d', work, js, f.idle)
      BY <2>4, PlainPosts
    <3>4. RootsGone'
      BY <1>0, <2>1, <3>3 DEF RootsGone
    <3> QED
      BY <1>0, <2>1, <2>2, <3>1, <3>2, <3>3, <3>4, CInvBy
  <2> QED
    BY <1>2, <2>3, <2>4 DEF AdmitAndPost
<1>3. ASSUME SameFunction(f, f'), th' \in [Threads -> Thread],
             d' = d, work' = work, js' = js, loop' = loop, tail' = tail, pay' = pay, env' = env
      PROVE  CInv'
  <2>1. f' \in Function /\ f'.idle = f.idle
    BY <1>3 DEF SameFunction
  <2>2. RootsGone'
    BY <1>0, <1>3 DEF RootsGone
  <2> QED
    BY <1>0, <1>3, <2>1, <2>2, CInvBy
<1>4. CASE ThreadRelease(t)
  <2>1. /\ f' = Drop(f) /\ th[t].pc # "admit"
        /\ th' = [th EXCEPT ![t].pc = IF f.refs = 1 THEN "postrelease" ELSE "idle",
                            ![t].ref = FALSE]
        /\ d' = d /\ work' = work /\ js' = js /\ loop' = loop /\ tail' = tail
        /\ pay' = pay /\ env' = env
    BY <1>4 DEF ThreadRelease
  <2>2. th' \in [Threads -> Thread]
    BY <1>0, <2>1 DEF Thread
  <2>3. SameFunction(f, f')
    BY <1>0, <2>1, ClosingSame
  <2> QED
    BY <1>3, <2>1, <2>2, <2>3
<1>5. CASE ThreadAbort(t)
  <2>1. /\ f' = Abort(f) /\ th' = [th EXCEPT ![t].pc = "postabort"]
        /\ d' = d /\ work' = work /\ js' = js /\ loop' = loop /\ tail' = tail
        /\ pay' = pay /\ env' = env
    BY <1>5 DEF ThreadAbort
  <2>2. th' \in [Threads -> Thread]
    BY <1>0, <2>1 DEF Thread
  <2>3. SameFunction(f, f')
    BY <1>0, <2>1, ClosingSame
  <2> QED
    BY <1>3, <2>1, <2>2, <2>3
<1>6. ASSUME NEW j \in {<<"tsfn">>, <<"abort">>, <<"release">>}, NEW pc \in {"drop", "idle"},
             d' = Post(d, j), th' = [th EXCEPT ![t].pc = pc],
             f' = f, work' = work, js' = js, loop' = loop, tail' = tail, pay' = pay, env' = env
      PROVE  CInv'
  <2>1. d' \in Driver /\ d'.inflight = d.inflight /\ Counted(d', work, js, f.idle)
    BY <1>6, PlainPosts
  <2>2. th' \in [Threads -> Thread]
    BY <1>0, <1>6 DEF Thread
  <2>3. RootsGone'
    BY <1>0, <1>6, <2>1 DEF RootsGone
  <2> QED
    BY <1>0, <1>6, <2>1, <2>2, <2>3, CInvBy
<1>7. CASE ThreadPostAbort(t)
  BY <1>6, <1>7 DEF ThreadPostAbort
<1>8. CASE ThreadPostRelease(t)
  BY <1>6, <1>8 DEF ThreadPostRelease
<1> QED
  BY <1>1, <1>2, <1>4, <1>5, <1>7, <1>8

(* The calls of the JavaScript thread on the function.                     *)
LEMMA JsStepsCInv ==
  ASSUME CInv,
         \/ \E t \in Threads : JsAcquire(t)
         \/ \E p \in Payloads : JsCall(p)
         \/ JsAcquired \/ JsRelease \/ JsAbort \/ JsDrop \/ JsUnref \/ JsRef
  PROVE  CInv'
<1>0. /\ Types /\ Counted(d, work, js, f.idle) /\ RootsGone
      /\ d \in Driver /\ f \in Function /\ work \in [Works -> Item] /\ js \in Seq(Frame)
      /\ loop \in LoopStates /\ tail \in BOOLEAN /\ th \in [Threads -> Thread]
      /\ pay \in [Payloads -> Owners] /\ env \in [state : EnvStates, roots : BOOLEAN]
  BY DEF CInv, Types
<1>1. LoopAfterSpawn(d, loop) \in LoopStates
  BY <1>0 DEF LoopAfterSpawn, LoopStates
<1>2. ASSUME NEW K, AgreeBut(js, js', K), "job" \notin K, "complete" \notin K,
             f' \in Function, f'.idle = f.idle, th' \in [Threads -> Thread],
             d' = d, work' = work, loop' = loop, tail' = tail, pay' = pay, env' = env
      PROVE  CInv'
  <2>1. js' \in Seq(Frame) /\ Counted(d', work, js', f.idle)
    BY <1>0, <1>2, StackCounted
  <2>2. RootsGone'
    BY <1>0, <1>2 DEF RootsGone
  <2> QED
    BY <1>0, <1>2, <2>1, <2>2, CInvBy
<1>3. CASE \E t \in Threads : JsAcquire(t)
  <2>1. PICK t \in Threads : JsAcquire(t)
    BY <1>3
  <2>2. /\ js' = << <<"acquire", t>> >> \o js /\ f' = f /\ th' = th
        /\ d' = d /\ work' = work /\ loop' = loop /\ tail' = tail /\ pay' = pay /\ env' = env
    BY <2>1 DEF JsAcquire
  <2>3. <<"acquire", t>> \in Frame /\ <<"acquire", t>>[1] = "acquire"
    BY DEF Frame
  <2>4. AgreeBut(js, js', {"acquire"})
    BY <1>0, <2>2, <2>3, PushAgrees
  <2> QED
    BY <1>0, <1>2, <2>2, <2>4
<1>4. CASE \E p \in Payloads : JsCall(p)
  <2>1. PICK p \in Payloads : JsCall(p)
    BY <1>4
  <2> DEFINE y == Post(d, <<"tsfn">>)
  <2>2. /\ f' = [f EXCEPT !.items = Append(f.items, p)]
        /\ pay' = [pay EXCEPT ![p] = "queue"]
        /\ d' = SpawnLoop(y) /\ loop' = LoopAfterSpawn(d, loop)
        /\ work' = work /\ js' = js /\ tail' = tail /\ th' = th /\ env' = env
    BY <2>1 DEF JsCall
  <2>3. f' \in Function /\ f'.idle = f.idle
    <3>1. Append(f.items, p) \in Seq(Payloads)
      BY <1>0, FunctionTypes, AppendProperties
    <3> QED
      BY <1>0, <2>2, <3>1 DEF Function
  <2>4. pay' \in [Payloads -> Owners]
    BY <1>0, <2>2 DEF Owners
  <2>5. y \in Driver /\ y.inflight = d.inflight /\ Counted(y, work, js, f.idle)
    BY PlainPosts
  <2> HIDE DEF y
  <2>6. /\ d' \in Driver /\ d'.jobs = y.jobs /\ d'.pending = y.pending
        /\ d'.inflight = y.inflight /\ d'.idle = y.idle
    BY <2>2, <2>5, SpawnHolds DEF Holds
  <2>7. Counted(d', work, js, f.idle)
    BY <2>5, <2>6, SameCounted
  <2>8. RootsGone'
    BY <1>0, <2>2, <2>5, <2>6 DEF RootsGone
  <2> QED
    BY <1>0, <1>1, <2>2, <2>3, <2>4, <2>6, <2>7, <2>8, CInvBy
<1>5. CASE JsAcquired
  <2> DEFINE t == Head(js)[2]
  <2>1. /\ js # <<>> /\ Head(js)[1] = "acquire" /\ js' = Tail(js)
        /\ f' = [f EXCEPT !.refs = f.refs + 1] /\ th' = [th EXCEPT ![t].ref = TRUE]
        /\ d' = d /\ work' = work /\ loop' = loop /\ tail' = tail /\ pay' = pay /\ env' = env
    BY <1>5 DEF JsAcquired
  <2>2. Head(js) \in Frame
    BY <1>0, <2>1, HeadTailProperties
  <2>3. t \in Threads
    BY <2>1, <2>2, MarkKinds
  <2> HIDE DEF t
  <2>4. th' \in [Threads -> Thread]
    BY <1>0, <2>1, <2>3 DEF Thread
  <2>5. f' \in Function /\ f'.idle = f.idle
    <3>1. f.refs + 1 \in Int
      BY <1>0, FunctionTypes
    <3> QED
      BY <1>0, <2>1, <3>1 DEF Function
  <2>6. AgreeBut(js, js', {"acquire"})
    BY <1>0, <2>1, PopAgrees
  <2> QED
    BY <1>0, <1>2, <2>1, <2>4, <2>5, <2>6
<1>6. CASE JsRelease
  <2>1. /\ f' = [f EXCEPT !.mine = FALSE] /\ js' = << <<"drop">> >> \o js /\ th' = th
        /\ d' = d /\ work' = work /\ loop' = loop /\ tail' = tail /\ pay' = pay /\ env' = env
    BY <1>6 DEF JsRelease
  <2>2. f' \in Function /\ f'.idle = f.idle
    BY <1>0, <2>1 DEF Function
  <2>3. <<"drop">> \in Frame /\ <<"drop">>[1] = "drop"
    BY DEF Frame
  <2>4. AgreeBut(js, js', {"drop"})
    BY <1>0, <2>1, <2>3, PushAgrees
  <2> QED
    BY <1>0, <1>2, <2>1, <2>2, <2>4
<1>7. CASE JsAbort
  <2> DEFINE y == TakeAll(Abort(f))
  <2>1. /\ f' = [y EXCEPT !.mine = FALSE] /\ js' = BatchOf(f.items) \o << <<"drop">> >> \o js
        /\ th' = th
        /\ d' = d /\ work' = work /\ loop' = loop /\ tail' = tail /\ pay' = pay /\ env' = env
    BY <1>7 DEF JsAbort, Batch
  <2>2. y \in Function /\ y.idle = f.idle
    <3>1. Abort(f) \in Function /\ Abort(f).idle = f.idle
      BY <1>0, ClosingSame DEF SameFunction
    <3> QED
      BY <3>1, TakeAllIs
  <2> HIDE DEF y
  <2>3. f' \in Function /\ f'.idle = f.idle
    BY <2>1, <2>2 DEF Function
  <2>4. AgreeBut(js, js', {"batch", "drop"})
    BY <1>0, <2>1, FunctionTypes, AbortAgrees
  <2> QED
    BY <1>0, <1>2, <2>1, <2>3, <2>4
<1>8. CASE JsDrop
  <2>1. /\ js # <<>> /\ Head(js) = <<"drop">> /\ th' = th
        /\ f' = (IF f.refs = 1 THEN StartFinish(Drop(f)) ELSE Drop(f))
        /\ js' = (IF f.refs = 1 THEN FinishFrames(f) ELSE <<>>) \o Tail(js)
        /\ d' = d /\ work' = work /\ loop' = loop /\ tail' = tail /\ pay' = pay /\ env' = env
    BY <1>8 DEF JsDrop
  <2>2. Drop(f) \in Function /\ Drop(f).idle = f.idle
    BY <1>0, ClosingSame DEF SameFunction
  <2>3. f' \in Function /\ f'.idle = f.idle
    BY <2>1, <2>2, StartFinishIs
  <2>4. AgreeBut(js, Tail(js), {"drop"}) /\ Tail(js) \in Seq(Frame)
    BY <1>0, <2>1, PopAgrees DEF AgreeBut
  <2>5. AgreeBut(Tail(js), js', {"batch", "finish"})
    <3>1. CASE f.refs = 1
      BY <1>0, <2>1, <2>4, <3>1, FinishAgrees
    <3>2. CASE f.refs # 1
      <4>1. js' = Tail(js)
        BY <2>1, <2>4, <3>2, ConcatEmptySeq
      <4> QED
        BY <2>4, <4>1, AgreeSame
    <3> QED
      BY <3>1, <3>2
  <2>6. AgreeBut(js, js', {"drop"} \cup {"batch", "finish"})
    BY <2>4, <2>5, AgreeTwice
  <2> QED
    BY <1>0, <1>2, <2>1, <2>3, <2>6
<1>9. CASE JsUnref
  <2> DEFINE z == [d EXCEPT !.idle = 0]
  <2>1. /\ f.idle = 1 /\ f' = [f EXCEPT !.idle = 0]
        /\ d' = WakeIfQuiescent([d EXCEPT !.idle = @ - 1])
        /\ work' = work /\ js' = js /\ loop' = loop /\ tail' = tail /\ th' = th
        /\ pay' = pay /\ env' = env
    BY <1>9 DEF JsUnref
  <2>2. d.idle = 1
    BY <1>0, <2>1 DEF Counted
  <2>3. [d EXCEPT !.idle = @ - 1] = z
    BY <2>2
  <2>4. Holds(z, d.tx, d.jobs, d.pending, 0, d.inflight, d.running, d.finished)
    <3>1. 0 \in Nat /\ FALSE \in BOOLEAN /\ <<>> \in Seq(Job)
      OBVIOUS
    <3> QED
      BY <1>0, <3>1, DriverSets
  <2> HIDE DEF z
  <2>5. Adds(z, d', <<"wake">>)
    BY <2>1, <2>3, <2>4, WakeAdds DEF Holds
  <2>6. Counted(z, work, js, 0)
    BY <1>0, <2>4 DEF Counted, Holds
  <2>7. Counted(d', work, js, 0)
    <3>1. \A v \in Works, r \in Outcome : <<"wake">> \notin DoneJob(v, r)
      BY DEF DoneJob
    <3>2. AgreeBut(js, js, {})
      BY <1>0, AgreeSame
    <3> QED
      BY <1>0, <2>4, <2>5, <2>6, <3>1, <3>2, AddsCounted DEF Holds
  <2>8. f' \in Function /\ f'.idle = 0
    BY <1>0, <2>1 DEF Function
  <2>9. d' \in Driver /\ d'.inflight = d.inflight
    BY <2>4, <2>5 DEF Holds, Adds
  <2>10. RootsGone'
    BY <1>0, <2>1, <2>9 DEF RootsGone
  <2> QED
    BY <1>0, <2>1, <2>7, <2>8, <2>9, <2>10, CInvBy
<1>10. CASE JsRef
  <2> DEFINE z == [d EXCEPT !.idle = 1]
  <2>1. /\ f.idle = 0 /\ f' = [f EXCEPT !.idle = 1, !.reref = f.reref + 1]
        /\ d' = SpawnLoop([d EXCEPT !.idle = @ + 1]) /\ loop' = LoopAfterSpawn(d, loop)
        /\ work' = work /\ js' = js /\ tail' = tail /\ th' = th /\ pay' = pay /\ env' = env
    BY <1>10 DEF JsRef
  <2>2. d.idle = 0
    BY <1>0, <2>1 DEF Counted
  <2>3. [d EXCEPT !.idle = @ + 1] = z
    BY <2>2
  <2>4. Holds(z, d.tx, d.jobs, d.pending, 1, d.inflight, d.running, d.finished)
    <3>1. 1 \in Nat /\ FALSE \in BOOLEAN /\ <<>> \in Seq(Job)
      OBVIOUS
    <3> QED
      BY <1>0, <3>1, DriverSets
  <2> HIDE DEF z
  <2>5. Holds(d', z.tx, z.jobs, z.pending, z.idle, z.inflight, TRUE, z.finished /\ z.running)
    BY <2>1, <2>3, <2>4, SpawnHolds DEF Holds
  <2>6. Counted(d', work, js, 1)
    BY <1>0, <2>4, <2>5 DEF Counted, Holds
  <2>7. f' \in Function /\ f'.idle = 1
    <3>1. f.reref + 1 \in Nat
      BY <1>0, FunctionTypes
    <3> QED
      BY <1>0, <2>1, <3>1 DEF Function
  <2>8. d' \in Driver /\ d'.inflight = d.inflight
    BY <2>4, <2>5 DEF Holds
  <2>9. RootsGone'
    BY <1>0, <2>1, <2>8 DEF RootsGone
  <2> QED
    BY <1>0, <1>1, <2>1, <2>6, <2>7, <2>8, <2>9, CInvBy
<1> QED
  BY <1>3, <1>4, <1>5, <1>6, <1>7, <1>8, <1>9, <1>10

(* The dispose of the Env.                                                 *)
LEMMA DisposeStepsCInv ==
  ASSUME CInv, Closes, BeginDispose \/ CloseSender \/ FinishDispose \/ FreeEnv \/ Done
  PROVE  CInv'
<1>0. /\ Types /\ Counted(d, work, js, f.idle) /\ RootsGone
      /\ d \in Driver /\ f \in Function /\ work \in [Works -> Item] /\ js \in Seq(Frame)
      /\ loop \in LoopStates /\ tail \in BOOLEAN /\ th \in [Threads -> Thread]
      /\ pay \in [Payloads -> Owners] /\ env \in [state : EnvStates, roots : BOOLEAN]
  BY DEF CInv, Types
<1>1. /\ <<"closesender">> \in Frame /\ <<"free">> \in Frame /\ <<"drain">> \in Frame
      /\ <<>> \in Seq(Frame) /\ << <<"closesender">> >> \in Seq(Frame)
  BY DEF Frame
<1>2. CASE BeginDispose
  <2>1. /\ js = <<>> /\ env.state = "active" /\ env' = [env EXCEPT !.state = "beginning"]
        /\ d' = d /\ work' = work /\ loop' = loop /\ tail' = tail /\ th' = th /\ pay' = pay
    BY <1>2 DEF BeginDispose, Idle
  <2>2. env' \in [state : EnvStates, roots : BOOLEAN] /\ env'.roots = env.roots
    BY <1>0, <2>1 DEF EnvStates
  <2>3. AgreeBut(js, << <<"closesender">> >>, {"closesender"})
    <3>1. AgreeBut(js, << <<"closesender">> >> \o <<>>, {<<"closesender">>[1]})
      BY <1>0, <1>1, <2>1, PushAgrees
    <3>2. << <<"closesender">> >> \o <<>> = << <<"closesender">> >>
      BY <1>1, ConcatEmptySeq
    <3> QED
      BY <3>1, <3>2
  <2>4. \E K : /\ AgreeBut(js, js', K) /\ "job" \notin K /\ "complete" \notin K
               /\ f' \in Function /\ f'.idle = f.idle
    <3>1. CASE f.reg /\ f.state # "closed"
      <4>1. /\ f' = StartFinish(Abort(f))
            /\ js' = FinishFrames(f) \o << <<"closesender">> >>
        BY <1>2, <3>1 DEF BeginDispose
      <4>2. f' \in Function /\ f'.idle = f.idle
        <5>1. Abort(f) \in Function /\ Abort(f).idle = f.idle
          BY <1>0, ClosingSame DEF SameFunction
        <5> QED
          BY <4>1, <5>1, StartFinishIs
      <4>3. AgreeBut(<< <<"closesender">> >>, js', {"batch", "finish"})
        BY <1>0, <1>1, <4>1, FinishAgrees
      <4>4. AgreeBut(js, js', {"closesender"} \cup {"batch", "finish"})
        BY <2>3, <4>3, AgreeTwice
      <4>5. "job" \notin {"closesender"} \cup {"batch", "finish"}
              /\ "complete" \notin {"closesender"} \cup {"batch", "finish"}
        OBVIOUS
      <4> QED
        BY <4>2, <4>4, <4>5
    <3>2. CASE ~(f.reg /\ f.state # "closed")
      <4>1. f' = [f EXCEPT !.reg = FALSE] /\ js' = << <<"closesender">> >>
        BY <1>2, <3>2 DEF BeginDispose
      <4>2. f' \in Function /\ f'.idle = f.idle
        BY <1>0, <4>1 DEF Function
      <4> QED
        BY <2>3, <4>1, <4>2
    <3> QED
      BY <3>1, <3>2
  <2>5. js' \in Seq(Frame) /\ Counted(d', work, js', f.idle)
    BY <1>0, <2>1, <2>4, StackCounted
  <2>6. RootsGone'
    BY <1>0, <2>1, <2>2 DEF RootsGone
  <2> QED
    BY <1>0, <2>1, <2>2, <2>4, <2>5, <2>6, CInvBy
<1>3. CASE CloseSender
  <2>1. /\ js # <<>> /\ Head(js) = <<"closesender">> /\ js' = Tail(js)
        /\ env' = [env EXCEPT !.roots = d.inflight = 0] /\ d' = [d EXCEPT !.tx = FALSE]
        /\ f' = f /\ work' = work /\ loop' = loop /\ tail' = tail /\ th' = th /\ pay' = pay
    BY <1>3 DEF CloseSender
  <2>2. Holds(d', FALSE, d.jobs, d.pending, d.idle, d.inflight, d.running, d.finished)
    <3>1. 0 \in Nat /\ FALSE \in BOOLEAN /\ <<>> \in Seq(Job)
      OBVIOUS
    <3> QED
      BY <1>0, <2>1, <3>1, DriverSets
  <2>3. AgreeBut(js, js', {"closesender"})
    BY <1>0, <2>1, PopAgrees
  <2>4. js' \in Seq(Frame) /\ Counted(d', work, js', f.idle)
    BY <2>2, <2>3, StackCounted DEF Holds
  <2>5. /\ env' \in [state : EnvStates, roots : BOOLEAN] /\ env'.state = env.state
        /\ env'.roots => d.inflight = 0
    <3>1. (d.inflight = 0) \in BOOLEAN
      OBVIOUS
    <3> QED
      BY <1>0, <2>1, <3>1
  <2>6. env.state # "active"
    <3>1. <<"closesender">> \in Plain("closesender")
      BY DEF Plain
    <3>2. Count(js, Plain("closesender")) = Count(js', Plain("closesender")) + 1
      <4>1. \A M : Count(js, M) = Count(js', M) + (IF <<"closesender">> \in M THEN 1 ELSE 0)
        <5>1. js # <<>> /\ js \in Seq(Frame) /\ Head(js) = <<"closesender">> /\ js' = Tail(js)
          BY <1>0, <2>1
        <5> QED
          BY <5>1, CountTail
      <4> QED
        BY <3>1, <4>1
    <3>3. Count(js', Plain("closesender")) \in Nat
      BY <2>4, CountType
    <3> QED
      BY <3>2, <3>3 DEF Closes
  <2>7. RootsGone'
    BY <2>2, <2>5, <2>6 DEF RootsGone, Holds
  <2> QED
    BY <1>0, <2>1, <2>2, <2>4, <2>5, <2>7, CInvBy DEF Holds
<1>4. CASE FinishDispose
  <2>1. /\ js = <<>> /\ js' = << <<"drain">>, <<"free">> >>
        /\ d' = d /\ f' = f /\ work' = work /\ loop' = loop /\ tail' = tail /\ th' = th
        /\ pay' = pay /\ env' = env
    BY <1>4 DEF FinishDispose, Idle
  <2>2. AgreeBut(js, js', {"drain", "free"})
    <3>1. AgreeBut(js, << <<"drain">>, <<"free">> >> \o js, {<<"drain">>[1], <<"free">>[1]})
      BY <1>0, <1>1, PushTwoAgrees
    <3>2. << <<"drain">>, <<"free">> >> \in Seq(Frame)
      BY <1>1
    <3>3. << <<"drain">>, <<"free">> >> \o js = << <<"drain">>, <<"free">> >>
      BY <2>1, <3>2, ConcatEmptySeq
    <3>4. {<<"drain">>[1], <<"free">>[1]} = {"drain", "free"}
      OBVIOUS
    <3> QED
      BY <2>1, <3>1, <3>3, <3>4
  <2>3. js' \in Seq(Frame) /\ Counted(d', work, js', f.idle)
    BY <1>0, <2>1, <2>2, StackCounted
  <2>4. RootsGone'
    BY <1>0, <2>1 DEF RootsGone
  <2> QED
    BY <1>0, <2>1, <2>3, <2>4, CInvBy
<1>5. CASE FreeEnv
  <2>1. /\ js # <<>> /\ Head(js) = <<"free">> /\ js' = Tail(js)
        /\ env' = (IF d.finished /\ Quiescent(d) THEN [state |-> "finished", roots |-> TRUE]
                   ELSE [env EXCEPT !.state = "failed"])
        /\ d' = d /\ f' = f /\ work' = work /\ loop' = loop /\ tail' = tail /\ th' = th
        /\ pay' = pay
    BY <1>5 DEF FreeEnv
  <2>2. AgreeBut(js, js', {"free"})
    BY <1>0, <2>1, PopAgrees
  <2>3. js' \in Seq(Frame) /\ Counted(d', work, js', f.idle)
    BY <1>0, <2>1, <2>2, StackCounted
  <2>4. env' \in [state : EnvStates, roots : BOOLEAN] /\ RootsGone'
    <3>1. CASE d.finished /\ Quiescent(d)
      BY <2>1, <3>1 DEF RootsGone, EnvStates, Quiescent
    <3>2. CASE ~(d.finished /\ Quiescent(d))
      BY <1>0, <2>1, <3>2 DEF RootsGone, EnvStates
    <3> QED
      BY <3>1, <3>2
  <2> QED
    BY <1>0, <2>1, <2>3, <2>4, CInvBy
<1>6. CASE Done
  <2>1. /\ d' = d /\ f' = f /\ work' = work /\ js' = js /\ loop' = loop /\ tail' = tail
        /\ th' = th /\ pay' = pay /\ env' = env
    BY <1>6 DEF Done, vars
  <2>2. RootsGone'
    BY <1>0, <2>1 DEF RootsGone
  <2> QED
    BY <1>0, <2>1, <2>2, CInvBy
<1> QED
  BY <1>2, <1>3, <1>4, <1>5, <1>6
------------------------------------------------------------------------------
(* Only a dispose pushes the frames of a dispose.                          *)

Ordinary ==
  {"drain", "tsfns", "job", "finish", "drop", "batch", "call", "teardown", "complete",
   "acquire"}

(* The frames of a job are ordinary.                                       *)
LEMMA TakeJobFrames ==
  ASSUME CInv, d.jobs # <<>>, TakeJob(js)
  PROVE  AgreeBut(js, js', Ordinary)
<1>1. Types /\ d.pending = Len(d.jobs) + Count(js, Plain("job")) /\ js \in Seq(Frame)
      /\ f.items \in Seq(Payloads) /\ f \in Function
  BY FunctionTypes DEF CInv, Types, Counted
<1>2. PICK frames \in Seq(Frame) :
           /\ Runs(frames)
           /\ \/ TakesWake(frames) \/ TakesTsfn(frames) \/ TakesAbort(frames)
              \/ TakesRelease(frames)
              \/ \E w \in Works, r \in Outcome : TakesDone(frames, w, r)
  BY <1>1, TakeJobCases
<1>3. ASSUME NEW M \in {Plain("closesender"), Plain("free")}
      PROVE  Count(js', M) = Count(js, M)
  <2>1. /\ <<"job">> \notin M /\ <<"finish">> \notin M
        /\ \A w : <<"complete", w>> \notin M
        /\ \A q : <<"batch", q>> \notin M
    BY <1>3 DEF Plain
  <2>2. Count(js, M) \in Nat /\ Count(<<>>, M) = 0
    BY <1>1, CountType, CountEmpty
  <2>3. \A q \in Seq(Payloads) : Count(BatchOf(q), M) = 0
    BY <2>1, BatchCounts
  <2>4. Count(frames, M) = 0
    <3>1. CASE TakesWake(frames)
      BY <2>2, <3>1 DEF TakesWake
    <3>2. CASE TakesTsfn(frames)
      <4>1. FirstOf(f.items) \in Seq(Payloads)
        BY <1>1, HeadTailProperties DEF FirstOf
      <4> QED
        BY <2>3, <3>2, <4>1 DEF TakesTsfn
    <3>3. CASE TakesAbort(frames)
      BY <1>1, <2>3, <3>3 DEF TakesAbort
    <3>4. CASE TakesRelease(frames)
      <4>1. Count(BatchOf(f.items), M) = 0
        BY <1>1, <2>3
      <4>2. Count(FinishFrames(f), M) = 0
        <5>1. CASE f.finish
          BY <1>1, <2>2, <5>1, FinishFramesAre
        <5>2. CASE ~f.finish
          <6>1. \A N : Count(FinishFrames(f), N)
                  = Count(BatchOf(f.items), N) + (IF <<"finish">> \in N THEN 1 ELSE 0)
            BY <1>1, <5>2, FinishFramesAre
          <6> QED
            BY <2>1, <4>1, <6>1
        <5> QED
          BY <5>1, <5>2
      <4> QED
        BY <3>4, <4>2 DEF TakesRelease
    <3>5. CASE \E w \in Works, r \in Outcome : TakesDone(frames, w, r)
      <4>1. PICK w \in Works, r \in Outcome : TakesDone(frames, w, r)
        BY <3>5
      <4>2. frames = <<>> \/ frames = << <<"complete", w>> >>
        BY <4>1 DEF TakesDone
      <4>3. Count(<< <<"complete", w>> >>, M) = 0
        BY <2>1, CountOne
      <4> QED
        BY <2>2, <4>2, <4>3
    <3> QED
      BY <1>2, <3>1, <3>2, <3>3, <3>4, <3>5
  <2>5. Count(js', M) = Count(frames, M) + Count(js, M)
    BY <1>2, <2>1 DEF Runs
  <2> QED
    BY <2>2, <2>4, <2>5
<1>4. js' \in Seq(Frame)
  BY <1>2 DEF Runs
<1> QED
  BY <1>3, <1>4 DEF AgreeBut, Ordinary

Disposes == BeginDispose \/ CloseSender \/ FinishDispose \/ FreeEnv

(* So are those of every step but the dispose's own four.                  *)
LEMMA OrdinarySteps ==
  ASSUME CInv, [Next]_vars
  PROVE  Disposes \/ (AgreeBut(js, js', Ordinary) /\ env' = env)
<1>0. /\ d \in Driver /\ f \in Function /\ js \in Seq(Frame) /\ f.items \in Seq(Payloads)
  BY FunctionTypes DEF CInv, Types
<1>1. AgreeBut(js, js, Ordinary)
  BY <1>0, AgreeSame
<1>2. js # <<>> /\ Head(js)[1] \in Ordinary => /\ AgreeBut(js, Tail(js), Ordinary)
                                               /\ Tail(js) \in Seq(Frame)
  <2>1. js # <<>> /\ Head(js)[1] \in Ordinary => AgreeBut(js, Tail(js), Ordinary)
    BY <1>0, PopAgrees, AgreeMore
  <2> QED
    BY <2>1 DEF AgreeBut
<1>3. /\ "batch" \in Ordinary /\ "finish" \in Ordinary /\ "drop" \in Ordinary
      /\ "drain" \in Ordinary /\ "tsfns" \in Ordinary /\ "call" \in Ordinary
      /\ "teardown" \in Ordinary /\ "job" \in Ordinary /\ "acquire" \in Ordinary
      /\ "complete" \in Ordinary
  BY DEF Ordinary
<1>4. \A x \in Frame : x[1] \in Ordinary => AgreeBut(js, <<x>> \o js, Ordinary)
  BY <1>0, PushAgrees, AgreeMore
<1>5. <<"drain">> \in Frame /\ <<"tsfns">> \in Frame /\ <<"drop">> \in Frame
  BY DEF Frame
<1>6. js = <<>> => AgreeBut(js, << <<"drain">> >>, Ordinary)
  BY <1>3, FirstDrain, AgreeMore
<1>7. ASSUME NEW s \in Seq(Frame), DrainThreadsafeFunctions(s)
      PROVE  AgreeBut(s, js', Ordinary)
  BY <1>0, <1>3, <1>7, DrainThreadsafeIs, AgreeMore
<1>8. \A s, u : AgreeBut(js, s, Ordinary) /\ AgreeBut(s, u, Ordinary) => AgreeBut(js, u, Ordinary)
  BY DEF AgreeBut
<1> USE <1>0
<1>10. CASE Poll
  <2>1. env' = env
    BY <1>10 DEF Poll
  <2>2. CASE RxFree
    <3>1. js' = << <<"drain">>, <<"tsfns">> >> \o js
      BY <1>10, <2>2 DEF Poll
    <3>2. AgreeBut(js, js', {<<"drain">>[1], <<"tsfns">>[1]})
      BY <1>5, <3>1, PushTwoAgrees
    <3>3. {<<"drain">>[1], <<"tsfns">>[1]} \subseteq Ordinary
      BY <1>3
    <3> QED
      BY <2>1, <3>2, <3>3, AgreeMore
  <2>3. CASE ~RxFree
    BY <1>7, <1>10, <2>1, <2>3 DEF Poll
  <2> QED
    BY <2>2, <2>3
<1>11. CASE DrainJob
  BY <1>11, TakeJobFrames DEF DrainJob
<1>12. CASE DrainEnd \/ JobEnd \/ CallReturns \/ CompleteReturns \/ FinishRelease \/ JsAcquired
  <2>1. js # <<>> /\ js' = Tail(js) /\ env' = env
    BY <1>12 DEF DrainEnd, JobEnd, CallReturns, CompleteReturns, FinishRelease, JsAcquired
  <2>2. Head(js)[1] \in {"drain", "job", "call", "teardown", "complete", "finish", "acquire"}
    BY <1>12 DEF DrainEnd, JobEnd, CallReturns, CompleteReturns, FinishRelease, JsAcquired
  <2> QED
    BY <1>2, <1>3, <2>1, <2>2
<1>13. CASE DrainTsfns
  <2>1. js # <<>> /\ Head(js) = <<"tsfns">> /\ DrainThreadsafeFunctions(Tail(js)) /\ env' = env
    BY <1>13 DEF DrainTsfns
  <2>2. Head(js)[1] = "tsfns"
    BY <2>1
  <2>3. AgreeBut(js, Tail(js), Ordinary) /\ Tail(js) \in Seq(Frame)
    BY <1>2, <1>3, <2>1, <2>2
  <2>4. AgreeBut(Tail(js), js', Ordinary)
    BY <1>7, <2>1, <2>3
  <2> QED
    BY <1>8, <2>1, <2>3, <2>4
<1>14. CASE Consume
  <2> DEFINE p == Head(Head(js)[2])
             op == IF f.aborted THEN "teardown" ELSE "call"
  <2>1. /\ js # <<>> /\ Head(js)[1] = "batch"
        /\ js' = << <<op, p>> >> \o BatchOf(Tail(Head(js)[2])) \o Tail(js) /\ env' = env
    BY <1>14 DEF Consume
  <2>2. op \in {"call", "teardown"}
    OBVIOUS
  <2> HIDE DEF op
  <2>3. AgreeBut(js, js', {"batch", "call", "teardown"})
    BY <2>1, <2>2, ConsumeAgrees
  <2> QED
    BY <1>3, <2>1, <2>3, AgreeMore
<1>15. CASE LoopTop \/ LoopTry \/ LoopRecv \/ LoopDrain \/ LoopExit \/ LoopLast \/ LoopTail
  <2>1. env' = env
    BY <1>15 DEF LoopTop, LoopTry, LoopRecv, LoopDrain, LoopExit, LoopLast, LoopTail
  <2>2. \/ js' = js \/ (js = <<>> /\ js' = << <<"drain">> >>)
        \/ (d.jobs # <<>> /\ TakeJob(js))
    BY <1>15 DEF LoopTop, LoopTry, LoopRecv, LoopDrain, LoopExit, LoopLast, LoopTail, Idle
  <2> QED
    BY <1>1, <1>6, <2>1, <2>2, TakeJobFrames
<1>16. CASE \E w \in Works : \/ QueueWork(w) \/ QueueWorkInline(w) \/ CancelWork(w)
                             \/ WorkerStart(w) \/ WorkerEnd(w)
  BY <1>1, <1>16 DEF QueueWork, QueueWorkInline, CancelWork, WorkerStart, WorkerEnd
<1>17. CASE \E t \in Threads : \/ \E p \in Payloads, b \in BOOLEAN : ThreadCall(t, p, b)
                               \/ AdmitAndPost(t) \/ ThreadRelease(t) \/ ThreadAbort(t)
                               \/ ThreadPostAbort(t) \/ ThreadPostRelease(t)
  BY <1>1, <1>17 DEF ThreadCall, AdmitAndPost, ThreadRelease, ThreadAbort, ThreadPostAbort,
                     ThreadPostRelease
<1>18. CASE \E t \in Threads : JsAcquire(t)
  <2>1. PICK t \in Threads : JsAcquire(t)
    BY <1>18
  <2>2. <<"acquire", t>> \in Frame /\ <<"acquire", t>>[1] = "acquire"
    BY DEF Frame
  <2> QED
    BY <1>3, <1>4, <2>1, <2>2 DEF JsAcquire
<1>19. CASE (\E p \in Payloads : JsCall(p)) \/ JsUnref \/ JsRef
  BY <1>1, <1>19 DEF JsCall, JsUnref, JsRef
<1>20. CASE JsRelease
  <2>1. <<"drop">>[1] = "drop"
    OBVIOUS
  <2> QED
    BY <1>3, <1>4, <1>5, <1>20, <2>1 DEF JsRelease
<1>21. CASE JsAbort
  <2>1. js' = BatchOf(f.items) \o << <<"drop">> >> \o js /\ env' = env
    BY <1>21 DEF JsAbort, Batch
  <2> QED
    BY <1>3, <2>1, AbortAgrees, AgreeMore
<1>22. CASE JsDrop
  <2>1. /\ js # <<>> /\ Head(js) = <<"drop">> /\ env' = env
        /\ js' = (IF f.refs = 1 THEN FinishFrames(f) ELSE <<>>) \o Tail(js)
    BY <1>22 DEF JsDrop
  <2>2. Head(js)[1] = "drop"
    BY <2>1
  <2>3. AgreeBut(js, Tail(js), Ordinary) /\ Tail(js) \in Seq(Frame)
    BY <1>2, <1>3, <2>1, <2>2
  <2>4. CASE f.refs = 1
    <3>1. AgreeBut(Tail(js), js', {"batch", "finish"})
      BY <2>1, <2>3, <2>4, FinishAgrees
    <3>2. AgreeBut(Tail(js), js', Ordinary)
      BY <1>3, <3>1, AgreeMore
    <3> QED
      BY <1>8, <2>1, <2>3, <3>2
  <2>5. CASE f.refs # 1
    BY <2>1, <2>3, <2>5, ConcatEmptySeq
  <2> QED
    BY <2>4, <2>5
<1>23. CASE Done \/ UNCHANGED vars
  BY <1>1, <1>23 DEF Done, vars
<1> QED
  BY <1>10, <1>11, <1>12, <1>13, <1>14, <1>15, <1>16, <1>17, <1>18, <1>19, <1>20, <1>21,
     <1>22, <1>23 DEF Next, Disposes
------------------------------------------------------------------------------
(* The counters are exact.                                                 *)

(* At first nothing is queued, owed or on the stack, and one reference     *)
(* keeps the loop.                                                         *)
LEMMA InitKInv ==
  ASSUME Init
  PROVE  KInv
<1>1. /\ <<>> \in Seq(Job) /\ <<>> \in Seq(Payloads) /\ <<>> \in Seq(Frame)
      /\ Len(<<>>) = 0 /\ \A M : Count(<<>>, M) = 0
  BY CountEmpty
<1>2. Cardinality(Threads) + 1 \in Int
  BY NapiAssumption, FS_CardinalityType
<1>3. /\ d \in Driver /\ d.jobs = <<>> /\ d.pending = 0 /\ d.idle = 1 /\ d.inflight = 0
  BY <1>1 DEF Init, Driver
<1>4. f \in Function /\ f.idle = 1
  <2>1. PICK q \in MaxQueues :
          f = [state |-> "open", max |-> q, items |-> <<>>, closed |-> FALSE,
               refs |-> Cardinality(Threads) + 1, idle |-> 1, aborted |-> FALSE,
               finish |-> FALSE, finalized |-> 0, reg |-> TRUE, mine |-> TRUE,
               reref |-> 0]
    BY DEF Init
  <2>2. q \in Nat
    BY NapiAssumption
  <2> QED
    BY <1>1, <1>2, <2>1, <2>2 DEF Function
<1>5. /\ work \in [Works -> Item]
      /\ \A w \in Works : work[w].st = "created" /\ work[w].task = "none"
                          /\ work[w].posted = FALSE /\ work[w].out = "none" /\ work[w].done = 0
  BY DEF Init, Item
<1>6. th \in [Threads -> Thread] /\ pay \in [Payloads -> Owners]
  BY DEF Init, Thread, Owners
<1>7. /\ js = <<>> /\ js \in Seq(Frame) /\ loop \in LoopStates /\ tail \in BOOLEAN
  BY <1>1 DEF Init, LoopStates
<1>8. env \in [state : EnvStates, roots : BOOLEAN] /\ env.roots = FALSE
  BY DEF Init, EnvStates
<1>9. \A w \in Works : Fits(work, d.jobs, js, w) /\ ~OwedIn(work, d.jobs, js, w)
  <2> SUFFICES ASSUME NEW w \in Works
               PROVE  Fits(work, d.jobs, js, w) /\ ~OwedIn(work, d.jobs, js, w)
    OBVIOUS
  <2>1. ItemFits(work[w], 0, 0, 0) /\ ~Keeps(work[w], 0, 0, 0)
    BY <1>5 DEF ItemFits, Keeps
  <2> QED
    BY <1>1, <1>3, <1>7, <2>1 DEF Fits, OwedIn
<1>10. Cardinality(OwedSet(work, d.jobs, js)) = 0
  <2>1. OwedSet(work, d.jobs, js) = {}
    BY <1>9 DEF OwedSet
  <2> QED
    BY <2>1, FS_EmptySet
<1>11. Counted(d, work, js, f.idle)
  <2>1. d.pending = Len(d.jobs) + Count(js, Plain("job"))
    BY <1>1, <1>3, <1>7
  <2> QED
    BY <1>3, <1>4, <1>9, <1>10, <2>1 DEF Counted
<1>12. Closes
  BY <1>1, <1>7 DEF Closes
<1> QED
  BY <1>3, <1>4, <1>5, <1>6, <1>7, <1>8, <1>11, <1>12 DEF KInv, CInv, Types, RootsGone

(* Only begin_dispose pushes the frame that closes the sender.             *)
LEMMA StepCloses ==
  ASSUME KInv, [Next]_vars
  PROVE  Closes'
<1>0. CInv /\ Closes /\ js \in Seq(Frame) /\ env \in [state : EnvStates, roots : BOOLEAN]
      /\ f \in Function
  BY DEF KInv, CInv, Types
<1>1. CASE AgreeBut(js, js', Ordinary) /\ env' = env
  BY <1>0, <1>1 DEF AgreeBut, Ordinary, Closes
<1>2. CASE BeginDispose
  BY <1>0, <1>2 DEF BeginDispose, Closes
<1>3. CASE CloseSender \/ FreeEnv
  <2>1. js # <<>> /\ js' = Tail(js)
    BY <1>3 DEF CloseSender, FreeEnv
  <2>2. Head(js) = <<"closesender">> \/ env'.state # "active"
    BY <1>0, <1>3 DEF CloseSender, FreeEnv
  <2>3. Head(js) = <<"closesender">> => env' = [env EXCEPT !.roots = d.inflight = 0]
    BY <1>3 DEF CloseSender, FreeEnv
  <2>4. CASE Head(js) = <<"closesender">>
    <3>1. <<"closesender">> \in Plain("closesender")
      BY DEF Plain
    <3>2. Count(js, Plain("closesender")) > 0
      <4>1. js \in Seq(Frame) /\ Tail(js) \in Seq(Frame)
        BY <1>0, <2>1, HeadTailProperties
      <4>2. \A M : Count(js, M) = Count(Tail(js), M) + (IF Head(js) \in M THEN 1 ELSE 0)
        BY <2>1, <4>1, CountTail
      <4>3. Count(Tail(js), Plain("closesender")) \in Nat
        BY <4>1, CountType
      <4> QED
        BY <2>4, <3>1, <4>2, <4>3
    <3>3. env.state # "active"
      BY <1>0, <3>2 DEF Closes
    <3>4. env'.state = env.state
      BY <1>0, <2>3, <2>4
    <3> QED
      BY <3>3, <3>4 DEF Closes
  <2>5. CASE env'.state # "active"
    BY <2>5 DEF Closes
  <2> QED
    BY <2>2, <2>4, <2>5
<1>4. CASE FinishDispose
  BY <1>4 DEF FinishDispose, Closes
<1> QED
  BY <1>0, <1>1, <1>2, <1>3, <1>4, OrdinarySteps DEF Disposes

(* Every step keeps the counters exact.                                    *)
LEMMA StepKInv ==
  ASSUME KInv, [Next]_vars
  PROVE  KInv'
<1>0. CInv /\ Closes
  BY DEF KInv
<1>1. Closes'
  BY StepCloses
<1>2. CInv'
  <2>1. CASE \/ Poll \/ DrainJob \/ DrainEnd \/ JobEnd \/ DrainTsfns \/ Consume
             \/ CallReturns \/ CompleteReturns \/ FinishRelease
    BY <1>0, <2>1, StackStepsCInv
  <2>2. CASE \/ LoopTop \/ LoopTry \/ LoopRecv \/ LoopDrain \/ LoopExit \/ LoopLast \/ LoopTail
    BY <1>0, <2>2, LoopStepsCInv
  <2>3. CASE \E w \in Works : \/ QueueWork(w) \/ QueueWorkInline(w) \/ CancelWork(w)
                              \/ WorkerStart(w) \/ WorkerEnd(w)
    BY <1>0, <2>3, WorkStepsCInv
  <2>4. CASE \E t \in Threads : \/ \E p \in Payloads, b \in BOOLEAN : ThreadCall(t, p, b)
                                \/ AdmitAndPost(t) \/ ThreadRelease(t) \/ ThreadAbort(t)
                                \/ ThreadPostAbort(t) \/ ThreadPostRelease(t)
    BY <1>0, <2>4, ThreadStepsCInv
  <2>5. CASE \/ \E t \in Threads : JsAcquire(t)
             \/ \E p \in Payloads : JsCall(p)
             \/ JsAcquired \/ JsRelease \/ JsAbort \/ JsDrop \/ JsUnref \/ JsRef
    BY <1>0, <2>5, JsStepsCInv
  <2>6. CASE BeginDispose \/ CloseSender \/ FinishDispose \/ FreeEnv \/ Done
    BY <1>0, <2>6, DisposeStepsCInv
  <2>7. CASE UNCHANGED vars
    BY <1>0, <2>7 DEF vars, CInv, Types, RootsGone
  <2> QED
    BY <2>1, <2>2, <2>3, <2>4, <2>5, <2>6, <2>7 DEF Next
<1> QED
  BY <1>1, <1>2 DEF KInv

(* The invariant says what the properties say.                             *)
LEMMA FramesAre ==
  ASSUME js \in Seq(Frame)
  PROVE  /\ Frames("job") = Marks(js, Plain("job"))
         /\ \A w \in Works : {i \in Frames("complete") : js[i][2] = w} = Marks(js, CompleteFrame(w))
<1>1. \A i \in DOMAIN js : js[i] \in Frame
  BY LenProperties, ElementOfSeq
<1> QED
  BY <1>1, MarkKinds DEF Frames, Marks

(* A completion is in the channel when the counts say so.                  *)
LEMMA InChannelIs ==
  ASSUME d \in Driver, NEW w \in Works
  PROVE  InChannel(w) <=> \/ Count(d.jobs, DoneJob(w, "ok")) > 0
                          \/ Count(d.jobs, DoneJob(w, "cancelled")) > 0
<1> DEFINE a == Count(d.jobs, DoneJob(w, "ok"))
           b == Count(d.jobs, DoneJob(w, "cancelled"))
<1>1. d.jobs \in Seq(Job) /\ DOMAIN d.jobs = 1..Len(d.jobs)
  BY DriverTypes, LenProperties
<1>2. \A i \in 1..Len(d.jobs) : d.jobs[i] \in Job
  BY <1>1, ElementOfSeq
<1>3. \A j \in Job : j[1] = "done" /\ j[2] = w
                       <=> j \in DoneJob(w, "ok") \/ j \in DoneJob(w, "cancelled")
  BY JobKinds DEF DoneJob, Outcome
<1>4. /\ a \in Nat /\ (a = 0 <=> \A i \in 1..Len(d.jobs) : d.jobs[i] \notin DoneJob(w, "ok"))
      /\ b \in Nat
      /\ (b = 0 <=> \A i \in 1..Len(d.jobs) : d.jobs[i] \notin DoneJob(w, "cancelled"))
  BY <1>1, CountType
<1> HIDE DEF a, b
<1>5. a > 0 \/ b > 0 <=> a # 0 \/ b # 0
  BY <1>4
<1>6. InChannel(w) <=> a > 0 \/ b > 0
  BY <1>1, <1>2, <1>3, <1>4, <1>5 DEF InChannel
<1> QED
  BY <1>6 DEF a, b

(* An item is owed when the counts say so.                                 *)
LEMMA OwedAre ==
  ASSUME d \in Driver, js \in Seq(Frame), NEW w \in Works
  PROVE  Owed(w) <=> OwedIn(work, d.jobs, js, w)
<1> DEFINE a == Count(d.jobs, DoneJob(w, "ok"))
           b == Count(d.jobs, DoneJob(w, "cancelled"))
           c == Count(js, CompleteFrame(w))
<1>1. d.jobs \in Seq(Job)
  BY DriverTypes
<1>3. InChannel(w) <=> a > 0 \/ b > 0
  BY InChannelIs
<1>4. (\E i \in Frames("complete") : js[i][2] = w) <=> c > 0
  <2>1. {i \in Frames("complete") : js[i][2] = w} = Marks(js, CompleteFrame(w))
    BY FramesAre
  <2>2. c \in Nat /\ (c = 0 <=> Marks(js, CompleteFrame(w)) = {})
    BY CountType, FS_EmptySet DEF Count
  <2> HIDE DEF c
  <2> QED
    BY <2>1, <2>2
<1>5. a \in Nat /\ b \in Nat /\ c \in Nat
  BY <1>1, CountType
<1>6. OwedIn(work, d.jobs, js, w) <=> Keeps(work[w], a, b, c)
  BY DEF OwedIn
<1> HIDE DEF a, b, c
<1>7. Keeps(work[w], a, b, c)
        <=> work[w].task \in {"spawned", "executing"} \/ (a > 0 \/ b > 0) \/ c > 0
  BY <1>5 DEF Keeps
<1> QED
  BY <1>3, <1>4, <1>6, <1>7 DEF Owed

(* Whatever the order of posts, completions, references and callbacks that *)
(* nest, pending, inflight and idle are what they stand for, so quiescence *)
(* is decided on the truth.                                                *)
THEOREM CountersHold == Spec => []CountersExact
<1>1. ASSUME KInv PROVE CountersExact
  <2>1. d \in Driver /\ js \in Seq(Frame) /\ Counted(d, work, js, f.idle)
    BY <1>1 DEF KInv, CInv, Types
  <2>2. {w \in Works : Owed(w)} = OwedSet(work, d.jobs, js)
    BY <2>1, OwedAre DEF OwedSet
  <2> QED
    BY <2>1, <2>2, FramesAre DEF Counted, CountersExact, Count
<1> QED
  BY <1>1, InitKInv, StepKInv, PTL DEF Spec

(* An item's completion runs once, ever, and says what became of the item, *)
(* and none is owed once the roots were released.                          *)
THEOREM CompletionsHonest == Spec => []CompletionHonest
<1>1. ASSUME KInv PROVE CompletionHonest
  <2>1. /\ d \in Driver /\ js \in Seq(Frame) /\ Counted(d, work, js, f.idle) /\ RootsGone
    BY <1>1 DEF KInv, CInv, Types
  <2>2. ASSUME NEW w \in Works
        PROVE  /\ work[w].out = "cancelled" => work[w].st = "cancelled"
               /\ work[w].out = "ok" => work[w].st = "running"
               /\ work[w].done <= IF InChannel(w) THEN 0 ELSE 1
    <3> DEFINE a == Count(d.jobs, DoneJob(w, "ok"))
               b == Count(d.jobs, DoneJob(w, "cancelled"))
               c == Count(js, CompleteFrame(w))
    <3>1. ItemFits(work[w], a, b, c)
      BY <2>1 DEF Counted, Fits
    <3>2. a \in Nat /\ b \in Nat /\ c \in Nat
      BY <2>1, DriverTypes, CountType
    <3>3. InChannel(w) <=> a > 0 \/ b > 0
      BY <2>1, InChannelIs
    <3> HIDE DEF a, b, c
    <3>4. /\ work[w].out = "cancelled" => work[w].st = "cancelled"
          /\ work[w].out = "ok" => work[w].st = "running"
      BY <3>1 DEF ItemFits
    <3>5. work[w].done = IF work[w].posted THEN 1 ELSE 0
      BY <3>1 DEF ItemFits
    <3>6. InChannel(w) => ~work[w].posted
      BY <3>1, <3>2, <3>3 DEF ItemFits
    <3> QED
      BY <3>4, <3>5, <3>6
  <2> QED
    BY <2>1, <2>2 DEF CompletionHonest, RootsGone
<1> QED
  BY <1>1, InitKInv, StepKInv, PTL DEF Spec
------------------------------------------------------------------------------
(* The payloads.                                                           *)

(* A batch holds the payloads it was made of.                              *)
LEMMA BatchMarks ==
  ASSUME NEW items \in Seq(Payloads)
  PROVE  /\ \A p \in Payloads : Count(BatchOf(items), BatchWith(p))
                                  = IF Count(items, Just(p)) > 0 THEN 1 ELSE 0
         /\ (\A p \in Payloads : Count(items, Just(p)) <= 1) => Count(BatchOf(items), Twice) = 0
<1>1. \A M : Count(BatchOf(items), M) = IF items # <<>> /\ <<"batch", items>> \in M THEN 1 ELSE 0
  BY BatchCounts
<1>2. \A p : Count(items, Just(p)) \in Nat
  BY CountType
<1>3. CASE items = <<>>
  <2>1. \A p : Count(items, Just(p)) = 0
    BY <1>3, CountEmpty
  <2> QED
    BY <1>1, <1>3, <2>1
<1>4. CASE items # <<>>
  <2>1. <<"batch", items>> \in {"batch"} \X NonEmpty /\ <<"batch", items>>[2] = items
    BY <1>4 DEF NonEmpty
  <2>2. \A p : <<"batch", items>> \in BatchWith(p) <=> Count(items, Just(p)) > 0
    BY <2>1 DEF BatchWith
  <2>3. <<"batch", items>> \in Twice <=> \E p \in Payloads : Count(items, Just(p)) > 1
    BY <2>1 DEF Twice
  <2>4. (\A p \in Payloads : Count(items, Just(p)) <= 1) => <<"batch", items>> \notin Twice
    BY <1>2, <2>3
  <2> QED
    BY <1>1, <1>4, <2>2, <2>4
<1> QED
  BY <1>3, <1>4

(* Owning depends on the batches of the stack.                             *)
LEMMA OwnedKeeps ==
  ASSUME NEW items, NEW s, NEW t, NEW pp, NEW K, Owned(items, s, pp), AgreeBut(s, t, K),
         "batch" \notin K
  PROVE  Owned(items, t, pp)
BY DEF Owned, AgreeBut

(* The stack t has a batch of `moved' more than s.                         *)
Gains(s, t, moved) ==
  /\ \A p \in Payloads : Count(t, BatchWith(p))
                          = Count(BatchOf(moved), BatchWith(p)) + Count(s, BatchWith(p))
  /\ Count(t, Twice) = Count(BatchOf(moved), Twice) + Count(s, Twice)

(* Some payloads leave the queue in a batch.                               *)
LEMMA OwnedMoves ==
  ASSUME NEW items \in Seq(Payloads), NEW moved \in Seq(Payloads), NEW rest \in Seq(Payloads),
         NEW s \in Seq(Frame), NEW t, NEW pp,
         \A M : Count(items, M) = Count(moved, M) + Count(rest, M),
         Gains(s, t, moved), Owned(items, s, pp)
  PROVE  Owned(rest, t, pp)
<1>1. \A M : /\ Count(items, M) \in Nat /\ Count(moved, M) \in Nat /\ Count(rest, M) \in Nat
             /\ Count(s, M) \in Nat
  BY CountType
<1>2. \A p \in Payloads :
         Count(items, Just(p)) + Count(s, BatchWith(p)) = IF pp[p] = "queue" THEN 1 ELSE 0
  BY DEF Owned
<1>3. ASSUME NEW p \in Payloads PROVE Count(items, Just(p)) <= 1
  <2>1. Count(items, Just(p)) \in Nat /\ Count(s, BatchWith(p)) \in Nat
    BY <1>1
  <2>2. Count(items, Just(p)) + Count(s, BatchWith(p)) <= 1
    BY <1>2
  <2> QED
    BY <2>1, <2>2
<1>4. \A p \in Payloads : Count(moved, Just(p)) <= 1 /\ Count(moved, Just(p)) \in Nat
  BY <1>1, <1>3
<1>5. \A p \in Payloads : Count(BatchOf(moved), BatchWith(p)) = Count(moved, Just(p))
  <2>1. \A p \in Payloads : Count(BatchOf(moved), BatchWith(p))
                              = IF Count(moved, Just(p)) > 0 THEN 1 ELSE 0
    BY BatchMarks
  <2> QED
    BY <1>4, <2>1
<1>6. Count(BatchOf(moved), Twice) = 0
  BY <1>4, BatchMarks
<1>7. \A p \in Payloads :
         Count(rest, Just(p)) + Count(t, BatchWith(p)) = IF pp[p] = "queue" THEN 1 ELSE 0
  <2> SUFFICES ASSUME NEW p \in Payloads
               PROVE  Count(rest, Just(p)) + Count(t, BatchWith(p)) = IF pp[p] = "queue" THEN 1 ELSE 0
    OBVIOUS
  <2>1. Count(items, Just(p)) = Count(moved, Just(p)) + Count(rest, Just(p))
    OBVIOUS
  <2>2. Count(t, BatchWith(p)) = Count(moved, Just(p)) + Count(s, BatchWith(p))
    BY <1>5 DEF Gains
  <2>3. /\ Count(items, Just(p)) \in Nat /\ Count(moved, Just(p)) \in Nat /\ Count(rest, Just(p)) \in Nat
        /\ Count(s, BatchWith(p)) \in Nat
    BY <1>1
  <2>4. Count(rest, Just(p)) + Count(t, BatchWith(p)) = Count(items, Just(p)) + Count(s, BatchWith(p))
    BY <2>1, <2>2, <2>3
  <2> QED
    BY <1>2, <2>4
<1>8. Count(t, Twice) = 0
  BY <1>6 DEF Owned, Gains
<1> QED
  BY <1>7, <1>8 DEF Owned

(* All of them do.                                                         *)
LEMMA OwnedEmpties ==
  ASSUME NEW items \in Seq(Payloads), NEW s \in Seq(Frame), NEW t, NEW pp,
         Gains(s, t, items), Owned(items, s, pp)
  PROVE  Owned(<<>>, t, pp)
<1>1. <<>> \in Seq(Payloads)
  OBVIOUS
<1>2. \A M : Count(items, M) = Count(items, M) + Count(<<>>, M)
  <2>1. \A M : Count(items, M) \in Nat /\ Count(<<>>, M) = 0
    BY CountType, CountEmpty
  <2> QED
    BY <2>1
<1> QED
  BY <1>1, <1>2, OwnedMoves

(* A payload of the caller enters the queue.                               *)
LEMMA OwnedEnters ==
  ASSUME NEW items \in Seq(Payloads), NEW s \in Seq(Frame), NEW pp \in [Payloads -> Owners],
         NEW p \in Payloads, pp[p] = "caller", Owned(items, s, pp)
  PROVE  Owned(Append(items, p), s, [pp EXCEPT ![p] = "queue"])
<1> DEFINE q == Append(items, p)
           pn == [pp EXCEPT ![p] = "queue"]
<1>1. \A M : Count(q, M) = Count(items, M) + (IF p \in M THEN 1 ELSE 0)
  BY CountAppend
<1>2. pn[p] = "queue" /\ \A r \in Payloads \ {p} : pn[r] = pp[r]
  OBVIOUS
<1> HIDE DEF q, pn
<1>3. \A M : Count(items, M) \in Nat /\ Count(s, M) \in Nat
  BY CountType
<1>4. ASSUME NEW r \in Payloads
      PROVE  Count(q, Just(r)) + Count(s, BatchWith(r)) = IF pn[r] = "queue" THEN 1 ELSE 0
  <2>1. Count(items, Just(r)) + Count(s, BatchWith(r)) = IF pp[r] = "queue" THEN 1 ELSE 0
    BY DEF Owned
  <2>2. Count(items, Just(r)) \in Nat /\ Count(s, BatchWith(r)) \in Nat
    BY <1>3
  <2>3. CASE r = p
    <3>1. Count(q, Just(r)) = Count(items, Just(r)) + 1
      BY <1>1, <2>3 DEF Just
    <3>2. pp[r] # "queue" /\ pn[r] = "queue"
      BY <1>2, <2>3
    <3> QED
      BY <2>1, <2>2, <3>1, <3>2
  <2>4. CASE r # p
    <3>1. Count(q, Just(r)) = Count(items, Just(r))
      BY <1>1, <2>2, <2>4 DEF Just
    <3>2. pn[r] = pp[r]
      BY <1>2, <2>4
    <3> QED
      BY <2>1, <3>1, <3>2
  <2> QED
    BY <2>3, <2>4
<1>5. Count(s, Twice) = 0
  BY DEF Owned
<1> QED
  BY <1>4, <1>5 DEF Owned, q, pn

(* The first payload of a batch is handed to its callback.                 *)
LEMMA OwnedConsumes ==
  ASSUME NEW items \in Seq(Payloads), NEW s \in Seq(Frame), s # <<>>, NEW pp \in [Payloads -> Owners],
         Head(s)[1] = "batch", NEW op \in {"call", "teardown"}, NEW o \in Owners, o # "queue",
         Owned(items, s, pp)
  PROVE  LET b == Head(s)[2]
             t == << <<op, Head(b)>> >> \o BatchOf(Tail(b)) \o Tail(s)
         IN  Owned(items, t, [pp EXCEPT ![Head(b)] = o]) /\ pp[Head(b)] = "queue"
<1> DEFINE b == Head(s)[2]
           p == Head(b)
           r == Tail(s)
           c == Tail(b)
           t == << <<op, p>> >> \o BatchOf(c) \o r
           pn == [pp EXCEPT ![p] = o]
<1>1. /\ b \in NonEmpty /\ Head(s) = <<"batch", b>> /\ p \in Payloads /\ c \in Seq(Payloads)
      /\ \A q \in Payloads :
           Count(t, BatchWith(q)) = Count(BatchOf(c), BatchWith(q)) + Count(r, BatchWith(q))
      /\ Count(t, Twice) = Count(BatchOf(c), Twice) + Count(r, Twice)
  BY ConsumeAgrees
<1>2. r \in Seq(Frame) /\ b \in Seq(Payloads) /\ b # <<>>
  BY <1>1, HeadTailProperties DEF NonEmpty
<1>3. \A M : Count(s, M) = Count(r, M) + (IF <<"batch", b>> \in M THEN 1 ELSE 0)
  <2>1. Head(s) = <<"batch", b>>
    BY <1>1
  <2> HIDE DEF b
  <2>2. \A M : Count(s, M) = Count(r, M) + (IF Head(s) \in M THEN 1 ELSE 0)
    BY CountTail
  <2> QED
    BY <2>1, <2>2
<1>4. \A M : Count(b, M) = Count(c, M) + (IF p \in M THEN 1 ELSE 0)
  <2> HIDE DEF b
  <2> QED
    BY <1>2, CountTail
<1>5. /\ \A q : <<"batch", b>> \in BatchWith(q) <=> Count(b, Just(q)) > 0
      /\ <<"batch", b>> \in Twice <=> \E q \in Payloads : Count(b, Just(q)) > 1
  <2>1. <<"batch", b>> \in {"batch"} \X NonEmpty /\ <<"batch", b>>[2] = b
    BY <1>1
  <2> HIDE DEF b
  <2> QED
    BY <2>1 DEF BatchWith, Twice
<1>6. pn[p] # "queue" /\ \A q \in Payloads \ {p} : pn[q] = pp[q]
  BY <1>1
<1>7. \A M : /\ Count(items, M) \in Nat /\ Count(s, M) \in Nat /\ Count(r, M) \in Nat
             /\ Count(b, M) \in Nat /\ Count(c, M) \in Nat
  BY <1>1, <1>2, CountType
<1>8. \A q \in Payloads : Count(BatchOf(c), BatchWith(q)) = IF Count(c, Just(q)) > 0 THEN 1 ELSE 0
  BY <1>1, BatchMarks
<1>9. (\A q \in Payloads : Count(c, Just(q)) <= 1) => Count(BatchOf(c), Twice) = 0
  BY <1>1, BatchMarks
<1> HIDE DEF b, p, r, c, t, pn
<1>10. <<"batch", b>> \notin Twice /\ Count(r, Twice) = 0
  <2>1. Count(s, Twice) = 0
    BY DEF Owned
  <2>2. Count(s, Twice) = Count(r, Twice) + (IF <<"batch", b>> \in Twice THEN 1 ELSE 0)
    BY <1>3
  <2>3. Count(r, Twice) \in Nat
    BY <1>7
  <2> QED
    BY <2>1, <2>2, <2>3
<1>11. \A q \in Payloads : Count(b, Just(q)) <= 1
  BY <1>5, <1>7, <1>10
<1>12. ASSUME NEW q \in Payloads
       PROVE  /\ Count(c, Just(q)) = IF q = p THEN 0 ELSE Count(b, Just(q))
              /\ q = p => Count(b, Just(q)) = 1
  <2>1. Count(b, Just(q)) = Count(c, Just(q)) + (IF q = p THEN 1 ELSE 0)
    BY <1>4 DEF Just
  <2>2. Count(b, Just(q)) \in Nat /\ Count(c, Just(q)) \in Nat /\ Count(b, Just(q)) <= 1
    BY <1>7, <1>11
  <2> QED
    BY <2>1, <2>2
<1>13. \A q \in Payloads : Count(c, Just(q)) <= 1
  BY <1>11, <1>12
<1>14. Count(t, Twice) = 0
  BY <1>1, <1>9, <1>10, <1>13
<1>15. ASSUME NEW q \in Payloads
       PROVE  /\ Count(items, Just(q)) + Count(t, BatchWith(q)) = IF pn[q] = "queue" THEN 1 ELSE 0
              /\ q = p => pp[p] = "queue"
  <2>1. /\ Count(items, Just(q)) + Count(s, BatchWith(q)) = IF pp[q] = "queue" THEN 1 ELSE 0
        /\ Count(items, Just(q)) \in Nat /\ Count(r, BatchWith(q)) \in Nat
    BY <1>7 DEF Owned
  <2>2. Count(s, BatchWith(q)) = Count(r, BatchWith(q)) + (IF Count(b, Just(q)) > 0 THEN 1 ELSE 0)
    BY <1>3, <1>5
  <2>3. Count(t, BatchWith(q)) = (IF Count(c, Just(q)) > 0 THEN 1 ELSE 0) + Count(r, BatchWith(q))
    BY <1>1, <1>8
  <2>4. CASE q = p
    <3>1. Count(c, Just(q)) = 0
      BY <1>12, <2>4
    <3>2. Count(b, Just(q)) = 1
      BY <1>12, <2>4
    <3>3. Count(s, BatchWith(q)) = Count(r, BatchWith(q)) + 1
      BY <2>2, <3>2
    <3>4. Count(items, Just(q)) = 0 /\ Count(r, BatchWith(q)) = 0 /\ pp[q] = "queue"
      BY <2>1, <3>3
    <3>5. Count(t, BatchWith(q)) = 0
      BY <2>3, <3>1, <3>4
    <3> QED
      BY <1>6, <2>4, <3>4, <3>5
  <2>5. CASE q # p
    <3>1. Count(c, Just(q)) = Count(b, Just(q))
      BY <1>12, <2>5
    <3>2. Count(t, BatchWith(q)) = Count(s, BatchWith(q))
      BY <2>1, <2>2, <2>3, <3>1
    <3>3. pn[q] = pp[q]
      BY <1>6, <2>5
    <3> QED
      BY <2>1, <2>5, <3>2, <3>3
  <2> QED
    BY <2>4, <2>5
<1>16. Owned(items, t, pn) /\ pp[p] = "queue"
  BY <1>1, <1>14, <1>15 DEF Owned
<1> QED
  BY <1>16 DEF t, pn, p, c, r, b

(* What the function y keeps of x while it is closing or being emptied.    *)
Narrows(x, y) ==
  /\ y.finish = x.finish /\ y.finalized = x.finalized /\ y.reg = x.reg
  /\ (x.closed => y.closed) /\ (y.state = "closed" => x.state = "closed")
  /\ (x.items = <<>> => y.items = <<>>)

(* A function that is only closed or emptied finishes as before.           *)
LEMMA FinishingKeeps ==
  ASSUME NEW x, NEW y, NEW s, NEW t, Finishing(x, s), Narrows(x, y),
         Count(t, Plain("finish")) = Count(s, Plain("finish"))
  PROVE  Finishing(y, t)
BY DEF Finishing, Narrows

(* finish_tsfn_release begins, y being the function that is closed.        *)
LEMMA FinishingStarts ==
  ASSUME NEW x \in Function, NEW y \in Function, NEW s \in Seq(Frame), NEW t,
         Finishing(x, s), Narrows(x, y),
         Count(t, Plain("finish")) = Count(s, Plain("finish")) + (IF x.finish THEN 0 ELSE 1)
  PROVE  Finishing(StartFinish(y), t)
<1> DEFINE z == StartFinish(y)
<1>1. /\ z \in Function /\ z.finish /\ z.finalized = y.finalized
      /\ z.state = y.state /\ (y.closed => z.closed)
      /\ z.items = (IF y.finish THEN y.items ELSE <<>>)
      /\ (z.reg <=> y.reg /\ ~y.finish)
      /\ (~y.finish => z.closed)
  BY StartFinishIs
<1> HIDE DEF z
<1>2. Count(s, Plain("finish")) \in Nat /\ x.finalized \in Nat
  BY CountType, FunctionTypes
<1>3. CASE x.finish
  <2>1. /\ y.finish /\ y.items = <<>> /\ y.closed /\ Count(s, Plain("finish")) + x.finalized = 1
        /\ Count(t, Plain("finish")) = Count(s, Plain("finish"))
    BY <1>2, <1>3 DEF Finishing, Narrows
  <2> QED
    BY <1>1, <1>3, <2>1 DEF Finishing, Narrows, z
<1>4. CASE ~x.finish
  <2>1. Count(s, Plain("finish")) = 0 /\ x.finalized = 0
    BY <1>2, <1>4 DEF Finishing
  <2>2. ~y.finish /\ y.finalized = 0 /\ y.state # "closed"
    BY <1>4, <2>1 DEF Finishing, Narrows
  <2>3. Count(t, Plain("finish")) = 1
    BY <1>4, <2>1
  <2> QED
    BY <1>1, <2>2, <2>3 DEF Finishing, z
<1> QED
  BY <1>3, <1>4

(* Closing, aborting, dropping a reference and emptying the queue are of   *)
(* this kind.                                                              *)
LEMMA NarrowKinds ==
  ASSUME NEW x \in Function
  PROVE  /\ Narrows(x, x) /\ Narrows(x, TakeAll(x))
         /\ \A y : SameFunction(x, y) => Narrows(x, y)
         /\ Narrows(x, Drop(x)) /\ Narrows(x, Abort(x)) /\ Narrows(x, TakeAll(Abort(x)))
         /\ Drop(x) \in Function /\ Abort(x) \in Function
<1>1. \A y : SameFunction(x, y) => Narrows(x, y)
  BY DEF SameFunction, Narrows
<1>2. \A y \in Function : Narrows(y, TakeAll(y))
  BY TakeAllIs DEF Narrows
<1>3. SameFunction(x, Drop(x)) /\ SameFunction(x, Abort(x))
  BY ClosingSame
<1>4. Drop(x) \in Function /\ Abort(x) \in Function
  BY <1>3 DEF SameFunction
<1>5. Narrows(x, Abort(x)) /\ Narrows(Abort(x), TakeAll(Abort(x)))
  BY <1>1, <1>2, <1>3, <1>4
<1>6. Narrows(x, TakeAll(Abort(x)))
  BY <1>5 DEF Narrows
<1>7. Narrows(x, x)
  BY DEF Narrows
<1> QED
  BY <1>1, <1>2, <1>3, <1>4, <1>5, <1>6, <1>7

(* Every queued payload has its job: jobs are added, or payloads leave.    *)
LEMMA BackedKeeps ==
  ASSUME NEW q \in Seq(Job), NEW q2 \in Seq(Job), NEW items \in Seq(Payloads), NEW i2 \in Seq(Payloads),
         Backed(q, items), Count(q2, Plain("tsfn")) >= Count(q, Plain("tsfn")),
         Len(i2) <= Len(items)
  PROVE  Backed(q2, i2)
<1>1. /\ Count(q, Plain("tsfn")) \in Nat /\ Count(q2, Plain("tsfn")) \in Nat
      /\ Len(items) \in Nat /\ Len(i2) \in Nat
  BY CountType, LenProperties
<1> QED
  BY <1>1 DEF Backed

(* finish_tsfn_release on the stack: the queue in a batch, and the frame.  *)
LEMMA FinishCounts ==
  ASSUME NEW y \in Function, NEW s \in Seq(Frame)
  PROVE  LET t == FinishFrames(y) \o s
         IN  /\ t \in Seq(Frame)
             /\ Count(t, Plain("finish")) = Count(s, Plain("finish")) + (IF y.finish THEN 0 ELSE 1)
             /\ ~y.finish => Gains(s, t, y.items)
             /\ y.finish => t = s
<1> DEFINE t == FinishFrames(y) \o s
<1>1. /\ FinishFrames(y) \in Seq(Frame) /\ y.items \in Seq(Payloads)
      /\ \A M : Count(s, M) \in Nat
  BY FinishFramesAre, FunctionTypes, CountType
<1>2. t \in Seq(Frame) /\ \A M : Count(t, M) = Count(FinishFrames(y), M) + Count(s, M)
  BY <1>1, ConcatProperties, CountConcat
<1>3. CASE y.finish
  <2>1. FinishFrames(y) = <<>>
    BY <1>3, FinishFramesAre
  <2>2. t = s
    BY <2>1, ConcatEmptySeq
  <2> HIDE DEF t
  <2>3. Count(t, Plain("finish")) = Count(s, Plain("finish")) + 0
    BY <1>1, <2>2
  <2> QED
    BY <1>2, <1>3, <2>2, <2>3 DEF t
<1>4. CASE ~y.finish
  <2> HIDE DEF t
  <2>1. \A M : Count(FinishFrames(y), M)
                 = Count(BatchOf(y.items), M) + (IF <<"finish">> \in M THEN 1 ELSE 0)
    BY <1>4, FinishFramesAre
  <2>2. \A M : Count(BatchOf(y.items), M) \in Nat
    BY <1>1, BatchFrames, CountType
  <2>3. \A M : Count(t, M) = Count(BatchOf(y.items), M)
                               + (IF <<"finish">> \in M THEN 1 ELSE 0) + Count(s, M)
    BY <1>2, <2>1
  <2>4. \A M : <<"finish">> \notin M => Count(t, M) = Count(BatchOf(y.items), M) + Count(s, M)
    BY <1>1, <2>2, <2>3
  <2>5. /\ <<"finish">> \notin Twice /\ \A p \in Payloads : <<"finish">> \notin BatchWith(p)
        /\ <<"finish">> \in Plain("finish")
    BY DEF Twice, BatchWith, Plain
  <2>6. Count(t, Plain("finish")) = Count(s, Plain("finish")) + 1
    <3>1. Count(BatchOf(y.items), Plain("finish")) = 0 /\ Count(s, Plain("finish")) \in Nat
      BY <1>1, BatchCounts
    <3>2. Count(t, Plain("finish")) = 0 + 1 + Count(s, Plain("finish"))
      BY <2>3, <2>5, <3>1
    <3> QED
      BY <3>1, <3>2
  <2> QED
    BY <1>2, <1>4, <2>4, <2>5, <2>6 DEF t, Gains
<1> QED
  BY <1>3, <1>4

(* A batch is pushed.                                                      *)
LEMMA BatchPushed ==
  ASSUME NEW items \in Seq(Payloads), NEW s \in Seq(Frame)
  PROVE  LET t == BatchOf(items) \o s
         IN  /\ t \in Seq(Frame)
             /\ Count(t, Plain("finish")) = Count(s, Plain("finish"))
             /\ Gains(s, t, items)
<1>1. BatchOf(items) \in Seq(Frame) /\ AgreeBut(s, BatchOf(items) \o s, {"batch"})
  BY BatchFrames
<1>2. \A M : Count(BatchOf(items) \o s, M) = Count(BatchOf(items), M) + Count(s, M)
  BY <1>1, CountConcat
<1> QED
  BY <1>1, <1>2 DEF AgreeBut, Gains
------------------------------------------------------------------------------
(* The driver y may have more jobs than x, and owes no more.               *)

More(x, y) ==
  /\ y \in Driver
  /\ y.tx = x.tx /\ y.running = x.running /\ y.finished = x.finished
  /\ y.inflight <= x.inflight /\ y.idle <= x.idle
  /\ ~x.tx => y.jobs = x.jobs
  /\ \A M : Count(y.jobs, M) >= Count(x.jobs, M)

(* Posting, waking, releasing a keepalive and dropping an idle reference   *)
(* are of this kind.                                                       *)
LEMMA MoreKinds ==
  ASSUME NEW x \in Driver
  PROVE  /\ More(x, x) /\ More(x, WakeIfQuiescent(x)) /\ More(x, DecPending(x))
         /\ More(x, ReleaseKeepalive(x))
         /\ \A j \in Job : More(x, Post(x, j)) /\ More(x, PostComplete(x, j))
         /\ \A n \in Nat : n <= x.idle =>
              More(x, [x EXCEPT !.idle = n]) /\ More(x, WakeIfQuiescent([x EXCEPT !.idle = n]))
<1>0. FALSE \in BOOLEAN /\ <<>> \in Seq(Job)
  OBVIOUS
<1>1. /\ x.inflight \in Nat /\ x.idle \in Nat /\ x.pending \in Nat
      /\ \A M : Count(x.jobs, M) \in Nat
  BY DriverTypes
<1>2. ASSUME NEW y, y \in Driver, y.tx = x.tx, y.jobs = x.jobs, y.running = x.running,
             y.finished = x.finished, y.inflight <= x.inflight, y.idle <= x.idle
      PROVE  More(x, y)
  BY <1>1, <1>2 DEF More
<1>3. ASSUME NEW y, NEW z, More(x, y), NEW j, Adds(y, z, j)
      PROVE  More(x, z)
  <2>1. z \in Driver /\ y \in Driver
    BY <1>3 DEF More, Adds
  <2>2. \A M : Count(z.jobs, M) \in Nat /\ Count(y.jobs, M) \in Nat
    BY <2>1, DriverTypes
  <2>3. \A M : Count(z.jobs, M) >= Count(y.jobs, M) /\ Count(y.jobs, M) >= Count(x.jobs, M)
    BY <1>3 DEF More, Adds
  <2>4. \A M : Count(z.jobs, M) >= Count(x.jobs, M)
    BY <1>1, <2>2, <2>3
  <2> QED
    BY <1>3, <2>1, <2>4 DEF More, Adds
<1>4. More(x, x)
  BY <1>1, <1>2
<1>5. More(x, WakeIfQuiescent(x))
  BY <1>3, <1>4, WakeAdds
<1>6. More(x, DecPending(x))
  <2> DEFINE n == IF x.pending = 0 THEN 0 ELSE x.pending - 1
  <2>1. n \in Nat
    BY <1>1
  <2>2. DecPending(x) = [x EXCEPT !.pending = n]
    BY DEF DecPending
  <2> HIDE DEF n
  <2>3. Holds(DecPending(x), x.tx, x.jobs, n, x.idle, x.inflight, x.running, x.finished)
    BY <1>0, <2>1, <2>2, DriverSets
  <2> QED
    BY <1>1, <1>2, <2>3 DEF Holds
<1>7. More(x, ReleaseKeepalive(x))
  <2> DEFINE n == IF x.inflight = 0 THEN 0 ELSE x.inflight - 1
             z == [x EXCEPT !.inflight = n]
  <2>1. n \in Nat /\ n <= x.inflight
    BY <1>1
  <2>2. ReleaseKeepalive(x) = WakeIfQuiescent(z)
    BY DEF ReleaseKeepalive
  <2> HIDE DEF n
  <2>3. Holds(z, x.tx, x.jobs, x.pending, x.idle, n, x.running, x.finished)
    BY <1>0, <2>1, DriverSets
  <2> HIDE DEF z
  <2>4. More(x, z)
    BY <1>1, <1>2, <2>1, <2>3 DEF Holds
  <2> QED
    BY <1>3, <2>2, <2>3, <2>4, WakeAdds DEF Holds
<1>8. ASSUME NEW j \in Job
      PROVE  More(x, Post(x, j)) /\ More(x, PostComplete(x, j))
  <2>1. More(x, Post(x, j))
    BY <1>3, <1>4, PostAdds
  <2> QED
    BY <1>7, <2>1 DEF PostComplete
<1>9. ASSUME NEW n \in Nat, n <= x.idle
      PROVE  More(x, [x EXCEPT !.idle = n]) /\ More(x, WakeIfQuiescent([x EXCEPT !.idle = n]))
  <2> DEFINE z == [x EXCEPT !.idle = n]
  <2>1. Holds(z, x.tx, x.jobs, x.pending, n, x.inflight, x.running, x.finished)
    BY <1>0, <1>9, DriverSets
  <2> HIDE DEF z
  <2>2. More(x, z)
    BY <1>1, <1>2, <1>9, <2>1 DEF Holds
  <2>3. More(x, WakeIfQuiescent(z))
    BY <1>3, <2>1, <2>2, WakeAdds DEF Holds
  <2> QED
    BY <2>2, <2>3 DEF z
<1> QED
  BY <1>4, <1>5, <1>6, <1>7, <1>8, <1>9

(* A step that moves no payload and finishes nothing.                      *)
LEMMA QuietPInv ==
  ASSUME CInv, CInv', PInv, NEW K, AgreeBut(js, js', K), "batch" \notin K, "finish" \notin K,
         f'.items = f.items, Narrows(f, f'),
         Count(d'.jobs, Plain("tsfn")) >= Count(d.jobs, Plain("tsfn")),
         pay' = pay, Carried(th', pay)
  PROVE  PInv'
<1>1. /\ f.items \in Seq(Payloads) /\ d.jobs \in Seq(Job) /\ d'.jobs \in Seq(Job)
  BY FunctionTypes, DriverTypes DEF CInv, Types
<1>2. Len(f.items) \in Nat
  BY <1>1, LenProperties
<1>3. Owned(f'.items, js', pay')
  BY OwnedKeeps DEF PInv
<1>4. Finishing(f', js')
  BY FinishingKeeps DEF PInv, AgreeBut
<1>5. Backed(d'.jobs, f'.items)
  BY <1>1, <1>2, BackedKeeps DEF PInv
<1> QED
  BY <1>3, <1>4, <1>5 DEF PInv

(* The whole queue is handed out in a batch on top of s.                   *)
LEMMA TakenPInv ==
  ASSUME CInv, CInv', PInv, NEW s \in Seq(Frame), NEW K, AgreeBut(js, s, K),
         "batch" \notin K, "finish" \notin K, js' = BatchOf(f.items) \o s,
         f'.items = <<>>, Narrows(f, f'), d'.jobs = d.jobs, pay' = pay, th' = th
  PROVE  PInv'
<1>1. /\ f.items \in Seq(Payloads) /\ d.jobs \in Seq(Job) /\ <<>> \in Seq(Payloads)
      /\ f \in Function
  BY FunctionTypes, DriverTypes DEF CInv, Types
<1>2. Len(f.items) \in Nat /\ Len(<<>>) = 0
  BY <1>1, LenProperties
<1>3. /\ Count(js', Plain("finish")) = Count(s, Plain("finish"))
      /\ Gains(s, js', f.items)
  BY <1>1, BatchPushed
<1>5. Owned(f'.items, js', pay')
  <2>1. Owned(f.items, s, pay)
    BY OwnedKeeps DEF PInv
  <2>2. Owned(<<>>, js', pay)
    BY <1>1, <1>3, <2>1, OwnedEmpties
  <2> QED
    BY <2>2
<1>6. Finishing(f', js')
  <2>1. Count(js', Plain("finish")) = Count(js, Plain("finish"))
    BY <1>3 DEF AgreeBut
  <2> QED
    BY <2>1, FinishingKeeps DEF PInv
<1>7. Backed(d'.jobs, f'.items)
  <2>1. Count(d.jobs, Plain("tsfn")) \in Nat
    BY <1>1, CountType
  <2> QED
    BY <1>2, <2>1 DEF Backed
<1> QED
  BY <1>5, <1>6, <1>7 DEF PInv

(* finish_tsfn_release begins on top of s.                                 *)
LEMMA StartedPInv ==
  ASSUME CInv, CInv', PInv, NEW s \in Seq(Frame), NEW K, AgreeBut(js, s, K),
         "batch" \notin K, "finish" \notin K, js' = FinishFrames(f) \o s,
         NEW y \in Function, Narrows(f, y), f' = StartFinish(y),
         d'.jobs = d.jobs, pay' = pay, th' = th
  PROVE  PInv'
<1>1. /\ f.items \in Seq(Payloads) /\ d.jobs \in Seq(Job) /\ <<>> \in Seq(Payloads)
      /\ f \in Function
  BY FunctionTypes, DriverTypes DEF CInv, Types
<1>2. Len(<<>>) = 0 /\ Count(d.jobs, Plain("tsfn")) \in Nat
  BY <1>1, CountType
<1>3. /\ Count(js', Plain("finish")) = Count(s, Plain("finish")) + (IF f.finish THEN 0 ELSE 1)
      /\ ~f.finish => Gains(s, js', f.items)
      /\ f.finish => js' = s
  BY <1>1, FinishCounts
<1>4. /\ f'.items = (IF y.finish THEN y.items ELSE <<>>)
      /\ y.finish = f.finish /\ (f.items = <<>> => y.items = <<>>)
  BY StartFinishIs DEF Narrows
<1>5. f'.items = <<>> /\ (f.finish => f.items = <<>>)
  BY <1>4 DEF PInv, Finishing
<1>6. Owned(f.items, s, pay)
  BY OwnedKeeps DEF PInv
<1>7. Owned(f'.items, js', pay')
  <2>1. CASE f.finish
    BY <1>3, <1>5, <1>6, <2>1
  <2>2. CASE ~f.finish
    <3>1. Owned(<<>>, js', pay)
      BY <1>1, <1>3, <1>6, <2>2, OwnedEmpties
    <3> QED
      BY <1>5, <3>1
  <2> QED
    BY <2>1, <2>2
<1>8. Finishing(f', js')
  <2>1. Finishing(f, s)
    <3>1. Count(s, Plain("finish")) = Count(js, Plain("finish"))
      BY DEF AgreeBut
    <3>2. Narrows(f, f)
      BY <1>1, NarrowKinds
    <3> QED
      BY <3>1, <3>2, FinishingKeeps DEF PInv
  <2>2. Finishing(StartFinish(y), js')
    BY <1>1, <1>3, <2>1, FinishingStarts
  <2> QED
    BY <2>2
<1>9. Backed(d'.jobs, f'.items)
  BY <1>2, <1>5 DEF Backed
<1> QED
  BY <1>7, <1>8, <1>9 DEF PInv

(* A job is taken from the channel.                                        *)
LEMMA TakeJobPInv ==
  ASSUME CInv, CInv', PInv, d.jobs # <<>>, TakeJob(js), pay' = pay, th' = th
  PROVE  PInv'
<1>1. /\ Types /\ d.pending = Len(d.jobs) + Count(js, Plain("job")) /\ js \in Seq(Frame)
      /\ f.items \in Seq(Payloads) /\ f \in Function /\ d.jobs \in Seq(Job)
  BY FunctionTypes, DriverTypes DEF CInv, Types, Counted
<1>2. PICK frames \in Seq(Frame) :
           /\ Runs(frames)
           /\ \/ TakesWake(frames) \/ TakesTsfn(frames) \/ TakesAbort(frames)
              \/ TakesRelease(frames)
              \/ \E w \in Works, r \in Outcome : TakesDone(frames, w, r)
  BY <1>1, TakeJobCases
<1> DEFINE T == Plain("tsfn")
           F == Plain("finish")
<1>3. /\ d'.jobs = Tail(d.jobs) /\ Tail(d.jobs) \in Seq(Job)
      /\ Count(d.jobs, T) = Count(d'.jobs, T) + (IF Head(d.jobs) \in T THEN 1 ELSE 0)
      /\ Count(d.jobs, T) \in Nat /\ Count(d'.jobs, T) \in Nat
  <2>1. d'.jobs = Tail(d.jobs) /\ Tail(d.jobs) \in Seq(Job)
    BY <1>1, <1>2, HeadTailProperties DEF Runs
  <2>2. \A M : Count(d.jobs, M) = Count(Tail(d.jobs), M) + (IF Head(d.jobs) \in M THEN 1 ELSE 0)
    BY <1>1, CountTail
  <2> QED
    BY <1>1, <2>1, <2>2, CountType
<1>4. /\ <<"job">> \notin F /\ <<"job">> \notin Twice
      /\ \A p \in Payloads : <<"job">> \notin BatchWith(p)
  BY DEF Plain, Twice, BatchWith
<1>5. /\ Count(js', F) = Count(frames, F) + Count(js, F)
      /\ Count(js', Twice) = Count(frames, Twice) + Count(js, Twice)
      /\ \A p \in Payloads : Count(js', BatchWith(p)) = Count(frames, BatchWith(p)) + Count(js, BatchWith(p))
  BY <1>2, <1>4 DEF Runs
<1>6. \A M : Count(js, M) \in Nat /\ Count(<<>>, M) = 0
  BY <1>1, CountType, CountEmpty
<1>7. Carried(th', pay')
  BY DEF PInv
<1>8. Len(f.items) \in Nat /\ Len(f.items) <= Count(d.jobs, T)
  BY <1>1, LenProperties DEF PInv, Backed
<1>9. Owned(f.items, js, pay) /\ Finishing(f, js)
  BY DEF PInv
<1>10. ASSUME frames = <<>> \/ (\E w \in Works : frames = << <<"complete", w>> >>),
              f' = f, Head(d.jobs) \notin T
       PROVE  PInv'
  <2>1. \A M : (\A w : <<"complete", w>> \notin M) => Count(frames, M) = 0
    BY <1>6, <1>10, CountOne
  <2>2. \A w : /\ <<"complete", w>> \notin F /\ <<"complete", w>> \notin Twice
               /\ \A p \in Payloads : <<"complete", w>> \notin BatchWith(p)
    BY DEF Plain, Twice, BatchWith
  <2>3. /\ Count(js', F) = Count(js, F) /\ Count(js', Twice) = Count(js, Twice)
        /\ \A p \in Payloads : Count(js', BatchWith(p)) = Count(js, BatchWith(p))
    BY <1>5, <1>6, <2>1, <2>2
  <2>4. Owned(f.items, js', pay)
    BY <1>9, <2>3 DEF Owned
  <2>5. Finishing(f, js')
    BY <1>9, <2>3 DEF Finishing
  <2>6. Count(d'.jobs, T) = Count(d.jobs, T)
    BY <1>3, <1>10
  <2>7. Backed(d'.jobs, f.items)
    BY <1>8, <2>6 DEF Backed
  <2> QED
    BY <1>7, <1>10, <2>4, <2>5, <2>7 DEF PInv
<1>11. CASE TakesWake(frames)
  <2>1. <<"wake">> \notin T
    BY DEF Plain
  <2> QED
    BY <1>10, <1>11, <2>1 DEF TakesWake
<1>12. CASE \E w \in Works, r \in Outcome : TakesDone(frames, w, r)
  <2>1. PICK w \in Works, r \in Outcome : TakesDone(frames, w, r)
    BY <1>12
  <2>2. <<"done", w, r>> \notin T
    BY DEF Plain
  <2> QED
    BY <1>10, <2>1, <2>2 DEF TakesDone
<1>13. CASE TakesTsfn(frames)
  <2> DEFINE m == FirstOf(f.items)
             q == RestOf(f.items)
  <2>1. /\ m \in Seq(Payloads) /\ q \in Seq(Payloads)
        /\ \A M : Count(f.items, M) = Count(m, M) + Count(q, M)
        /\ Len(q) = IF f.items = <<>> THEN 0 ELSE Len(f.items) - 1
    BY <1>1, RestOfIs
  <2>2. /\ Head(d.jobs) = <<"tsfn">> /\ frames = BatchOf(m)
        /\ f' = [f EXCEPT !.items = q]
    BY <1>13 DEF TakesTsfn
  <2>3. f.items = <<>> => q = <<>>
    BY DEF RestOf
  <2> HIDE DEF m, q
  <2>4. f'.items = q /\ Narrows(f, f')
    BY <1>1, <2>2, <2>3 DEF Function, Narrows
  <2>5. Gains(js, js', m)
    BY <1>5, <2>2 DEF Gains
  <2>6. Owned(q, js', pay)
    BY <1>1, <1>9, <2>1, <2>5, OwnedMoves
  <2>7. Count(js', F) = Count(js, F)
    <3>1. Count(frames, F) = 0
      BY <2>1, <2>2, BatchCounts
    <3> QED
      BY <1>5, <1>6, <3>1
  <2>8. Finishing(f', js')
    BY <1>9, <2>4, <2>7, FinishingKeeps
  <2>9. Backed(d'.jobs, q)
    <3>1. <<"tsfn">> \in T
      BY DEF Plain
    <3>2. Count(d.jobs, T) = Count(d'.jobs, T) + 1
      BY <1>3, <2>2, <3>1
    <3>3. f.items = <<>> \/ Len(q) = Len(f.items) - 1
      BY <2>1
    <3>4. f.items = <<>> => Len(q) = 0
      BY <2>1
    <3>5. Len(q) <= Count(d'.jobs, T)
      <4> HIDE DEF T
      <4> QED
        BY <1>3, <1>8, <3>2, <3>3, <3>4
    <3> QED
      BY <3>5 DEF Backed
  <2> QED
    BY <1>7, <2>4, <2>6, <2>8, <2>9 DEF PInv
<1>14. ASSUME f'.items = <<>> PROVE Backed(d'.jobs, f'.items)
  <2>1. Len(<<>>) = 0
    OBVIOUS
  <2> QED
    BY <1>3, <1>14, <2>1 DEF Backed
<1>15. CASE TakesAbort(frames)
  <2>1. frames = BatchOf(f.items) /\ f' = TakeAll(f)
    BY <1>15 DEF TakesAbort
  <2>2. f'.items = <<>> /\ Narrows(f, f')
    BY <1>1, <2>1, TakeAllIs, NarrowKinds
  <2>3. Gains(js, js', f.items)
    BY <1>5, <2>1 DEF Gains
  <2>4. Owned(<<>>, js', pay)
    BY <1>1, <1>9, <2>3, OwnedEmpties
  <2>5. Count(js', F) = Count(js, F)
    <3>1. Count(frames, F) = 0
      BY <1>1, <2>1, BatchCounts
    <3> QED
      BY <1>5, <1>6, <3>1
  <2>6. Finishing(f', js')
    BY <1>9, <2>2, <2>5, FinishingKeeps
  <2> QED
    BY <1>7, <1>14, <2>2, <2>4, <2>6 DEF PInv
<1>16. CASE TakesRelease(frames)
  <2>1. frames = FinishFrames(f) /\ f' = StartFinish(f)
    BY <1>16 DEF TakesRelease
  <2>2. Narrows(f, f)
    BY <1>1, NarrowKinds
  <2>3. CASE f.finish
    <3>1. frames = <<>>
      BY <1>1, <2>1, <2>3, FinishFramesAre
    <3>2. js' = js
      BY <1>2, <3>1 DEF Runs
    <3>3. f.items = <<>> /\ f'.items = f.items
      BY <1>1, <1>9, <2>1, <2>3, StartFinishIs DEF Finishing
    <3>4. Count(js', F) = Count(js, F) + (IF f.finish THEN 0 ELSE 1)
      BY <1>6, <2>3, <3>2
    <3>5. Finishing(f', js')
      BY <1>1, <1>9, <2>1, <2>2, <3>4, FinishingStarts
    <3>6. Owned(f'.items, js', pay')
      BY <1>9, <3>2, <3>3
    <3> QED
      BY <1>7, <1>14, <3>3, <3>5, <3>6 DEF PInv
  <2>4. CASE ~f.finish
    <3>1. \A M : Count(frames, M)
                   = Count(BatchOf(f.items), M) + (IF <<"finish">> \in M THEN 1 ELSE 0)
      BY <1>1, <2>1, <2>4, FinishFramesAre
    <3>2. /\ <<"finish">> \notin Twice /\ \A p \in Payloads : <<"finish">> \notin BatchWith(p)
          /\ <<"finish">> \in F
      BY DEF Twice, BatchWith, Plain
    <3>3. /\ Count(BatchOf(f.items), F) = 0 /\ \A M : Count(BatchOf(f.items), M) \in Nat
      BY <1>1, BatchCounts, CountType
    <3>4. Count(frames, F) = 1
      BY <3>1, <3>2, <3>3
    <3>5. Count(js', F) = Count(js, F) + (IF f.finish THEN 0 ELSE 1)
      BY <1>5, <1>6, <2>4, <3>4
    <3>6. /\ Count(frames, Twice) = Count(BatchOf(f.items), Twice)
          /\ \A p \in Payloads : Count(frames, BatchWith(p)) = Count(BatchOf(f.items), BatchWith(p))
      BY <3>1, <3>2, <3>3
    <3>7. Gains(js, js', f.items)
      BY <1>5, <3>6 DEF Gains
    <3>8. Owned(<<>>, js', pay)
      BY <1>1, <1>9, <3>7, OwnedEmpties
    <3>9. f'.items = <<>>
      BY <1>1, <2>1, <2>4, StartFinishIs
    <3>10. Finishing(f', js')
      BY <1>1, <1>9, <2>1, <2>2, <3>5, FinishingStarts
    <3> QED
      BY <1>7, <1>14, <3>8, <3>9, <3>10 DEF PInv
  <2> QED
    BY <2>3, <2>4
<1> QED
  BY <1>2, <1>11, <1>12, <1>13, <1>15, <1>16

(* A step that leaves the function, its threads and the payloads alone.    *)
LEMMA SamePInv ==
  ASSUME CInv, CInv', PInv, NEW K, AgreeBut(js, js', K), "batch" \notin K, "finish" \notin K,
         Count(d'.jobs, Plain("tsfn")) >= Count(d.jobs, Plain("tsfn")),
         f' = f, pay' = pay, th' = th
  PROVE  PInv'
<1>1. Narrows(f, f)
  BY NarrowKinds DEF CInv, Types
<1>2. Carried(th, pay)
  BY DEF PInv
<1> QED
  BY <1>1, <1>2, QuietPInv

(* drain_threadsafe_functions.                                             *)
LEMMA DrainedPInv ==
  ASSUME CInv, CInv', PInv, NEW s \in Seq(Frame), NEW K, AgreeBut(js, s, K),
         "batch" \notin K, "finish" \notin K, DrainThreadsafeFunctions(s),
         d'.jobs = d.jobs, pay' = pay, th' = th
  PROVE  PInv'
<1>0. f \in Function /\ Count(d.jobs, Plain("tsfn")) \in Nat
  BY DriverTypes DEF CInv, Types
<1>1. CASE f.reg
  <2>1. js' = BatchOf(f.items) \o s /\ f' = TakeAll(f)
    BY <1>1 DEF DrainThreadsafeFunctions, Batch
  <2>2. f'.items = <<>> /\ Narrows(f, f')
    BY <1>0, <2>1, TakeAllIs, NarrowKinds
  <2> QED
    BY <2>1, <2>2, TakenPInv
<1>2. CASE ~f.reg
  <2>1. js' = s /\ f' = f
    BY <1>2 DEF DrainThreadsafeFunctions
  <2> QED
    BY <1>0, <2>1, SamePInv
<1> QED
  BY <1>1, <1>2

(* The steps of the JavaScript thread's stack.                             *)
LEMMA StackStepsPInv ==
  ASSUME CInv, CInv', PInv,
         \/ Poll \/ DrainJob \/ DrainEnd \/ JobEnd \/ DrainTsfns \/ Consume
         \/ CallReturns \/ CompleteReturns \/ FinishRelease
  PROVE  PInv'
<1>0. /\ d \in Driver /\ f \in Function /\ js \in Seq(Frame) /\ js' \in Seq(Frame)
      /\ d' \in Driver /\ f.items \in Seq(Payloads) /\ pay \in [Payloads -> Owners]
      /\ d.jobs \in Seq(Job) /\ Count(d.jobs, Plain("tsfn")) \in Nat
  BY FunctionTypes, DriverTypes DEF CInv, Types
<1>1. CASE Poll
  <2>1. d' = SpawnLoop(d) \/ d' = d
    BY <1>1 DEF Poll
  <2>2. d'.jobs = d.jobs /\ pay' = pay /\ th' = th
    BY <1>0, <1>1, <2>1, SpawnHolds DEF Holds, Poll
  <2>3. CASE RxFree
    <3>1. js' = << <<"drain">>, <<"tsfns">> >> \o js /\ f' = f
      BY <1>1, <2>3 DEF Poll
    <3>2. <<"drain">> \in Frame /\ <<"tsfns">> \in Frame
      BY DEF Frame
    <3>3. AgreeBut(js, js', {<<"drain">>[1], <<"tsfns">>[1]})
      BY <1>0, <3>1, <3>2, PushTwoAgrees
    <3>4. {<<"drain">>[1], <<"tsfns">>[1]} = {"drain", "tsfns"}
      OBVIOUS
    <3>5. AgreeBut(js, js', {"drain", "tsfns"})
      BY <3>3, <3>4
    <3>6. "batch" \notin {"drain", "tsfns"} /\ "finish" \notin {"drain", "tsfns"}
      OBVIOUS
    <3>7. Count(d'.jobs, Plain("tsfn")) >= Count(d.jobs, Plain("tsfn"))
      BY <1>0, <2>2
    <3> QED
      BY <2>2, <3>1, <3>5, <3>6, <3>7, SamePInv
  <2>4. CASE ~RxFree
    <3>1. DrainThreadsafeFunctions(js)
      BY <1>1, <2>4 DEF Poll
    <3>2. AgreeBut(js, js, {})
      BY <1>0, AgreeSame
    <3> QED
      BY <1>0, <2>2, <3>1, <3>2, DrainedPInv
  <2> QED
    BY <2>3, <2>4
<1>2. CASE DrainJob
  BY <1>2, TakeJobPInv DEF DrainJob
<1>3. CASE DrainEnd \/ JobEnd \/ CallReturns \/ CompleteReturns
  <2>1. js # <<>> /\ js' = Tail(js) /\ f' = f /\ pay' = pay /\ th' = th
    BY <1>3 DEF DrainEnd, JobEnd, CallReturns, CompleteReturns
  <2>2. Head(js)[1] \in {"drain", "job", "call", "teardown", "complete"}
    BY <1>3 DEF DrainEnd, JobEnd, CallReturns, CompleteReturns
  <2>3. d' = d \/ d' = DecPending(d) \/ d' = ReleaseKeepalive(d)
    BY <1>3 DEF DrainEnd, JobEnd, CallReturns, CompleteReturns
  <2>4. More(d, d')
    BY <1>0, <2>3, MoreKinds
  <2>5. Count(d'.jobs, Plain("tsfn")) >= Count(d.jobs, Plain("tsfn"))
    BY <2>4 DEF More
  <2>6. AgreeBut(js, js', {Head(js)[1]})
    BY <1>0, <2>1, PopAgrees
  <2>7. "batch" \notin {Head(js)[1]} /\ "finish" \notin {Head(js)[1]}
    BY <2>2
  <2> QED
    BY <2>1, <2>5, <2>6, <2>7, SamePInv
<1>4. CASE DrainTsfns
  <2>1. /\ js # <<>> /\ Head(js) = <<"tsfns">> /\ DrainThreadsafeFunctions(Tail(js))
        /\ d' = d /\ th' = th /\ pay' = pay
    BY <1>4 DEF DrainTsfns
  <2>2. AgreeBut(js, Tail(js), {"tsfns"}) /\ Tail(js) \in Seq(Frame)
    BY <1>0, <2>1, PopAgrees DEF AgreeBut
  <2> QED
    BY <2>1, <2>2, DrainedPInv
<1>5. CASE Consume
  <2> DEFINE p == Head(Head(js)[2])
             op == IF f.aborted THEN "teardown" ELSE "call"
             o == IF f.aborted THEN "torn" ELSE "delivered"
  <2>1. /\ js # <<>> /\ Head(js)[1] = "batch"
        /\ js' = << <<op, p>> >> \o BatchOf(Tail(Head(js)[2])) \o Tail(js)
        /\ pay' = [pay EXCEPT ![p] = o]
        /\ d' = d /\ f' = f /\ th' = th
    BY <1>5 DEF Consume
  <2>2. op \in {"call", "teardown"} /\ o \in Owners /\ o # "queue"
    BY DEF Owners
  <2> HIDE DEF op, o
  <2>3. Owned(f.items, js, pay)
    BY DEF PInv
  <2>4. Owned(f.items, js', pay') /\ pay[p] = "queue"
    BY <1>0, <2>1, <2>2, <2>3, OwnedConsumes
  <2>5. p \in Payloads /\ AgreeBut(js, js', {"batch", "call", "teardown"})
    BY <1>0, <2>1, <2>2, ConsumeAgrees
  <2> HIDE DEF p
  <2>6. Finishing(f, js')
    <3>1. Count(js', Plain("finish")) = Count(js, Plain("finish"))
      BY <2>5 DEF AgreeBut
    <3> QED
      BY <1>0, <3>1, FinishingKeeps, NarrowKinds DEF PInv
  <2>7. Carried(th', pay')
    <3>1. \A q \in Payloads : q # p => pay'[q] = pay[q]
      BY <1>0, <2>1, <2>5
    <3>2. \A t \in Threads : th[t].pc = "admit" => th[t].item \in Payloads
      BY DEF CInv, Types, Thread
    <3>3. Carried(th, pay)
      BY DEF PInv
    <3> QED
      BY <2>1, <2>4, <3>1, <3>2, <3>3 DEF Carried
  <2> QED
    BY <2>1, <2>4, <2>6, <2>7 DEF PInv
<1>6. CASE FinishRelease
  <2> DEFINE F == Plain("finish")
  <2>1. /\ js # <<>> /\ Head(js) = <<"finish">> /\ js' = Tail(js) /\ th' = th /\ pay' = pay
        /\ f' = [f EXCEPT !.finalized = f.finalized + 1, !.idle = 0, !.state = "closed",
                          !.reg = FALSE]
        /\ d' = WakeIfQuiescent([d EXCEPT !.idle = @ - f.idle])
    BY <1>6 DEF FinishRelease
  <2>2. d.idle = f.idle /\ d.idle - f.idle = 0 /\ d.idle \in Nat
    BY <1>0, DriverTypes DEF CInv, Counted
  <2>3. d' = WakeIfQuiescent([d EXCEPT !.idle = 0])
    BY <2>1, <2>2
  <2>4. More(d, d')
    <3>1. 0 \in Nat /\ 0 <= d.idle
      BY <2>2
    <3> QED
      BY <1>0, <2>3, <3>1, MoreKinds
  <2>5. Backed(d'.jobs, f.items)
    <3>1. Count(d'.jobs, Plain("tsfn")) \in Nat /\ Len(f.items) \in Nat
      BY <1>0, DriverTypes, LenProperties
    <3>2. Count(d'.jobs, Plain("tsfn")) >= Count(d.jobs, Plain("tsfn"))
      BY <2>4 DEF More
    <3>3. Len(f.items) <= Count(d.jobs, Plain("tsfn"))
      BY DEF PInv, Backed
    <3> QED
      BY <1>0, <3>1, <3>2, <3>3 DEF Backed
  <2>6. /\ f'.finalized = f.finalized + 1 /\ f'.reg = FALSE /\ f'.items = f.items
        /\ f'.finish = f.finish /\ f'.closed = f.closed /\ f.finalized \in Nat
    BY <1>0, <2>1 DEF Function
  <2>7. Count(js, F) = Count(js', F) + 1 /\ Count(js', F) \in Nat
    <3>1. <<"finish">> \in F
      BY DEF Plain
    <3>2. \A M : Count(js, M) = Count(js', M) + (IF Head(js) \in M THEN 1 ELSE 0)
      BY <1>0, <2>1, CountTail
    <3> QED
      BY <1>0, <2>1, <3>1, <3>2, CountType
  <2>8. /\ Count(js, F) + f.finalized = IF f.finish THEN 1 ELSE 0
        /\ f.finish => f.items = <<>> /\ f.closed
    BY DEF PInv, Finishing
  <2> HIDE DEF F
  <2>9. f.finish /\ f.finalized = 0 /\ Count(js', F) = 0
    BY <2>6, <2>7, <2>8
  <2>10. Finishing(f', js')
    BY <2>6, <2>8, <2>9 DEF Finishing, F
  <2>11. AgreeBut(js, js', {"finish"})
    BY <1>0, <2>1, PopAgrees
  <2>12. Owned(f.items, js', pay)
    <3>1. Owned(f.items, js, pay)
      BY DEF PInv
    <3> QED
      BY <2>11, <3>1, OwnedKeeps
  <2>13. Carried(th, pay)
    BY DEF PInv
  <2> QED
    BY <2>1, <2>5, <2>6, <2>10, <2>12, <2>13 DEF PInv
<1> QED
  BY <1>1, <1>2, <1>3, <1>4, <1>5, <1>6

(* The steps of run_loop.                                                  *)
LEMMA LoopStepsPInv ==
  ASSUME CInv, CInv', PInv,
         \/ LoopTop \/ LoopTry \/ LoopRecv \/ LoopDrain \/ LoopExit \/ LoopLast \/ LoopTail
  PROVE  PInv'
<1>0. d \in Driver /\ js \in Seq(Frame) /\ Count(d.jobs, Plain("tsfn")) \in Nat
  BY DriverTypes DEF CInv, Types
<1>1. th' = th /\ pay' = pay
  BY DEF LoopTop, LoopTry, LoopRecv, LoopDrain, LoopExit, LoopLast, LoopTail
<1>2. CASE d.jobs # <<>> /\ TakeJob(js)
  BY <1>1, <1>2, TakeJobPInv
<1>3. CASE ~(d.jobs # <<>> /\ TakeJob(js))
  <2>1. f' = f
    BY <1>3 DEF LoopTop, LoopTry, LoopRecv, LoopDrain, LoopExit, LoopLast, LoopTail
  <2>2. \/ d' = d \/ d' = [d EXCEPT !.running = FALSE] \/ d' = [d EXCEPT !.finished = TRUE]
    BY <1>3 DEF LoopTop, LoopTry, LoopRecv, LoopDrain, LoopExit, LoopLast, LoopTail
  <2>3. js' = js \/ (js = <<>> /\ js' = << <<"drain">> >>)
    BY <1>3 DEF LoopTop, LoopTry, LoopRecv, LoopDrain, LoopExit, LoopLast, LoopTail, Idle
  <2>4. d'.jobs = d.jobs
    BY <1>0, <2>2 DEF Driver
  <2>5. AgreeBut(js, js', {"drain"})
    BY <1>0, <2>3, AgreeSame, FirstDrain
  <2> QED
    BY <1>0, <1>1, <2>1, <2>4, <2>5, SamePInv
<1> QED
  BY <1>2, <1>3

(* The steps of the async work items.                                      *)
LEMMA WorkStepsPInv ==
  ASSUME CInv, CInv', PInv, NEW w \in Works,
         \/ QueueWork(w) \/ QueueWorkInline(w) \/ CancelWork(w)
         \/ WorkerStart(w) \/ WorkerEnd(w)
  PROVE  PInv'
<1>0. /\ d \in Driver /\ js \in Seq(Frame) /\ Count(d.jobs, Plain("tsfn")) \in Nat
      /\ d.inflight + 1 \in Nat
  <2>1. d \in Driver /\ js \in Seq(Frame)
    BY DEF CInv, Types
  <2>2. d.inflight \in Nat /\ Count(d.jobs, Plain("tsfn")) \in Nat
    BY <2>1, DriverTypes
  <2> QED
    BY <2>1, <2>2
<1>1. f' = f /\ js' = js /\ th' = th /\ pay' = pay
  BY DEF QueueWork, QueueWorkInline, CancelWork, WorkerStart, WorkerEnd
<1>2. <<"done", w, "ok">> \in Job /\ <<"done", w, "cancelled">> \in Job
  BY DEF Job, Outcome
<1> DEFINE x1 == [d EXCEPT !.inflight = d.inflight + 1]
<1>3. x1 \in Driver /\ x1.jobs = d.jobs
  BY <1>0 DEF Driver
<1>4. \/ d' = SpawnLoop(x1) \/ d' = SpawnLoop(PostComplete(x1, <<"done", w, "ok">>))
      \/ d' = d \/ d' = PostComplete(d, <<"done", w, "ok">>)
      \/ d' = PostComplete(d, <<"done", w, "cancelled">>)
  BY DEF QueueWork, QueueWorkInline, CancelWork, WorkerStart, WorkerEnd
<1> HIDE DEF x1
<1>5. \A x \in Driver : SpawnLoop(x).jobs = x.jobs
  BY SpawnHolds DEF Holds
<1>6. \A x \in Driver, j \in Job :
         /\ PostComplete(x, j) \in Driver
         /\ Count(PostComplete(x, j).jobs, Plain("tsfn")) >= Count(x.jobs, Plain("tsfn"))
  BY MoreKinds DEF More
<1>7. Count(d'.jobs, Plain("tsfn")) >= Count(d.jobs, Plain("tsfn"))
  BY <1>0, <1>2, <1>3, <1>4, <1>5, <1>6
<1>8. AgreeBut(js, js', {})
  BY <1>0, <1>1, AgreeSame
<1> QED
  BY <1>1, <1>7, <1>8, SamePInv

(* A payload enters the queue, from a thread or from JavaScript.           *)
LEMMA EntersPInv ==
  ASSUME CInv, CInv', PInv, NEW p \in Payloads, pay[p] = "caller", ~f.closed, d.tx,
         f' = [f EXCEPT !.items = Append(f.items, p)], pay' = [pay EXCEPT ![p] = "queue"],
         d'.jobs = Post(d, <<"tsfn">>).jobs, js' = js, Carried(th', pay')
  PROVE  PInv'
<1> DEFINE T == Plain("tsfn")
<1>0. /\ d \in Driver /\ f \in Function /\ js \in Seq(Frame) /\ f.items \in Seq(Payloads)
      /\ pay \in [Payloads -> Owners] /\ d.jobs \in Seq(Job)
  BY FunctionTypes, DriverTypes DEF CInv, Types
<1>1. Append(f.items, p) \in Seq(Payloads) /\ Len(Append(f.items, p)) = Len(f.items) + 1
      /\ Len(f.items) \in Nat
  BY <1>0, AppendProperties, LenProperties
<1>2. /\ f'.items = Append(f.items, p) /\ f'.finish = f.finish /\ f'.finalized = f.finalized
      /\ f'.reg = f.reg /\ f'.closed = f.closed /\ f'.state = f.state
  BY <1>0, <1>1 DEF Function
<1>3. Owned(f'.items, js', pay')
  <2>1. Owned(f.items, js, pay)
    BY DEF PInv
  <2> QED
    BY <1>0, <1>2, <2>1, OwnedEnters
<1>4. Finishing(f', js')
  <2>1. ~f.finish
    BY DEF PInv, Finishing
  <2> QED
    BY <1>2, <2>1 DEF PInv, Finishing
<1>5. Backed(d'.jobs, f'.items)
  <2>1. <<"tsfn">> \in T /\ <<"tsfn">> \in Job
    BY DEF Plain, Job
  <2>2. \A M : Count(Post(d, <<"tsfn">>).jobs, M)
                 = Count(d.jobs, M) + (IF d.tx /\ <<"tsfn">> \in M THEN 1 ELSE 0)
    BY <1>0, <2>1, PostAdds
  <2>3. Count(d'.jobs, T) = Count(d.jobs, T) + 1
    BY <2>1, <2>2
  <2>4. Count(d.jobs, T) \in Nat /\ Len(f.items) <= Count(d.jobs, T)
    BY <1>0, CountType DEF PInv, Backed
  <2> HIDE DEF T
  <2>5. Len(f'.items) <= Count(d'.jobs, T)
    BY <1>1, <1>2, <2>3, <2>4
  <2> QED
    BY <2>5 DEF Backed, T
<1> QED
  BY <1>3, <1>4, <1>5 DEF PInv

(* A thread that does not enter the queue.                                 *)
LEMMA CarriedKeeps ==
  ASSUME NEW tt \in [Threads -> Thread], NEW t2 \in [Threads -> Thread], NEW pp, NEW t,
         \A u \in Threads \ {t} : t2[u] = tt[u], t2[t].pc # "admit", Carried(tt, pp)
  PROVE  Carried(t2, pp)
BY DEF Carried

(* The steps of a thread.                                                  *)
LEMMA ThreadStepsPInv ==
  ASSUME CInv, CInv', PInv, NEW t \in Threads,
         \/ \E p \in Payloads, b \in BOOLEAN : ThreadCall(t, p, b)
         \/ AdmitAndPost(t) \/ ThreadRelease(t) \/ ThreadAbort(t)
         \/ ThreadPostAbort(t) \/ ThreadPostRelease(t)
  PROVE  PInv'
<1>0. /\ d \in Driver /\ f \in Function /\ js \in Seq(Frame) /\ th \in [Threads -> Thread]
      /\ th' \in [Threads -> Thread] /\ pay \in [Payloads -> Owners]
      /\ Count(d.jobs, Plain("tsfn")) \in Nat /\ Carried(th, pay)
      /\ \A u \in Threads : th[u].pc = "admit" => th[u].item \in Payloads
  BY DriverTypes DEF CInv, Types, PInv, Thread
<1>1. AgreeBut(js, js, {}) /\ Narrows(f, f)
  BY <1>0, AgreeSame, NarrowKinds
<1>2. ASSUME f'.items = f.items, Narrows(f, f'), More(d, d'), js' = js, pay' = pay,
             Carried(th', pay)
      PROVE  PInv'
  <2>1. Count(d'.jobs, Plain("tsfn")) >= Count(d.jobs, Plain("tsfn"))
    BY <1>2 DEF More
  <2>2. "batch" \notin {} /\ "finish" \notin {} /\ AgreeBut(js, js', {})
    BY <1>1, <1>2
  <2> QED
    BY <1>2, <2>1, <2>2, QuietPInv
<1>3. More(d, d)
  BY <1>0, MoreKinds
<1>4. CASE \E p \in Payloads, b \in BOOLEAN : ThreadCall(t, p, b)
  <2>1. PICK p \in Payloads, b \in BOOLEAN : ThreadCall(t, p, b)
    BY <1>4
  <2>2. /\ pay[p] = "caller" /\ \A u \in Threads : th[u].item # p
        /\ th' = [th EXCEPT ![t].pc = "admit", ![t].item = p, ![t].blocking = b]
        /\ d' = d /\ f' = f /\ js' = js /\ pay' = pay
    BY <2>1 DEF ThreadCall
  <2>3. /\ \A u \in Threads \ {t} : th'[u] = th[u]
        /\ th'[t].pc = "admit" /\ th'[t].item = p
    BY <1>0, <2>2 DEF Thread
  <2>4. Carried(th', pay)
    BY <1>0, <2>2, <2>3 DEF Carried
  <2> QED
    BY <1>1, <1>2, <1>3, <2>2, <2>4
<1>5. CASE AdmitAndPost(t)
  <2>1. /\ th[t].pc = "admit" /\ js' = js
        /\ th' = [th EXCEPT ![t].pc = "idle", ![t].item = "none", ![t].blocking = FALSE]
    BY <1>5 DEF AdmitAndPost
  <2>2. (\A u \in Threads \ {t} : th'[u] = th[u]) /\ th'[t].pc # "admit"
    BY <1>0, <2>1 DEF Thread
  <2>3. CASE d' = d /\ f' = f /\ pay' = pay
    <3>1. Carried(th', pay)
      BY <1>0, <2>2, CarriedKeeps
    <3> QED
      BY <1>1, <1>2, <1>3, <2>1, <2>3, <3>1
  <2>4. CASE ~(d' = d /\ f' = f /\ pay' = pay)
    <3> DEFINE p == th[t].item
    <3>1. /\ ~f.closed /\ d.tx /\ f' = [f EXCEPT !.items = Append(f.items, p)]
          /\ pay' = [pay EXCEPT ![p] = "queue"] /\ d' = Post(d, <<"tsfn">>)
      BY <1>5, <2>4 DEF AdmitAndPost
    <3>2. p \in Payloads /\ pay[p] = "caller"
      BY <1>0, <2>1 DEF Carried
    <3>3. Carried(th', pay')
      <4>1. ASSUME NEW u \in Threads, th'[u].pc = "admit"
            PROVE  u # t /\ th'[u] = th[u] /\ th[u].item # p /\ pay'[th[u].item] = "caller"
        <5>1. u # t /\ th'[u] = th[u]
          BY <2>2, <4>1
        <5>2. th[u].pc = "admit" /\ th[u].item # p
          BY <1>0, <2>1, <4>1, <5>1 DEF Carried
        <5>3. pay[th[u].item] = "caller" /\ th[u].item \in Payloads
          BY <1>0, <5>2 DEF Carried
        <5> HIDE DEF p
        <5> QED
          BY <1>0, <3>1, <5>1, <5>2, <5>3
      <4> QED
        BY <1>0, <4>1 DEF Carried
    <3>4. d'.jobs = Post(d, <<"tsfn">>).jobs
      BY <3>1
    <3> HIDE DEF p
    <3> QED
      BY <2>1, <3>1, <3>2, <3>3, <3>4, EntersPInv
  <2> QED
    BY <2>3, <2>4
<1>6. CASE ThreadRelease(t) \/ ThreadAbort(t)
  <2>1. f' = Drop(f) \/ f' = Abort(f)
    BY <1>6 DEF ThreadRelease, ThreadAbort
  <2>2. d' = d /\ js' = js /\ pay' = pay
    BY <1>6 DEF ThreadRelease, ThreadAbort
  <2>3. (\A u \in Threads \ {t} : th'[u] = th[u]) /\ th'[t].pc # "admit"
    BY <1>0, <1>6 DEF ThreadRelease, ThreadAbort, Thread
  <2>4. Carried(th', pay)
    BY <1>0, <2>3, CarriedKeeps
  <2>5. Narrows(f, f') /\ f'.items = f.items
    BY <1>0, <2>1, ClosingSame, NarrowKinds DEF SameFunction
  <2> QED
    BY <1>2, <1>3, <2>2, <2>4, <2>5
<1>7. CASE ThreadPostAbort(t) \/ ThreadPostRelease(t)
  <2>1. d' = Post(d, <<"abort">>) \/ d' = Post(d, <<"release">>)
    BY <1>7 DEF ThreadPostAbort, ThreadPostRelease
  <2>2. f' = f /\ js' = js /\ pay' = pay
    BY <1>7 DEF ThreadPostAbort, ThreadPostRelease
  <2>3. (\A u \in Threads \ {t} : th'[u] = th[u]) /\ th'[t].pc # "admit"
    BY <1>0, <1>7 DEF ThreadPostAbort, ThreadPostRelease, Thread
  <2>4. Carried(th', pay)
    BY <1>0, <2>3, CarriedKeeps
  <2>5. <<"abort">> \in Job /\ <<"release">> \in Job
    BY DEF Job
  <2>6. More(d, d')
    BY <1>0, <2>1, <2>5, MoreKinds
  <2> QED
    BY <1>1, <1>2, <2>2, <2>4, <2>6
<1> QED
  BY <1>4, <1>5, <1>6, <1>7

(* The calls of the JavaScript thread on the function.                     *)
LEMMA JsStepsPInv ==
  ASSUME CInv, CInv', PInv,
         \/ \E t \in Threads : JsAcquire(t)
         \/ \E p \in Payloads : JsCall(p)
         \/ JsAcquired \/ JsRelease \/ JsAbort \/ JsDrop \/ JsUnref \/ JsRef
  PROVE  PInv'
<1>0. /\ d \in Driver /\ f \in Function /\ js \in Seq(Frame) /\ th \in [Threads -> Thread]
      /\ th' \in [Threads -> Thread] /\ pay \in [Payloads -> Owners]
      /\ f.items \in Seq(Payloads) /\ d.idle = f.idle /\ Carried(th, pay)
  BY FunctionTypes DEF CInv, Types, PInv, Counted
<1>1. More(d, d) /\ Narrows(f, f) /\ AgreeBut(js, js, {"drop"})
  BY <1>0, MoreKinds, NarrowKinds, AgreeSame
<1>2. ASSUME f'.items = f.items, Narrows(f, f'),
             \A M : Count(d'.jobs, M) >= Count(d.jobs, M), pay' = pay, Carried(th', pay),
             NEW k \in {"drop", "acquire"}, AgreeBut(js, js', {k})
      PROVE  PInv'
  <2>1. "batch" \notin {k} /\ "finish" \notin {k}
    BY <1>2
  <2>2. Count(d'.jobs, Plain("tsfn")) >= Count(d.jobs, Plain("tsfn"))
    BY <1>2
  <2> QED
    BY <1>2, <2>1, <2>2, QuietPInv
<1>3. \A M : Count(d.jobs, M) >= Count(d.jobs, M)
  BY <1>1 DEF More
<1>4. CASE \E t \in Threads : JsAcquire(t)
  <2>1. PICK t \in Threads : JsAcquire(t)
    BY <1>4
  <2>2. /\ js' = << <<"acquire", t>> >> \o js /\ f' = f /\ th' = th /\ d' = d /\ pay' = pay
    BY <2>1 DEF JsAcquire
  <2>3. <<"acquire", t>> \in Frame /\ <<"acquire", t>>[1] = "acquire"
    BY DEF Frame
  <2>4. AgreeBut(js, js', {"acquire"})
    BY <1>0, <2>2, <2>3, PushAgrees
  <2> QED
    BY <1>0, <1>1, <1>2, <1>3, <2>2, <2>4
<1>5. CASE \E p \in Payloads : JsCall(p)
  <2>1. PICK p \in Payloads : JsCall(p)
    BY <1>5
  <2>2. /\ pay[p] = "caller" /\ (\A t \in Threads : th[t].item # p) /\ ~f.closed /\ d.tx
        /\ f' = [f EXCEPT !.items = Append(f.items, p)] /\ pay' = [pay EXCEPT ![p] = "queue"]
        /\ d' = SpawnLoop(Post(d, <<"tsfn">>)) /\ js' = js /\ th' = th
    BY <2>1 DEF JsCall
  <2>3. <<"tsfn">> \in Job
    BY DEF Job
  <2>4. d'.jobs = Post(d, <<"tsfn">>).jobs
    <3>1. Post(d, <<"tsfn">>) \in Driver
      BY <1>0, <2>3, MoreKinds DEF More
    <3> QED
      BY <2>2, <3>1, SpawnHolds DEF Holds
  <2>5. Carried(th', pay')
    <3>1. \A q \in Payloads : q # p => pay'[q] = pay[q]
      BY <1>0, <2>2
    <3>2. \A t \in Threads : th[t].pc = "admit" => th[t].item \in Payloads
      BY <1>0 DEF Thread
    <3> QED
      BY <1>0, <2>2, <3>1, <3>2 DEF Carried
  <2> QED
    BY <2>2, <2>4, <2>5, EntersPInv
<1>6. CASE JsAcquired
  <2> DEFINE t == Head(js)[2]
  <2>1. /\ js # <<>> /\ Head(js)[1] = "acquire" /\ js' = Tail(js)
        /\ f' = [f EXCEPT !.refs = f.refs + 1] /\ th' = [th EXCEPT ![t].ref = TRUE]
        /\ d' = d /\ pay' = pay
    BY <1>6 DEF JsAcquired
  <2>2. f'.items = f.items /\ Narrows(f, f')
    BY <1>0, <2>1 DEF Function, Narrows
  <2>3. \A u \in Threads : th'[u].pc = th[u].pc /\ th'[u].item = th[u].item
    <3> HIDE DEF t
    <3> QED
      BY <1>0, <2>1 DEF Thread
  <2>4. Carried(th', pay)
    BY <1>0, <2>3 DEF Carried
  <2>5. AgreeBut(js, js', {"acquire"})
    BY <1>0, <2>1, PopAgrees
  <2> QED
    BY <1>2, <1>3, <2>1, <2>2, <2>4, <2>5
<1>7. CASE JsRelease
  <2>1. /\ f' = [f EXCEPT !.mine = FALSE] /\ js' = << <<"drop">> >> \o js /\ th' = th
        /\ d' = d /\ pay' = pay
    BY <1>7 DEF JsRelease
  <2>2. f'.items = f.items /\ Narrows(f, f')
    BY <1>0, <2>1 DEF Function, Narrows
  <2>3. <<"drop">> \in Frame /\ <<"drop">>[1] = "drop"
    BY DEF Frame
  <2>4. AgreeBut(js, js', {"drop"})
    BY <1>0, <2>1, <2>3, PushAgrees
  <2> QED
    BY <1>0, <1>2, <1>3, <2>1, <2>2, <2>4
<1>8. CASE JsAbort
  <2> DEFINE y == TakeAll(Abort(f))
             s == << <<"drop">> >> \o js
  <2>1. /\ f' = [y EXCEPT !.mine = FALSE] /\ js' = BatchOf(f.items) \o << <<"drop">> >> \o js
        /\ th' = th /\ d' = d /\ pay' = pay
    BY <1>8 DEF JsAbort, Batch
  <2>2. js' = BatchOf(f.items) \o s
    BY <1>0, <2>1, AbortAgrees
  <2>3. Abort(f) \in Function /\ Narrows(f, y)
    BY <1>0, NarrowKinds
  <2>4. y \in Function /\ y.items = <<>>
    BY <2>3, TakeAllIs
  <2> HIDE DEF y
  <2>5. f'.items = <<>> /\ Narrows(f, f')
    BY <2>1, <2>3, <2>4 DEF Function, Narrows
  <2>6. <<"drop">> \in Frame /\ <<"drop">>[1] = "drop"
    BY DEF Frame
  <2>7. AgreeBut(js, s, {"drop"})
    BY <1>0, <2>6, PushAgrees
  <2>8. s \in Seq(Frame) /\ "batch" \notin {"drop"} /\ "finish" \notin {"drop"}
    BY <2>7 DEF AgreeBut
  <2> HIDE DEF s
  <2> QED
    BY <2>1, <2>2, <2>5, <2>7, <2>8, TakenPInv
<1>9. CASE JsDrop
  <2>1. /\ js # <<>> /\ Head(js) = <<"drop">> /\ th' = th
        /\ f' = (IF f.refs = 1 THEN StartFinish(Drop(f)) ELSE Drop(f))
        /\ js' = (IF f.refs = 1 THEN FinishFrames(f) ELSE <<>>) \o Tail(js)
        /\ d' = d /\ pay' = pay
    BY <1>9 DEF JsDrop
  <2>2. Drop(f) \in Function /\ Narrows(f, Drop(f)) /\ Drop(f).items = f.items
    BY <1>0, NarrowKinds, ClosingSame DEF SameFunction
  <2>3. AgreeBut(js, Tail(js), {"drop"}) /\ Tail(js) \in Seq(Frame)
    BY <1>0, <2>1, PopAgrees DEF AgreeBut
  <2>4. CASE f.refs = 1
    <3>1. js' = FinishFrames(f) \o Tail(js) /\ f' = StartFinish(Drop(f))
      BY <2>1, <2>4
    <3>2. "batch" \notin {"drop"} /\ "finish" \notin {"drop"}
      OBVIOUS
    <3> QED
      BY <2>1, <2>2, <2>3, <3>1, <3>2, StartedPInv
  <2>5. CASE f.refs # 1
    <3>1. f' = Drop(f) /\ js' = Tail(js)
      BY <2>1, <2>3, <2>5, ConcatEmptySeq
    <3> QED
      BY <1>0, <1>2, <1>3, <2>1, <2>2, <2>3, <3>1
  <2> QED
    BY <2>4, <2>5
<1>10. CASE JsUnref
  <2>1. /\ f.idle = 1 /\ f' = [f EXCEPT !.idle = 0]
        /\ d' = WakeIfQuiescent([d EXCEPT !.idle = @ - 1])
        /\ js' = js /\ th' = th /\ pay' = pay
    BY <1>10 DEF JsUnref
  <2>2. d.idle = 1
    BY <1>0, <2>1
  <2>3. d' = WakeIfQuiescent([d EXCEPT !.idle = 0])
    BY <2>1, <2>2
  <2>4. More(d, d')
    <3>1. 0 \in Nat /\ 0 <= d.idle
      BY <2>2
    <3> QED
      BY <1>0, <2>3, <3>1, MoreKinds
  <2>5. f'.items = f.items /\ Narrows(f, f')
    BY <1>0, <2>1 DEF Function, Narrows
  <2> QED
    BY <1>0, <1>1, <1>2, <2>1, <2>4, <2>5 DEF More
<1>11. CASE JsRef
  <2>1. /\ f.idle = 0 /\ f' = [f EXCEPT !.idle = 1, !.reref = f.reref + 1]
        /\ d' = SpawnLoop([d EXCEPT !.idle = @ + 1])
        /\ js' = js /\ th' = th /\ pay' = pay
    BY <1>11 DEF JsRef
  <2>2. d.idle = 0
    BY <1>0, <2>1
  <2> DEFINE z == [d EXCEPT !.idle = 1]
  <2>3. d' = SpawnLoop(z)
    BY <2>1, <2>2
  <2>4. z \in Driver /\ z.jobs = d.jobs
    BY <1>0 DEF Driver
  <2> HIDE DEF z
  <2>5. d'.jobs = d.jobs
    BY <2>3, <2>4, SpawnHolds DEF Holds
  <2>6. f'.items = f.items /\ Narrows(f, f')
    BY <1>0, <2>1 DEF Function, Narrows
  <2> QED
    BY <1>0, <1>1, <1>2, <1>3, <2>1, <2>5, <2>6
<1> QED
  BY <1>4, <1>5, <1>6, <1>7, <1>8, <1>9, <1>10, <1>11

(* The dispose of the Env.                                                 *)
LEMMA DisposeStepsPInv ==
  ASSUME CInv, CInv', PInv, BeginDispose \/ CloseSender \/ FinishDispose \/ FreeEnv
  PROVE  PInv'
<1>0. /\ d \in Driver /\ f \in Function /\ js \in Seq(Frame)
      /\ Count(d.jobs, Plain("tsfn")) \in Nat
  BY DriverTypes DEF CInv, Types
<1>1. /\ <<"closesender">> \in Frame /\ <<"free">> \in Frame /\ <<"drain">> \in Frame
      /\ <<>> \in Seq(Frame) /\ << <<"closesender">> >> \in Seq(Frame)
      /\ "batch" \notin {"closesender"} /\ "finish" \notin {"closesender"}
  BY DEF Frame
<1>2. CASE BeginDispose
  <2>1. js = <<>> /\ d' = d /\ th' = th /\ pay' = pay
    BY <1>2 DEF BeginDispose, Idle
  <2>2. AgreeBut(js, << <<"closesender">> >>, {"closesender"})
    <3>1. AgreeBut(js, << <<"closesender">> >> \o <<>>, {<<"closesender">>[1]})
      BY <1>0, <1>1, <2>1, PushAgrees
    <3>2. << <<"closesender">> >> \o <<>> = << <<"closesender">> >>
      BY <1>1, ConcatEmptySeq
    <3> QED
      BY <3>1, <3>2
  <2>3. CASE f.reg /\ f.state # "closed"
    <3>1. /\ f' = StartFinish(Abort(f))
          /\ js' = FinishFrames(f) \o << <<"closesender">> >>
      BY <1>2, <2>3 DEF BeginDispose
    <3>2. Abort(f) \in Function /\ Narrows(f, Abort(f))
      BY <1>0, NarrowKinds
    <3> QED
      BY <1>1, <2>1, <2>2, <3>1, <3>2, StartedPInv
  <2>4. CASE ~(f.reg /\ f.state # "closed")
    <3>1. f' = [f EXCEPT !.reg = FALSE] /\ js' = << <<"closesender">> >>
      BY <1>2, <2>4 DEF BeginDispose
    <3>2. /\ f'.items = f.items /\ f'.finish = f.finish /\ f'.finalized = f.finalized
          /\ f'.closed = f.closed /\ f'.state = f.state /\ f'.reg = FALSE
      BY <1>0, <3>1 DEF Function
    <3>3. Finishing(f, js)
      BY DEF PInv
    <3>4. f.finish
      <4>1. CASE ~f.reg
        BY <3>3, <4>1 DEF Finishing
      <4>2. CASE f.state = "closed"
        <5>1. f.finalized = 1 /\ Count(js, Plain("finish")) \in Nat
          BY <1>0, <3>3, <4>2, CountType DEF Finishing
        <5>2. Count(js, Plain("finish")) + f.finalized = IF f.finish THEN 1 ELSE 0
          BY <3>3 DEF Finishing
        <5> QED
          BY <5>1, <5>2
      <4> QED
        BY <2>4, <4>1, <4>2
    <3>5. Count(js', Plain("finish")) = Count(js, Plain("finish"))
      BY <2>2, <3>1 DEF AgreeBut
    <3>6. Finishing(f', js')
      BY <3>2, <3>3, <3>4, <3>5 DEF Finishing
    <3>7. Owned(f'.items, js', pay')
      <4>1. Owned(f.items, js, pay)
        BY DEF PInv
      <4> QED
        BY <1>1, <2>1, <2>2, <3>1, <3>2, <4>1, OwnedKeeps
    <3>8. Carried(th', pay') /\ Backed(d'.jobs, f'.items)
      BY <2>1, <3>2 DEF PInv
    <3> QED
      BY <3>6, <3>7, <3>8 DEF PInv
  <2> QED
    BY <2>3, <2>4
<1>3. ASSUME NEW K, AgreeBut(js, js', K), "batch" \notin K, "finish" \notin K,
             d'.jobs = d.jobs, f' = f, pay' = pay, th' = th
      PROVE  PInv'
  BY <1>0, <1>3, SamePInv
<1>4. CASE CloseSender \/ FreeEnv
  <2>1. js # <<>> /\ js' = Tail(js) /\ f' = f /\ pay' = pay /\ th' = th
    BY <1>4 DEF CloseSender, FreeEnv
  <2>2. Head(js)[1] \in {"closesender", "free"}
    BY <1>4 DEF CloseSender, FreeEnv
  <2>3. d' = d \/ d' = [d EXCEPT !.tx = FALSE]
    BY <1>4 DEF CloseSender, FreeEnv
  <2>4. d'.jobs = d.jobs
    BY <1>0, <2>3 DEF Driver
  <2>5. AgreeBut(js, js', {Head(js)[1]})
    BY <1>0, <2>1, PopAgrees
  <2>6. "batch" \notin {Head(js)[1]} /\ "finish" \notin {Head(js)[1]}
    BY <2>2
  <2> QED
    BY <1>3, <2>1, <2>4, <2>5, <2>6
<1>5. CASE FinishDispose
  <2>1. /\ js = <<>> /\ js' = << <<"drain">>, <<"free">> >>
        /\ d' = d /\ f' = f /\ th' = th /\ pay' = pay
    BY <1>5 DEF FinishDispose, Idle
  <2>2. AgreeBut(js, js', {"drain", "free"})
    <3>1. AgreeBut(js, << <<"drain">>, <<"free">> >> \o js, {<<"drain">>[1], <<"free">>[1]})
      BY <1>0, <1>1, PushTwoAgrees
    <3>2. << <<"drain">>, <<"free">> >> \in Seq(Frame)
      BY <1>1
    <3>3. << <<"drain">>, <<"free">> >> \o js = << <<"drain">>, <<"free">> >>
      BY <2>1, <3>2, ConcatEmptySeq
    <3>4. {<<"drain">>[1], <<"free">>[1]} = {"drain", "free"}
      OBVIOUS
    <3> QED
      BY <2>1, <3>1, <3>3, <3>4
  <2>3. "batch" \notin {"drain", "free"} /\ "finish" \notin {"drain", "free"}
    OBVIOUS
  <2> QED
    BY <1>3, <2>1, <2>2, <2>3
<1> QED
  BY <1>2, <1>4, <1>5

(* At first nothing is queued, carried, batched or finishing.              *)
LEMMA InitPInv ==
  ASSUME Init
  PROVE  PInv
<1>1. Len(<<>>) = 0 /\ \A M : Count(<<>>, M) = 0
  BY CountEmpty
<1>2. /\ js = <<>> /\ f.items = <<>> /\ d.jobs = <<>>
      /\ f.finish = FALSE /\ f.finalized = 0 /\ f.reg = TRUE /\ f.state = "open"
  BY DEF Init
<1>3. /\ \A p \in Payloads : pay[p] = "caller"
      /\ \A t \in Threads : th[t].pc = "idle"
  BY DEF Init
<1>4. Owned(f.items, js, pay)
  BY <1>1, <1>2, <1>3 DEF Owned
<1>5. Carried(th, pay)
  BY <1>3 DEF Carried
<1>6. Finishing(f, js)
  BY <1>1, <1>2 DEF Finishing
<1>7. Backed(d.jobs, f.items)
  BY <1>1, <1>2 DEF Backed
<1> QED
  BY <1>4, <1>5, <1>6, <1>7 DEF PInv

(* Every step keeps the payloads.                                          *)
LEMMA StepPInv ==
  ASSUME KInv, PInv, [Next]_vars
  PROVE  PInv'
<1>0. CInv /\ CInv'
  BY StepKInv DEF KInv
<1>1. CASE \/ Poll \/ DrainJob \/ DrainEnd \/ JobEnd \/ DrainTsfns \/ Consume
           \/ CallReturns \/ CompleteReturns \/ FinishRelease
  BY <1>0, <1>1, StackStepsPInv
<1>2. CASE \/ LoopTop \/ LoopTry \/ LoopRecv \/ LoopDrain \/ LoopExit \/ LoopLast \/ LoopTail
  BY <1>0, <1>2, LoopStepsPInv
<1>3. CASE \E w \in Works : \/ QueueWork(w) \/ QueueWorkInline(w) \/ CancelWork(w)
                            \/ WorkerStart(w) \/ WorkerEnd(w)
  BY <1>0, <1>3, WorkStepsPInv
<1>4. CASE \E t \in Threads : \/ \E p \in Payloads, b \in BOOLEAN : ThreadCall(t, p, b)
                              \/ AdmitAndPost(t) \/ ThreadRelease(t) \/ ThreadAbort(t)
                              \/ ThreadPostAbort(t) \/ ThreadPostRelease(t)
  BY <1>0, <1>4, ThreadStepsPInv
<1>5. CASE \/ \E t \in Threads : JsAcquire(t)
           \/ \E p \in Payloads : JsCall(p)
           \/ JsAcquired \/ JsRelease \/ JsAbort \/ JsDrop \/ JsUnref \/ JsRef
  BY <1>0, <1>5, JsStepsPInv
<1>6. CASE BeginDispose \/ CloseSender \/ FinishDispose \/ FreeEnv
  BY <1>0, <1>6, DisposeStepsPInv
<1>7. CASE Done \/ UNCHANGED vars
  BY <1>7 DEF Done, vars, PInv
<1> QED
  BY <1>1, <1>2, <1>3, <1>4, <1>5, <1>6, <1>7 DEF Next

(* Queued and InBatch, as counts.                                          *)
LEMMA QueuedAre ==
  ASSUME f.items \in Seq(Payloads), js \in Seq(Frame), NEW p \in Payloads
  PROVE  /\ Cardinality(Queued(p)) = Count(f.items, Just(p))
         /\ Cardinality(InBatch(p)) = Count(js, BatchWith(p))
<1>1. Queued(p) = Marks(f.items, Just(p))
  BY DEF Queued, Marks, Just
<1>2. \A i \in DOMAIN js : js[i] \in Frame
  BY LenProperties, ElementOfSeq
<1>3. ASSUME NEW i \in DOMAIN js, js[i][1] = "batch"
      PROVE  (\E k \in DOMAIN js[i][2] : js[i][2][k] = p) <=> js[i] \in BatchWith(p)
  <2> DEFINE x == js[i]
             s == x[2]
  <2>1. x = <<"batch", s>> /\ s \in NonEmpty /\ s \in Seq(Payloads)
    BY <1>2, <1>3, MarkKinds DEF NonEmpty
  <2>2. /\ Count(s, Just(p)) \in Nat /\ DOMAIN s = 1..Len(s)
        /\ Count(s, Just(p)) = 0 <=> \A k \in 1..Len(s) : s[k] \notin Just(p)
    BY <2>1, CountType, LenProperties
  <2>3. x \in BatchWith(p) <=> Count(s, Just(p)) > 0
    BY <2>1 DEF BatchWith
  <2> HIDE DEF x, s
  <2>4. (\E k \in DOMAIN s : s[k] = p) <=> Count(s, Just(p)) > 0
    BY <2>2 DEF Just
  <2> QED
    BY <2>3, <2>4 DEF x, s
<1>4. \A i \in DOMAIN js : js[i] \in BatchWith(p) => js[i][1] = "batch"
  BY <1>2, MarkKinds
<1>5. InBatch(p) = Marks(js, BatchWith(p))
  BY <1>3, <1>4 DEF InBatch, Frames, Marks
<1> QED
  BY <1>1, <1>5 DEF Count

(* An accepted payload is in the queue or in one batch until its callback  *)
(* runs, has a job in the channel while it is queued, and is not left      *)
(* behind by a function that closed.                                       *)
THEOREM PayloadsHold == Spec => []PayloadsConserved
<1>1. ASSUME KInv, PInv PROVE PayloadsConserved
  <2>1. /\ d \in Driver /\ f \in Function /\ js \in Seq(Frame) /\ f.items \in Seq(Payloads)
        /\ f.finalized \in Nat
    BY <1>1, FunctionTypes DEF KInv, CInv, Types, Function
  <2>2. \A p \in Payloads :
          Cardinality(Queued(p)) + Cardinality(InBatch(p)) = IF pay[p] = "queue" THEN 1 ELSE 0
    BY <1>1, <2>1, QueuedAre DEF PInv, Owned
  <2>3. {i \in DOMAIN d.jobs : d.jobs[i] = <<"tsfn">>} = Marks(d.jobs, Plain("tsfn"))
    BY DEF Marks, Plain
  <2>4. Len(f.items) <= Cardinality({i \in DOMAIN d.jobs : d.jobs[i] = <<"tsfn">>})
    BY <1>1, <2>3 DEF PInv, Backed, Count
  <2>5. f.state = "closed" => f.items = <<>> /\ f.finalized = 1
    <3>1. Finishing(f, js) /\ Count(js, Plain("finish")) \in Nat
      BY <1>1, <2>1, CountType DEF PInv
    <3>2. f.finalized = 1 => f.finish
      BY <2>1, <3>1 DEF Finishing
    <3> QED
      BY <3>1, <3>2 DEF Finishing
  <2> QED
    BY <2>2, <2>4, <2>5 DEF PayloadsConserved
<1>2. ASSUME Init PROVE KInv /\ PInv
  BY <1>2, InitKInv, InitPInv
<1>3. ASSUME KInv, PInv, [Next]_vars PROVE KInv' /\ PInv'
  BY <1>3, StepKInv, StepPInv
<1> QED
  BY <1>1, <1>2, <1>3, PTL DEF Spec
------------------------------------------------------------------------------
(* The loop and the dispose.                                               *)

(* The driver y owes no more than x.                                       *)
Less(x, y) ==
  /\ y \in Driver /\ (y.tx => x.tx)
  /\ (y.running <=> x.running) /\ (y.finished <=> x.finished)
  /\ y.inflight <= x.inflight /\ y.idle <= x.idle

(* A step that leaves run_loop where it is, one that may spawn it, and     *)
(* what either does to the stack: from an empty one only script code that  *)
(* runs while run_loop awaits calls anything.                              *)
Quiet == Less(d, d') /\ loop' = loop /\ tail' = tail
Spawned ==
  /\ d' \in Driver /\ d'.running /\ (d'.tx => d.tx)
  /\ loop' = LoopAfterSpawn(d, loop) /\ tail' = tail
Stacked == js' = js \/ js # <<>> \/ Idle

(* A worker, or a thread that calls the function, only posts jobs.         *)
LEMMA OutsideSteps ==
  ASSUME Types,
         \/ \E w \in Works : WorkerStart(w) \/ WorkerEnd(w)
         \/ \E t \in Threads : \/ \E p \in Payloads, b \in BOOLEAN : ThreadCall(t, p, b)
                               \/ AdmitAndPost(t) \/ ThreadRelease(t) \/ ThreadAbort(t)
                               \/ ThreadPostAbort(t) \/ ThreadPostRelease(t)
  PROVE  More(d, d') /\ js' = js /\ loop' = loop /\ tail' = tail /\ env' = env
<1>0. d \in Driver
  BY DEF Types
<1>1. More(d, d) /\ \A j \in Job : More(d, Post(d, j)) /\ More(d, PostComplete(d, j))
  BY <1>0, MoreKinds
<1>2. <<"tsfn">> \in Job /\ <<"abort">> \in Job /\ <<"release">> \in Job
  BY DEF Job
<1>3. ASSUME NEW w \in Works, WorkerStart(w) \/ WorkerEnd(w)
      PROVE  More(d, d') /\ js' = js /\ loop' = loop /\ tail' = tail /\ env' = env
  <2>1. <<"done", w, "ok">> \in Job /\ <<"done", w, "cancelled">> \in Job
    BY DEF Job, Outcome
  <2> QED
    BY <1>1, <1>3, <2>1 DEF WorkerStart, WorkerEnd
<1>4. ASSUME NEW t \in Threads,
             \/ \E p \in Payloads, b \in BOOLEAN : ThreadCall(t, p, b)
             \/ AdmitAndPost(t) \/ ThreadRelease(t) \/ ThreadAbort(t)
             \/ ThreadPostAbort(t) \/ ThreadPostRelease(t)
      PROVE  More(d, d') /\ js' = js /\ loop' = loop /\ tail' = tail /\ env' = env
  BY <1>1, <1>2, <1>4 DEF ThreadCall, AdmitAndPost, ThreadRelease, ThreadAbort,
                          ThreadPostAbort, ThreadPostRelease
<1> QED
  BY <1>3, <1>4

(* Taking a job changes nothing of the driver but the channel and pending, *)
(* and a job pushes frames or leaves the stack.                            *)
LEMMA TakeJobLess ==
  ASSUME CInv, d.jobs # <<>>, TakeJob(js)
  PROVE  /\ Less(d, d') /\ (d'.running <=> d.running) /\ d'.jobs = Tail(d.jobs)
         /\ d'.tx = d.tx /\ d'.inflight = d.inflight /\ d'.idle = d.idle
<1>1. Types /\ d.pending = Len(d.jobs) + Count(js, Plain("job")) /\ d \in Driver
  BY DEF CInv, Types, Counted
<1>2. PICK frames \in Seq(Frame) : Runs(frames)
  BY <1>1, TakeJobCases
<1>3. d.inflight \in Nat /\ d.idle \in Nat
  BY <1>1, DriverTypes
<1> QED
  BY <1>2, <1>3 DEF Runs, Less

(* Every step but those of run_loop is one of the two.                     *)
LEMMA DriverSteps ==
  ASSUME CInv, [Next]_vars
  PROVE  \/ LoopTop \/ LoopTry \/ LoopRecv \/ LoopDrain \/ LoopExit \/ LoopLast \/ LoopTail
         \/ (Quiet \/ Spawned) /\ Stacked
<1>0. /\ d \in Driver /\ f \in Function /\ Types /\ d.idle = f.idle
      /\ d.inflight \in Nat /\ d.idle \in Nat /\ f.idle \in {0, 1}
      /\ d.inflight + 1 \in Nat /\ d.idle + 1 \in Nat /\ d.tx \in BOOLEAN
  <2>1. d \in Driver /\ f \in Function /\ Types /\ d.idle = f.idle
    BY DEF CInv, Types, Counted
  <2>2. d.inflight \in Nat /\ d.idle \in Nat /\ f.idle \in {0, 1} /\ d.tx \in BOOLEAN
    BY <2>1, DriverTypes, FunctionTypes
  <2> QED
    BY <2>1, <2>2
<1>1. \A y : More(d, y) => Less(d, y)
  BY DEF More, Less
<1>2. /\ Less(d, d) /\ Less(d, DecPending(d)) /\ Less(d, ReleaseKeepalive(d))
      /\ \A n \in Nat : n <= d.idle => Less(d, WakeIfQuiescent([d EXCEPT !.idle = n]))
  BY <1>0, <1>1, MoreKinds
<1>3. ASSUME NEW x \in Driver, x.tx = d.tx
      PROVE  SpawnLoop(x) \in Driver /\ SpawnLoop(x).running /\ (SpawnLoop(x).tx => d.tx)
  BY <1>3, SpawnHolds DEF Holds
<1>4. UserCode => Idle \/ js # <<>>
  BY DEF UserCode
<1>5. CASE Poll
  <2> DEFINE sp == d.pending > 0 /\ ~d.running
  <2>1. /\ d' = IF sp THEN SpawnLoop(d) ELSE d
        /\ loop' = IF sp THEN "spawned" ELSE loop
        /\ tail' = tail /\ Stacked
    BY <1>4, <1>5 DEF Poll, Stacked
  <2>2. CASE sp
    BY <1>0, <1>3, <2>1, <2>2 DEF Spawned, LoopAfterSpawn
  <2>3. CASE ~sp
    BY <1>2, <2>1, <2>3 DEF Quiet
  <2> QED
    BY <2>2, <2>3, <2>1
<1>6. CASE DrainJob
  BY <1>6, TakeJobLess DEF DrainJob, Quiet, Stacked
<1>7. CASE \/ DrainEnd \/ DrainTsfns \/ Consume \/ CallReturns \/ JsAcquired \/ JsDrop \/ FreeEnv
  BY <1>2, <1>7 DEF DrainEnd, DrainTsfns, Consume, CallReturns, JsAcquired, JsDrop, FreeEnv,
                    Quiet, Stacked
<1>8. CASE \/ (\E t \in Threads : JsAcquire(t)) \/ JsRelease \/ JsAbort
           \/ BeginDispose \/ FinishDispose \/ (\E w \in Works : CancelWork(w))
  BY <1>2, <1>4, <1>8 DEF JsAcquire, JsRelease, JsAbort, BeginDispose, FinishDispose, CancelWork,
                          Quiet, Stacked
<1>9. CASE Done \/ UNCHANGED vars
  BY <1>2, <1>9 DEF Done, vars, Quiet, Stacked
<1>10. CASE JobEnd \/ CompleteReturns
  BY <1>2, <1>10 DEF JobEnd, CompleteReturns, Quiet, Stacked
<1>11. CASE FinishRelease
  <2>1. /\ d' = WakeIfQuiescent([d EXCEPT !.idle = d.idle - f.idle])
        /\ js # <<>> /\ loop' = loop /\ tail' = tail
    BY <1>11 DEF FinishRelease
  <2>2. d.idle - f.idle = 0 /\ 0 \in Nat /\ 0 <= d.idle
    BY <1>0
  <2> QED
    BY <1>2, <2>1, <2>2 DEF Quiet, Stacked
<1>12. CASE JsUnref
  <2>1. /\ d' = WakeIfQuiescent([d EXCEPT !.idle = d.idle - 1]) /\ f.idle = 1
        /\ js' = js /\ loop' = loop /\ tail' = tail
    BY <1>12 DEF JsUnref
  <2>2. d.idle - 1 \in Nat /\ d.idle - 1 <= d.idle
    BY <1>0, <2>1
  <2> QED
    BY <1>2, <2>1, <2>2 DEF Quiet, Stacked
<1>13. CASE \/ \E w \in Works : WorkerStart(w) \/ WorkerEnd(w)
            \/ \E t \in Threads : \/ \E p \in Payloads, b \in BOOLEAN : ThreadCall(t, p, b)
                                  \/ AdmitAndPost(t) \/ ThreadRelease(t) \/ ThreadAbort(t)
                                  \/ ThreadPostAbort(t) \/ ThreadPostRelease(t)
  BY <1>0, <1>1, <1>13, OutsideSteps DEF Quiet, Stacked
<1>14. CASE \E w \in Works : QueueWork(w) \/ QueueWorkInline(w)
  <2> DEFINE x1 == [d EXCEPT !.inflight = d.inflight + 1]
  <2>1. PICK w \in Works : QueueWork(w) \/ QueueWorkInline(w)
    BY <1>14
  <2>2. x1 \in Driver /\ x1.tx = d.tx
    BY <1>0 DEF Driver
  <2>3. /\ d' = SpawnLoop(x1) \/ d' = SpawnLoop(PostComplete(x1, <<"done", w, "ok">>))
        /\ js' = js /\ loop' = LoopAfterSpawn(d, loop) /\ tail' = tail
    BY <2>1 DEF QueueWork, QueueWorkInline
  <2> HIDE DEF x1
  <2>4. <<"done", w, "ok">> \in Job
    BY DEF Job, Outcome
  <2>5. PostComplete(x1, <<"done", w, "ok">>) \in Driver
        /\ PostComplete(x1, <<"done", w, "ok">>).tx = d.tx
    BY <2>2, <2>4, MoreKinds DEF More
  <2> QED
    BY <1>3, <2>2, <2>3, <2>5 DEF Spawned, Stacked
<1>15. CASE \E p \in Payloads : JsCall(p)
  <2>1. /\ d' = SpawnLoop(Post(d, <<"tsfn">>))
        /\ js' = js /\ loop' = LoopAfterSpawn(d, loop) /\ tail' = tail
    BY <1>15 DEF JsCall
  <2>2. <<"tsfn">> \in Job
    BY DEF Job
  <2>3. Post(d, <<"tsfn">>) \in Driver /\ Post(d, <<"tsfn">>).tx = d.tx
    BY <1>0, <2>2, MoreKinds DEF More
  <2> QED
    BY <1>3, <2>1, <2>3 DEF Spawned, Stacked
<1>16. CASE JsRef
  <2> DEFINE x1 == [d EXCEPT !.idle = d.idle + 1]
  <2>1. x1 \in Driver /\ x1.tx = d.tx
    BY <1>0 DEF Driver
  <2>2. /\ d' = SpawnLoop(x1)
        /\ js' = js /\ loop' = LoopAfterSpawn(d, loop) /\ tail' = tail
    BY <1>16 DEF JsRef
  <2> HIDE DEF x1
  <2> QED
    BY <1>3, <2>1, <2>2 DEF Spawned, Stacked
<1>17. CASE CloseSender
  <2>1. /\ d' = [d EXCEPT !.tx = FALSE] /\ js # <<>> /\ loop' = loop /\ tail' = tail
    BY <1>17 DEF CloseSender
  <2>2. 0 \in Nat /\ FALSE \in BOOLEAN /\ <<>> \in Seq(Job)
    OBVIOUS
  <2>3. Holds([d EXCEPT !.tx = FALSE], FALSE, d.jobs, d.pending, d.idle, d.inflight,
              d.running, d.finished)
    BY <1>0, <2>2, DriverSets
  <2>4. /\ d' \in Driver /\ d'.tx = FALSE /\ d'.running = d.running
        /\ d'.finished = d.finished /\ d'.inflight = d.inflight /\ d'.idle = d.idle
    BY <2>1, <2>3 DEF Holds
  <2>5. Less(d, d')
    BY <1>0, <2>4 DEF Less
  <2> QED
    BY <2>1, <2>5 DEF Quiet, Stacked
<1> QED
  BY <1>5, <1>6, <1>7, <1>8, <1>9, <1>10, <1>11, <1>12, <1>13, <1>14, <1>15, <1>16, <1>17
     DEF Next

(* run_loop is where its flags say, whatever happens between its awaits.   *)
LEMMA StepLoopState ==
  ASSUME CInv, LoopState, [Next]_vars
  PROVE  LoopState'
<1>0. /\ d \in Driver /\ d.inflight \in Nat /\ d.idle \in Nat /\ js \in Seq(Frame)
      /\ loop \in LoopStates /\ tail \in BOOLEAN /\ d.running \in BOOLEAN
  BY DriverTypes DEF CInv, Types
<1>1. ASSUME Stacked, loop' \in {loop, "spawned"}
      PROVE  js' # <<>> => loop' \notin {"try", "exit", "last"}
  BY <1>1 DEF Stacked, Idle, InLoop, LoopState
<1>2. CASE Quiet /\ Stacked
  <2>1. d'.inflight \in Nat /\ d'.idle \in Nat
    BY <1>2, DriverTypes DEF Quiet, Less
  <2>2. /\ (d'.running <=> d.running) /\ (d'.finished <=> d.finished)
        /\ d'.inflight <= d.inflight /\ d'.idle <= d.idle /\ loop' = loop /\ tail' = tail
    BY <1>2 DEF Quiet, Less
  <2>3. loop' = "none" /\ ~tail' => d'.inflight = 0 /\ d'.idle = 0 /\ d'.finished
    <3>1. loop' = "none" /\ ~tail' => d.inflight = 0 /\ d.idle = 0 /\ d.finished
      BY <2>2 DEF LoopState
    <3> QED
      BY <1>0, <2>1, <2>2, <3>1
  <2>4. d'.running <=> loop' \notin {"none", "last"}
    BY <2>2 DEF LoopState
  <2> QED
    BY <1>1, <1>2, <2>2, <2>3, <2>4 DEF LoopState
<1>3. CASE Spawned /\ Stacked
  <2>1. d'.running /\ loop' = IF d.running THEN loop ELSE "spawned"
    BY <1>3 DEF Spawned, LoopAfterSpawn
  <2>2. loop' \notin {"none", "last"} /\ loop' \in {loop, "spawned"}
    BY <2>1 DEF LoopState
  <2> QED
    BY <1>1, <1>3, <2>1, <2>2 DEF LoopState
<1>4. CASE LoopTop
  BY <1>4 DEF LoopTop, LoopState
<1>5. CASE LoopTry \/ LoopRecv
  <2>1. CASE d.jobs # <<>> /\ TakeJob(js) /\ loop' = "top" /\ tail' = tail
    <3>1. d'.running <=> d.running
      BY <2>1, TakeJobLess
    <3>2. loop \in {"try", "recv"}
      BY <1>5 DEF LoopTry, LoopRecv
    <3> QED
      BY <2>1, <3>1, <3>2 DEF LoopState
  <2>2. CASE d' = d /\ js' = js /\ js = <<>> /\ loop' \in {"exit", "drain"}
    <3>1. loop \in {"try", "recv"}
      BY <1>5 DEF LoopTry, LoopRecv
    <3> QED
      BY <2>2, <3>1 DEF LoopState
  <2> QED
    BY <1>5, <2>1, <2>2 DEF LoopTry, LoopRecv
<1>6. CASE LoopDrain
  BY <1>6 DEF LoopDrain, LoopState
<1>7. CASE LoopExit
  <2>1. /\ d' = [d EXCEPT !.running = FALSE] /\ loop' = "last" /\ js' = js /\ js = <<>>
    BY <1>7 DEF LoopExit
  <2>2. d'.running = FALSE
    BY <1>0, <2>1 DEF Driver
  <2> QED
    BY <2>1, <2>2 DEF LoopState
<1>8. CASE LoopLast
  <2>1. js = <<>> /\ loop = "last" /\ loop' = "none"
    BY <1>8 DEF LoopLast
  <2>2. ~d.running
    BY <2>1 DEF LoopState
  <2>3. CASE Quiescent(d)
    <3>1. d' = [d EXCEPT !.finished = TRUE] /\ js' = js
      BY <1>8, <2>3 DEF LoopLast
    <3>2. /\ d'.finished /\ d'.running = d.running /\ d'.inflight = d.inflight
          /\ d'.idle = d.idle
      BY <1>0, <3>1 DEF Driver
    <3> QED
      BY <2>1, <2>2, <2>3, <3>1, <3>2 DEF LoopState, Quiescent
  <2>4. CASE ~Quiescent(d)
    BY <1>8, <2>1, <2>2, <2>4 DEF LoopLast, LoopState
  <2> QED
    BY <2>3, <2>4
<1>9. CASE LoopTail
  <2>1. Idle /\ tail /\ loop' = loop
    BY <1>9 DEF LoopTail
  <2>2. loop \notin {"try", "exit", "last"}
    BY <2>1 DEF Idle, InLoop
  <2>3. CASE Quiescent(d)
    <3>1. d' = [d EXCEPT !.finished = TRUE]
      BY <1>9, <2>3 DEF LoopTail
    <3>2. /\ d'.finished /\ d'.running = d.running /\ d'.inflight = d.inflight
          /\ d'.idle = d.idle
      BY <1>0, <3>1 DEF Driver
    <3> QED
      BY <2>1, <2>2, <2>3, <3>2 DEF LoopState, Quiescent
  <2>4. CASE ~Quiescent(d)
    <3>1. d' = d /\ tail' = tail
      BY <1>9, <2>4 DEF LoopTail
    <3> QED
      BY <2>1, <2>2, <3>1 DEF LoopState
  <2> QED
    BY <2>3, <2>4
<1> QED
  BY <1>2, <1>3, <1>4, <1>5, <1>6, <1>7, <1>8, <1>9, DriverSteps

(* finish_tsfn_release begun stays begun, a function once taken out of the *)
(* registry stays out.                                                     *)
Forward(y, z) == (y.finish => z.finish) /\ (z.reg => y.reg)

(* Every operator on the function goes forward.                            *)
LEMMA ForwardKinds ==
  ASSUME NEW y \in Function
  PROVE  /\ Forward(y, y) /\ Forward(y, TakeAll(y)) /\ Forward(y, StartFinish(y))
         /\ Forward(y, Abort(y)) /\ Forward(y, Drop(y)) /\ Forward(y, StartFinish(Drop(y)))
         /\ Forward(y, StartFinish(Abort(y))) /\ Forward(y, TakeAll(Abort(y)))
         /\ Abort(y) \in Function /\ Drop(y) \in Function /\ TakeAll(Abort(y)) \in Function
<1>1. \A z \in Function : Forward(z, TakeAll(z)) /\ Forward(z, StartFinish(z))
  BY TakeAllIs, StartFinishIs DEF Forward
<1>2. \A z : SameFunction(y, z) => Forward(y, z) /\ z \in Function
  BY DEF SameFunction, Forward
<1>3. SameFunction(y, Abort(y)) /\ SameFunction(y, Drop(y))
  BY ClosingSame
<1>4. /\ Abort(y) \in Function /\ Drop(y) \in Function
      /\ Forward(y, Abort(y)) /\ Forward(y, Drop(y))
  BY <1>2, <1>3
<1>5. \A z, u : Forward(y, z) /\ Forward(z, u) => Forward(y, u)
  BY DEF Forward
<1>6. Forward(y, y)
  BY DEF Forward
<1>7. TakeAll(Abort(y)) \in Function
  BY <1>4, TakeAllIs
<1> QED
  BY <1>1, <1>4, <1>5, <1>6, <1>7

(* Every step goes forward.                                                *)
LEMMA StepForward ==
  ASSUME CInv, [Next]_vars
  PROVE  Forward(f, f')
<1>0. f \in Function /\ Types /\ d.pending = Len(d.jobs) + Count(js, Plain("job"))
      /\ f.items \in Seq(Payloads)
  BY FunctionTypes DEF CInv, Types, Counted
<1>1. /\ Forward(f, f) /\ Forward(f, TakeAll(f)) /\ Forward(f, StartFinish(f))
      /\ Forward(f, Abort(f)) /\ Forward(f, Drop(f)) /\ Forward(f, StartFinish(Drop(f)))
      /\ Forward(f, StartFinish(Abort(f))) /\ Forward(f, TakeAll(Abort(f)))
      /\ TakeAll(Abort(f)) \in Function
  BY <1>0, ForwardKinds
<1>2. ASSUME d.jobs # <<>>, TakeJob(js)
      PROVE  Forward(f, f')
  <2>1. PICK frames \in Seq(Frame) :
          \/ TakesWake(frames) \/ TakesTsfn(frames) \/ TakesAbort(frames)
          \/ TakesRelease(frames)
          \/ \E w \in Works, r \in Outcome : TakesDone(frames, w, r)
    BY <1>0, <1>2, TakeJobCases
  <2>2. Forward(f, [f EXCEPT !.items = RestOf(f.items)])
    BY <1>0 DEF Function, Forward
  <2> QED
    BY <1>1, <2>1, <2>2 DEF TakesWake, TakesTsfn, TakesAbort, TakesRelease, TakesDone
<1>3. \A s : DrainThreadsafeFunctions(s) => Forward(f, f')
  BY <1>1 DEF DrainThreadsafeFunctions
<1>4. CASE Poll \/ DrainTsfns
  BY <1>1, <1>3, <1>4 DEF Poll, DrainTsfns
<1>5. CASE DrainJob \/ LoopTry \/ LoopRecv
  BY <1>1, <1>2, <1>5 DEF DrainJob, LoopTry, LoopRecv
<1>6. CASE \/ DrainEnd \/ JobEnd \/ Consume \/ CallReturns \/ CompleteReturns
           \/ LoopTop \/ LoopDrain \/ LoopExit \/ LoopLast \/ LoopTail
           \/ CloseSender \/ FinishDispose \/ FreeEnv
  BY <1>1, <1>6 DEF DrainEnd, JobEnd, Consume, CallReturns, CompleteReturns, LoopTop, LoopDrain,
                    LoopExit, LoopLast, LoopTail, CloseSender, FinishDispose, FreeEnv
<1>7. CASE FinishRelease
  <2>1. f' = [f EXCEPT !.finalized = @ + 1, !.idle = 0, !.state = "closed", !.reg = FALSE]
    BY <1>7 DEF FinishRelease
  <2> QED
    BY <1>0, <2>1 DEF Function, Forward
<1>8. CASE \E w \in Works : \/ QueueWork(w) \/ QueueWorkInline(w) \/ CancelWork(w)
                            \/ WorkerStart(w) \/ WorkerEnd(w)
  BY <1>1, <1>8 DEF QueueWork, QueueWorkInline, CancelWork, WorkerStart, WorkerEnd
<1>9. CASE \E t \in Threads : \/ \E p \in Payloads, b \in BOOLEAN : ThreadCall(t, p, b)
                              \/ AdmitAndPost(t) \/ ThreadRelease(t) \/ ThreadAbort(t)
                              \/ ThreadPostAbort(t) \/ ThreadPostRelease(t) \/ JsAcquire(t)
  <2>1. \A q : Forward(f, [f EXCEPT !.items = q])
    BY <1>0 DEF Function, Forward
  <2>2. ASSUME NEW t \in Threads, AdmitAndPost(t)
        PROVE  f' = f \/ f' = [f EXCEPT !.items = Append(f.items, th[t].item)]
    BY <2>2 DEF AdmitAndPost
  <2>3. ASSUME NEW t \in Threads,
               \/ \E p \in Payloads, b \in BOOLEAN : ThreadCall(t, p, b)
               \/ ThreadRelease(t) \/ ThreadAbort(t)
               \/ ThreadPostAbort(t) \/ ThreadPostRelease(t) \/ JsAcquire(t)
        PROVE  f' = f \/ f' = Drop(f) \/ f' = Abort(f)
    BY <2>3 DEF ThreadCall, ThreadRelease, ThreadAbort, ThreadPostAbort, ThreadPostRelease,
                JsAcquire
  <2> QED
    BY <1>1, <1>9, <2>1, <2>2, <2>3
<1>10. CASE (\E p \in Payloads : JsCall(p)) \/ JsAcquired \/ JsRelease \/ JsUnref \/ JsRef
  <2>1. /\ \A q : Forward(f, [f EXCEPT !.items = q])
        /\ \A q : Forward(f, [f EXCEPT !.refs = q])
        /\ Forward(f, [f EXCEPT !.mine = FALSE])
        /\ Forward(f, [f EXCEPT !.idle = 0])
        /\ \A q : Forward(f, [f EXCEPT !.idle = 1, !.reref = q])
    BY <1>0 DEF Function, Forward
  <2> QED
    BY <1>10, <2>1 DEF JsCall, JsAcquired, JsRelease, JsUnref, JsRef
<1>11. CASE JsAbort
  <2> DEFINE z == TakeAll(Abort(f))
  <2>1. f' = [z EXCEPT !.mine = FALSE] /\ z \in Function /\ Forward(f, z)
    BY <1>1, <1>11 DEF JsAbort
  <2> HIDE DEF z
  <2> QED
    BY <2>1 DEF Function, Forward
<1>12. CASE JsDrop
  BY <1>1, <1>12 DEF JsDrop
<1>13. CASE BeginDispose
  <2>1. Forward(f, [f EXCEPT !.reg = FALSE])
    BY <1>0 DEF Function, Forward
  <2> QED
    BY <1>1, <1>13, <2>1 DEF BeginDispose
<1>14. CASE Done \/ UNCHANGED vars
  BY <1>1, <1>14 DEF Done, vars
<1> QED
  BY <1>4, <1>5, <1>6, <1>7, <1>8, <1>9, <1>10, <1>11, <1>12, <1>13, <1>14 DEF Next

(* While the thread is in a dispose's drain or about to free the Env, only *)
(* that drain, the workers and the threads run.                            *)
LEMMA Disarmed ==
  ASSUME [Next]_vars, js # <<>>, Head(js) \in {<<"drain">>, <<"free">>}
  PROVE  \/ DrainJob \/ DrainEnd \/ FreeEnv \/ UNCHANGED vars
         \/ \E w \in Works : WorkerStart(w) \/ WorkerEnd(w)
         \/ \E t \in Threads : \/ \E p \in Payloads, b \in BOOLEAN : ThreadCall(t, p, b)
                               \/ AdmitAndPost(t) \/ ThreadRelease(t) \/ ThreadAbort(t)
                               \/ ThreadPostAbort(t) \/ ThreadPostRelease(t)
<1>1. Head(js)[1] \in {"drain", "free"}
  OBVIOUS
<1>2. ~UserCode /\ ~Idle
  BY <1>1 DEF UserCode, Idle
<1>3. ~(\/ Poll \/ LoopTail \/ BeginDispose \/ FinishDispose
        \/ JsRelease \/ JsAbort \/ JsUnref \/ JsRef)
  BY <1>2 DEF Poll, LoopTail, BeginDispose, FinishDispose, JsRelease, JsAbort, JsUnref, JsRef
<1>4. /\ \A w \in Works : ~(QueueWork(w) \/ QueueWorkInline(w) \/ CancelWork(w))
      /\ \A t \in Threads : ~JsAcquire(t)
      /\ \A p \in Payloads : ~JsCall(p)
  BY <1>2 DEF QueueWork, QueueWorkInline, CancelWork, JsAcquire, JsCall
<1>5. ~(LoopTop \/ LoopTry \/ LoopRecv \/ LoopDrain \/ LoopExit \/ LoopLast)
  BY DEF LoopTop, LoopTry, LoopRecv, LoopDrain, LoopExit, LoopLast
<1>6. ~(\/ JobEnd \/ DrainTsfns \/ Consume \/ CallReturns \/ CompleteReturns \/ FinishRelease
        \/ JsAcquired \/ JsDrop \/ CloseSender)
  BY <1>1 DEF JobEnd, DrainTsfns, Consume, CallReturns, CompleteReturns, FinishRelease,
              JsAcquired, JsDrop, CloseSender
<1> QED
  BY <1>3, <1>4, <1>5, <1>6 DEF Next, Done

(* The drain of a dispose finds nothing that calls back: the function took *)
(* its queue when it finished, and no completion is owed.                  *)
LEMMA LastDrain ==
  ASSUME CInv, PInv, f.finish, d.inflight = 0, d.jobs # <<>>, TakeJob(js)
  PROVE  js' = js
<1>1. /\ Types /\ d.pending = Len(d.jobs) + Count(js, Plain("job")) /\ d \in Driver
      /\ f \in Function /\ js \in Seq(Frame) /\ d.jobs \in Seq(Job)
      /\ d.inflight = Cardinality(OwedSet(work, d.jobs, js))
  BY DriverTypes DEF CInv, Types, Counted
<1>2. f.items = <<>>
  BY DEF PInv, Finishing
<1>3. PICK frames \in Seq(Frame) :
        /\ Runs(frames)
        /\ \/ TakesWake(frames) \/ TakesTsfn(frames) \/ TakesAbort(frames)
           \/ TakesRelease(frames)
           \/ \E w \in Works, r \in Outcome : TakesDone(frames, w, r)
  BY <1>1, TakeJobCases
<1>4. BatchOf(<<>>) = <<>> /\ FirstOf(<<>>) = <<>>
  BY DEF BatchOf, FirstOf
<1>5. FinishFrames(f) = <<>>
  BY <1>1, FinishFramesAre
<1>6. ASSUME NEW w \in Works, NEW r \in Outcome, TakesDone(frames, w, r)
      PROVE  FALSE
  <2>1. Head(d.jobs) = <<"done", w, r>>
    BY <1>6 DEF TakesDone
  <2>2. d.jobs[1] \in DoneJob(w, r) /\ 1 \in 1..Len(d.jobs)
    <3>1. Head(d.jobs) = d.jobs[1]
      BY <1>1
    <3>2. Len(d.jobs) \in Nat
      BY <1>1, LenProperties
    <3>3. Len(d.jobs) # 0
      BY <1>1, EmptySeq
    <3>4. d.jobs[1] \in DoneJob(w, r)
      BY <2>1, <3>1, Zenon DEF DoneJob
    <3>5. 1 \in 1..Len(d.jobs)
      BY <3>2, <3>3
    <3> QED
      BY <3>4, <3>5
  <2>3. Count(d.jobs, DoneJob(w, r)) # 0 /\ Count(d.jobs, DoneJob(w, r)) \in Nat
    BY <1>1, <2>2, CountType
  <2>4. /\ Count(d.jobs, DoneJob(w, "ok")) \in Nat /\ Count(d.jobs, DoneJob(w, "cancelled")) \in Nat
        /\ Count(js, CompleteFrame(w)) \in Nat
    BY <1>1, CountType
  <2> DEFINE a == Count(d.jobs, DoneJob(w, "ok"))
             b == Count(d.jobs, DoneJob(w, "cancelled"))
             c == Count(js, CompleteFrame(w))
  <2>5. a # 0 \/ b # 0
    BY <1>6, <2>3 DEF Outcome
  <2>6. OwedIn(work, d.jobs, js, w) <=> Keeps(work[w], a, b, c)
    BY DEF OwedIn
  <2>7. a \in Nat /\ b \in Nat /\ c \in Nat
    BY <2>4
  <2> HIDE DEF a, b, c
  <2>8. w \in OwedSet(work, d.jobs, js)
    BY <2>5, <2>6, <2>7 DEF Keeps, OwedSet
  <2>9. OwedSet(work, d.jobs, js) = {}
    BY <1>1, OwedFinite, FS_EmptySet
  <2> QED
    BY <2>8, <2>9
<1>7. frames = <<>>
  BY <1>2, <1>3, <1>4, <1>5, <1>6 DEF TakesWake, TakesTsfn, TakesAbort, TakesRelease
<1> QED
  BY <1>3, <1>7 DEF Runs

(* The stack of a dispose.                                                 *)
LEMMA DisposeStack ==
  /\ << <<"drain">>, <<"free">> >> # <<>> /\ << <<"free">> >> # <<>>
  /\ Head(<< <<"drain">>, <<"free">> >>) = <<"drain">>
  /\ Tail(<< <<"drain">>, <<"free">> >>) = << <<"free">> >>
  /\ Head(<< <<"free">> >>) = <<"free">> /\ Tail(<< <<"free">> >>) = <<>>
  /\ <<"free">> # <<"drain">>
OBVIOUS

(* The stack s of a try_finish_dispose, and the channel q when its drain is *)
(* over.                                                                   *)
FreeFrame(s, q) ==
  \/ s = << <<"drain">>, <<"free">> >>
  \/ s = << <<"free">> >> /\ q = <<>>

(* The steps that are not the dispose's own.                               *)
LEMMA OrdinaryDisposing ==
  ASSUME CInv, CInv', PInv, LoopState, Disposing, [Next]_vars,
         AgreeBut(js, js', Ordinary), env' = env
  PROVE  Disposing'
<1>0. /\ d \in Driver /\ d' \in Driver /\ js \in Seq(Frame) /\ Types
      /\ d.inflight \in Nat /\ d.idle \in Nat /\ d'.inflight \in Nat /\ d'.idle \in Nat
  BY DriverTypes DEF CInv, Types
<1>1. Forward(f, f')
  BY StepForward
<1>2. d'.tx => d.tx
  <2>1. ASSUME d.jobs # <<>>, TakeJob(js) PROVE d'.tx => d.tx
    BY <2>1, TakeJobLess
  <2>2. CASE Quiet \/ Spawned
    BY <2>2 DEF Quiet, Spawned, Less
  <2>3. CASE LoopTop \/ LoopTry \/ LoopRecv \/ LoopDrain \/ LoopExit \/ LoopLast \/ LoopTail
    <3>1. \/ d' = d \/ d' = [d EXCEPT !.running = FALSE] \/ d' = [d EXCEPT !.finished = TRUE]
          \/ d.jobs # <<>> /\ TakeJob(js)
      BY <2>3 DEF LoopTop, LoopTry, LoopRecv, LoopDrain, LoopExit, LoopLast, LoopTail
    <3>2. [d EXCEPT !.running = FALSE].tx = d.tx /\ [d EXCEPT !.finished = TRUE].tx = d.tx
      BY <1>0 DEF Driver
    <3> QED
      BY <2>1, <3>1, <3>2
  <2> QED
    BY <2>2, <2>3, DriverSteps
<1>3. /\ Count(js', Plain("closesender")) = Count(js, Plain("closesender"))
      /\ Count(js', Plain("free")) = Count(js, Plain("free"))
  BY DEF AgreeBut, Ordinary
<1>4. env'.state # "active" => f'.finish
  BY <1>1 DEF Disposing, Forward
<1>5. env'.state # "active" /\ Count(js', Plain("closesender")) = 0 => ~d'.tx
  BY <1>2, <1>3 DEF Disposing
<1>6. ASSUME More(d, d'), js' = js, loop' = loop, tail' = tail, Unwound
      PROVE  Unwound' /\ d'.jobs = d.jobs /\ (d'.finished <=> d.finished)
  <2>1. d'.inflight <= d.inflight /\ d'.idle <= d.idle /\ d'.jobs = d.jobs /\ d'.tx = d.tx
        /\ d'.finished = d.finished
    BY <1>6 DEF More, Unwound
  <2>2. d'.inflight = 0 /\ d'.idle = 0
    BY <1>0, <1>6, <2>1 DEF Unwound
  <2> QED
    BY <1>6, <2>1, <2>2 DEF Unwound
<1>7. ASSUME Count(js', Plain("free")) > 0
      PROVE  /\ env'.state = "beginning" /\ d'.finished /\ Unwound'
             /\ FreeFrame(js', d'.jobs)
  <2>1. /\ env.state = "beginning" /\ d.finished /\ Unwound /\ FreeFrame(js, d.jobs)
        /\ f.finish
    BY <1>3, <1>7 DEF Disposing, FreeFrame
  <2>2. js # <<>> /\ Head(js) \in {<<"drain">>, <<"free">>}
    BY <2>1, DisposeStack DEF FreeFrame
  <2>3. CASE \/ \E w \in Works : WorkerStart(w) \/ WorkerEnd(w)
             \/ \E t \in Threads : \/ \E p \in Payloads, b \in BOOLEAN : ThreadCall(t, p, b)
                                   \/ AdmitAndPost(t) \/ ThreadRelease(t) \/ ThreadAbort(t)
                                   \/ ThreadPostAbort(t) \/ ThreadPostRelease(t)
    <3>1. More(d, d') /\ js' = js /\ loop' = loop /\ tail' = tail
      BY <1>0, <2>3, OutsideSteps
    <3> QED
      BY <1>6, <2>1, <3>1
  <2>4. CASE UNCHANGED vars
    BY <2>1, <2>4 DEF vars, Unwound
  <2>5. CASE DrainJob
    <3>1. d.jobs # <<>> /\ TakeJob(js) /\ loop' = loop /\ tail' = tail
      BY <2>5 DEF DrainJob
    <3>2. js' = js
      BY <2>1, <3>1, LastDrain DEF Unwound
    <3>3. /\ (d'.finished <=> d.finished) /\ d'.tx = d.tx /\ d'.inflight = d.inflight
          /\ d'.idle = d.idle
      BY <3>1, TakeJobLess DEF Less
    <3>4. js = << <<"drain">>, <<"free">> >>
      BY <2>1, <3>1 DEF FreeFrame
    <3> QED
      BY <2>1, <3>1, <3>2, <3>3, <3>4 DEF Unwound, FreeFrame
  <2>6. CASE DrainEnd
    <3>1. /\ Head(js) = <<"drain">> /\ d.jobs = <<>> /\ js' = Tail(js)
          /\ d' = d /\ loop' = loop /\ tail' = tail
      BY <2>6 DEF DrainEnd
    <3>2. js = << <<"drain">>, <<"free">> >>
      BY <2>1, <3>1, DisposeStack, Zenon DEF FreeFrame
    <3>3. js' = << <<"free">> >>
      BY <3>1, <3>2, DisposeStack, Zenon
    <3> QED
      BY <2>1, <3>1, <3>3 DEF Unwound, FreeFrame
  <2>7. CASE FreeEnv
    <3>1. env'.state \in {"finished", "failed"}
      BY <1>0, <2>7 DEF FreeEnv, Types
    <3> QED
      BY <2>1, <3>1
  <2> QED
    BY <2>2, <2>3, <2>4, <2>5, <2>6, <2>7, Disarmed
<1>8. ASSUME env'.state = "finished"
      PROVE  Unwound' /\ d'.jobs = <<>> /\ js' = <<>> /\ ~f'.reg
  <2>1. env.state = "finished" /\ Unwound /\ d.jobs = <<>> /\ js = <<>> /\ ~f.reg
    BY <1>8 DEF Disposing
  <2>2. ~f'.reg
    BY <1>1, <2>1 DEF Forward
  <2>3. CASE \/ \E w \in Works : WorkerStart(w) \/ WorkerEnd(w)
             \/ \E t \in Threads : \/ \E p \in Payloads, b \in BOOLEAN : ThreadCall(t, p, b)
                                   \/ AdmitAndPost(t) \/ ThreadRelease(t) \/ ThreadAbort(t)
                                   \/ ThreadPostAbort(t) \/ ThreadPostRelease(t)
    <3>1. More(d, d') /\ js' = js /\ loop' = loop /\ tail' = tail
      BY <1>0, <2>3, OutsideSteps
    <3> QED
      BY <1>6, <2>1, <2>2, <3>1
  <2>4. CASE Done \/ UNCHANGED vars \/ \E w \in Works : CancelWork(w)
    <3>1. d' = d /\ js' = js /\ loop' = loop /\ tail' = tail
      BY <2>4 DEF Done, vars, CancelWork
    <3> QED
      BY <2>1, <2>2, <3>1 DEF Unwound
  <2>5. ~(\/ Poll \/ LoopTail \/ BeginDispose \/ FinishDispose
          \/ JsRelease \/ JsAbort \/ JsUnref \/ JsRef)
    BY <2>1 DEF Poll, LoopTail, BeginDispose, FinishDispose, JsRelease, JsAbort, JsUnref, JsRef,
                Unwound
  <2>6. /\ \A w \in Works : ~(QueueWork(w) \/ QueueWorkInline(w))
        /\ \A t \in Threads : ~JsAcquire(t)
        /\ \A p \in Payloads : ~JsCall(p)
    BY <2>1 DEF QueueWork, QueueWorkInline, JsAcquire, JsCall
  <2>7. ~(LoopTop \/ LoopTry \/ LoopRecv \/ LoopDrain \/ LoopExit \/ LoopLast)
    BY <2>1 DEF LoopTop, LoopTry, LoopRecv, LoopDrain, LoopExit, LoopLast, Unwound
  <2>8. ~(\/ DrainJob \/ DrainEnd \/ JobEnd \/ DrainTsfns \/ Consume \/ CallReturns
          \/ CompleteReturns \/ FinishRelease \/ JsAcquired \/ JsDrop \/ CloseSender \/ FreeEnv)
    BY <2>1 DEF DrainJob, DrainEnd, JobEnd, DrainTsfns, Consume, CallReturns, CompleteReturns,
                FinishRelease, JsAcquired, JsDrop, CloseSender, FreeEnv
  <2> QED
    BY <2>3, <2>4, <2>5, <2>6, <2>7, <2>8 DEF Next
<1>9. env'.state # "failed"
  BY DEF Disposing
<1> QED
  BY <1>4, <1>5, <1>7, <1>8, <1>9 DEF Disposing, FreeFrame

(* A function closed for the Env has begun to finish.                      *)
LEMMA BeginFinishes ==
  ASSUME CInv, PInv, BeginDispose
  PROVE  f'.finish
<1>0. f \in Function /\ js \in Seq(Frame) /\ Finishing(f, js)
  BY DEF CInv, Types, PInv
<1>1. CASE f.reg /\ f.state # "closed"
  <2>1. f' = StartFinish(Abort(f)) /\ Abort(f) \in Function
    BY <1>0, <1>1, ForwardKinds DEF BeginDispose
  <2> QED
    BY <2>1, StartFinishIs
<1>2. CASE ~(f.reg /\ f.state # "closed")
  <2>1. f' = [f EXCEPT !.reg = FALSE]
    BY <1>2 DEF BeginDispose
  <2>2. f'.finish = f.finish
    BY <1>0, <2>1 DEF Function
  <2>3. f.finish
    <3>1. CASE ~f.reg
      BY <1>0, <3>1 DEF Finishing
    <3>2. CASE f.state = "closed"
      <4>1. f.finalized = 1 /\ Count(js, Plain("finish")) \in Nat
        BY <1>0, <3>2, CountType DEF Finishing
      <4>2. Count(js, Plain("finish")) + f.finalized = IF f.finish THEN 1 ELSE 0
        BY <1>0 DEF Finishing
      <4> QED
        BY <4>1, <4>2
    <3> QED
      BY <1>2, <3>1, <3>2
  <2> QED
    BY <2>2, <2>3
<1> QED
  BY <1>1, <1>2

(* It pushes the frame that closes the sender, and none that frees.        *)
LEMMA BeginStack ==
  ASSUME CInv, BeginDispose
  PROVE  Count(js', Plain("closesender")) > 0 /\ Count(js', Plain("free")) = 0
<1> DEFINE c == << <<"closesender">> >>
           g == IF f.reg /\ f.state # "closed" THEN FinishFrames(f) ELSE <<>>
<1>0. f \in Function /\ f.items \in Seq(Payloads)
  BY FunctionTypes DEF CInv, Types
<1>1. <<"closesender">> \in Frame
  BY DEF Frame
<1>2. c \in Seq(Frame) /\ <<>> \in Seq(Frame) /\ <<>> \o c = c
  BY <1>1, ConcatEmptySeq
<1>3. js' = g \o c
  BY <1>2 DEF BeginDispose
<1>4. g \in Seq(Frame)
  BY <1>0, <1>2, FinishFramesAre
<1>5. /\ <<"closesender">> \in Plain("closesender") /\ <<"closesender">> \notin Plain("free")
      /\ <<"finish">> \notin Plain("closesender") /\ <<"finish">> \notin Plain("free")
  BY DEF Plain
<1>6. \A M : Count(c, M) = IF <<"closesender">> \in M THEN 1 ELSE 0
  BY CountOne
<1>7. Count(c, Plain("closesender")) = 1 /\ Count(c, Plain("free")) = 0
  BY <1>5, <1>6
<1>8. Count(g, Plain("free")) = 0
  <2>1. Count(<<>>, Plain("free")) = 0
    BY CountEmpty
  <2>2. Count(FinishFrames(f), Plain("free")) = 0
    <3>1. CASE f.finish
      BY <1>0, <2>1, <3>1, FinishFramesAre
    <3>2. CASE ~f.finish
      <4>1. \A M : Count(FinishFrames(f), M)
                     = Count(BatchOf(f.items), M) + (IF <<"finish">> \in M THEN 1 ELSE 0)
        BY <1>0, <3>2, FinishFramesAre
      <4>2. Count(BatchOf(f.items), Plain("free")) = 0
        BY <1>0, BatchCounts
      <4> QED
        BY <1>5, <4>1, <4>2
    <3> QED
      BY <3>1, <3>2
  <2> QED
    BY <2>1, <2>2
<1> HIDE DEF c, g
<1>9. \A M : Count(g \o c, M) = Count(g, M) + Count(c, M)
  BY <1>2, <1>4, CountConcat
<1>10. Count(g, Plain("closesender")) \in Nat
  BY <1>4, CountType
<1> QED
  BY <1>3, <1>7, <1>8, <1>9, <1>10

(* The dispose's own steps.                                                *)
LEMMA DisposeDisposing ==
  ASSUME KInv, PInv, LoopState, Disposing, Disposes
  PROVE  Disposing'
<1>0. /\ CInv /\ d \in Driver /\ js \in Seq(Frame) /\ Types /\ f \in Function
      /\ env \in [state : EnvStates, roots : BOOLEAN]
      /\ Closes /\ Finishing(f, js) /\ d.pending = Len(d.jobs) + Count(js, Plain("job"))
  BY DEF KInv, CInv, Types, PInv, Counted
<1>1. \A M : Count(<<>>, M) = 0
  BY CountEmpty
<1>2. CASE BeginDispose
  <2>1. env'.state = "beginning"
    BY <1>0, <1>2 DEF BeginDispose
  <2>2. f'.finish
    BY <1>0, <1>2, BeginFinishes
  <2>3. Count(js', Plain("closesender")) > 0 /\ Count(js', Plain("free")) = 0
    BY <1>0, <1>2, BeginStack
  <2>4. Count(js', Plain("closesender")) # 0 /\ ~(Count(js', Plain("free")) > 0)
    BY <2>3
  <2> QED
    BY <2>1, <2>2, <2>4 DEF Disposing
<1>3. CASE CloseSender
  <2>1. /\ js # <<>> /\ Head(js) = <<"closesender">> /\ js' = Tail(js)
        /\ env' = [env EXCEPT !.roots = d.inflight = 0]
        /\ d' = [d EXCEPT !.tx = FALSE] /\ f' = f
    BY <1>3 DEF CloseSender
  <2>2. Tail(js) \in Seq(Frame)
    BY <1>0, <2>1, HeadTailProperties
  <2>3. \A M : Count(js, M) = Count(Tail(js), M) + (IF Head(js) \in M THEN 1 ELSE 0)
    BY <1>0, <2>1, CountTail
  <2>4. <<"closesender">> \notin Plain("free")
    BY DEF Plain
  <2>5. Count(Tail(js), Plain("free")) \in Nat
    BY <2>2, CountType
  <2>6. Count(js', Plain("free")) = Count(js, Plain("free"))
    BY <2>1, <2>3, <2>4, <2>5
  <2>7. Head(js) # <<"drain">> /\ Head(js) # <<"free">>
    BY <2>1
  <2>8. ~(Count(js', Plain("free")) > 0)
    <3>1. Count(js, Plain("free")) > 0 => \/ js = << <<"drain">>, <<"free">> >>
                                          \/ js = << <<"free">> >>
      BY DEF Disposing
    <3>2. js # << <<"drain">>, <<"free">> >> /\ js # << <<"free">> >>
      BY <2>7, DisposeStack, Zenon
    <3> QED
      BY <2>6, <3>1, <3>2
  <2>9. env'.state = env.state
    BY <1>0, <2>1
  <2>10. env.state # "finished"
    BY <2>1 DEF Disposing
  <2>11. d'.tx = FALSE
    BY <1>0, <2>1 DEF Driver
  <2> QED
    BY <2>1, <2>8, <2>9, <2>10, <2>11 DEF Disposing
<1>4. CASE FinishDispose
  <2>1. /\ js = <<>> /\ loop = "none" /\ ~tail /\ env.state = "beginning" /\ d.finished
        /\ js' = << <<"drain">>, <<"free">> >>
        /\ d' = d /\ f' = f /\ loop' = loop /\ tail' = tail /\ env' = env
    BY <1>4 DEF FinishDispose, Idle
  <2>2. ~d.tx
    BY <1>1, <2>1 DEF Disposing
  <2>3. Unwound'
    BY <2>1, <2>2 DEF LoopState, Unwound
  <2> QED
    BY <2>1, <2>2, <2>3 DEF Disposing
<1>5. CASE FreeEnv
  <2>1. /\ js # <<>> /\ Head(js) = <<"free">> /\ js' = Tail(js)
        /\ d' = d /\ f' = f /\ loop' = loop /\ tail' = tail
    BY <1>5 DEF FreeEnv
  <2>2. Count(js, Plain("free")) > 0
    <3>1. \A M : Count(js, M) = Count(Tail(js), M) + (IF Head(js) \in M THEN 1 ELSE 0)
      BY <1>0, <2>1, CountTail
    <3>2. Tail(js) \in Seq(Frame)
      BY <1>0, <2>1, HeadTailProperties
    <3>3. Count(Tail(js), Plain("free")) \in Nat /\ <<"free">> \in Plain("free")
      BY <3>2, CountType DEF Plain
    <3> QED
      BY <2>1, <3>1, <3>3
  <2>3. /\ env.state = "beginning" /\ d.finished /\ Unwound
        /\ \/ js = << <<"drain">>, <<"free">> >>
           \/ js = << <<"free">> >> /\ d.jobs = <<>>
    BY <2>2 DEF Disposing
  <2>4. js = << <<"free">> >> /\ d.jobs = <<>>
    BY <2>1, <2>3, DisposeStack, Zenon
  <2>5. js' = <<>>
    BY <2>1, <2>4, DisposeStack, Zenon
  <2>6. Count(js, Plain("job")) = 0 /\ Count(js, Plain("finish")) = 0
    <3>1. \A M : Count(<< <<"free">> >>, M) = IF <<"free">> \in M THEN 1 ELSE 0
      BY CountOne
    <3>2. <<"free">> \notin Plain("job") /\ <<"free">> \notin Plain("finish")
      BY DEF Plain
    <3> QED
      BY <2>4, <3>1, <3>2
  <2>7. Quiescent(d)
    <3>1. Len(d.jobs) = 0
      BY <2>4
    <3>2. d.pending = 0
      BY <1>0, <2>6, <3>1
    <3> QED
      BY <2>3, <3>2 DEF Quiescent, Unwound
  <2>8. env' = [state |-> "finished", roots |-> TRUE]
    BY <1>5, <2>3, <2>7 DEF FreeEnv
  <2>9. env'.state = "finished"
    BY <2>8
  <2>10. f.finish
    BY <2>3 DEF Disposing
  <2>11. ~f.reg
    BY <1>0, <2>6, <2>10 DEF Finishing
  <2>12. ~(Count(js', Plain("free")) > 0)
    BY <1>1, <2>5
  <2>13. Unwound' /\ ~d'.tx
    BY <2>1, <2>3 DEF Unwound
  <2> QED
    BY <2>1, <2>4, <2>5, <2>9, <2>10, <2>11, <2>12, <2>13 DEF Disposing
<1> QED
  BY <1>2, <1>3, <1>4, <1>5 DEF Disposes

(* The whole invariant.                                                    *)
LEMMA InitIInv ==
  ASSUME Init
  PROVE  IInv
<1>1. KInv /\ PInv
  BY InitKInv, InitPInv
<1>2. /\ d.running = TRUE /\ loop = "spawned" /\ js = <<>> /\ env.state = "active"
  BY DEF Init
<1>3. \A M : Count(<<>>, M) = 0
  BY CountEmpty
<1>4. LoopState
  BY <1>2 DEF LoopState
<1>5. Disposing
  BY <1>2, <1>3 DEF Disposing
<1> QED
  BY <1>1, <1>4, <1>5 DEF IInv, DInv

(* Every step keeps the whole invariant.                                   *)
LEMMA StepIInv ==
  ASSUME IInv, [Next]_vars
  PROVE  IInv'
<1>0. KInv /\ CInv /\ PInv /\ LoopState /\ Disposing
  BY DEF IInv, DInv, KInv
<1>1. KInv' /\ CInv' /\ PInv'
  <2>1. KInv' /\ PInv'
    BY <1>0, StepKInv, StepPInv
  <2> QED
    BY <2>1 DEF KInv
<1>2. LoopState'
  BY <1>0, StepLoopState
<1>3. Disposing'
  BY <1>0, <1>1, OrdinarySteps, OrdinaryDisposing, DisposeDisposing
<1> QED
  BY <1>1, <1>2, <1>3 DEF IInv, DInv

(* A dispose that begins is never refused the Env: once run_loop has left  *)
(* the driver is quiescent, the sender closed and the drain that follows   *)
(* finds nothing to call; and until then there is a run_loop to wait for.  *)
THEOREM DisposesSucceed == Spec => []DisposeSucceeds
<1>1. ASSUME IInv PROVE DisposeSucceeds
  <2>0. /\ Disposing /\ LoopState /\ d \in Driver /\ js \in Seq(Frame)
        /\ d.inflight = Cardinality(OwedSet(work, d.jobs, js))
    BY <1>1 DEF IInv, DInv, KInv, CInv, Types, Counted
  <2>1. env.state # "failed"
    BY <2>0 DEF Disposing
  <2>2. ASSUME env.state = "finished"
        PROVE  d.jobs = <<>> /\ loop = "none" /\ ~tail /\ \A w \in Works : ~Owed(w)
    <3>1. Unwound /\ d.jobs = <<>>
      BY <2>0, <2>2 DEF Disposing
    <3>2. OwedSet(work, d.jobs, js) = {}
      BY <2>0, <3>1, OwedFinite, FS_EmptySet DEF Unwound
    <3>3. \A w \in Works : ~Owed(w)
      BY <2>0, <3>2, OwedAre DEF OwedSet
    <3> QED
      BY <3>1, <3>3 DEF Unwound
  <2>3. env.state = "beginning" /\ Idle => d.finished \/ loop # "none" \/ tail
    BY <2>0 DEF LoopState
  <2> QED
    BY <2>1, <2>2, <2>3 DEF DisposeSucceeds
<1> QED
  BY <1>1, InitIInv, StepIInv, PTL DEF Spec
================================================================================
