---------------------------- MODULE RwsemProofs ----------------------------
(***************************************************************************)
(* What MC_Rwsem checks for three tasks, for any finite number of them,    *)
(* any of which may be killed, and any MAX_READERS_WAKEUP.                 *)
(***************************************************************************)
EXTENDS Rwsem, FiniteSetTheorems, FunctionTheorems, TLAPS

-----------------------------------------------------------------------------
(* The lists the waiters are queued on                                      *)

\* Unlinking an element removes it and nothing else, and keeps the order.
LEMMA ListDel ==
  ASSUME NEW S, NEW s \in Seq(S), NoDup(s), NEW e \in Linked(s)
  PROVE  /\ list_del(s, e) \in Seq(S)
         /\ NoDup(list_del(s, e))
         /\ Linked(list_del(s, e)) = Linked(s) \ {e}
         /\ list_first_entry(s) # e =>
              list_first_entry(list_del(s, e)) = list_first_entry(s)
<1>1. PICK k \in 1..Len(s) : s[k] = e
  BY DEF Linked
<1>2. SelectInSeq(s, LAMBDA v : v = e) = k
  <2>1. {i \in 1..Len(s) : s[i] = e} = {k}
    BY <1>1 DEF NoDup
  <2>2. Min({k}) = k
    BY DEF Min
  <2>3. QED
    BY <2>1, <2>2 DEF SelectInSeq
<1> DEFINE r == SubSeq(s, 1, k - 1) \o SubSeq(s, k + 1, Len(s))
<1>3. list_del(s, e) = r
  BY <1>1, <1>2 DEF list_del, RemoveFirst, RemoveAt
<1>4. /\ r \in Seq(S)
      /\ Len(r) = Len(s) - 1
      /\ \A i \in 1..(Len(s) - 1) : r[i] = IF i < k THEN s[i] ELSE s[i + 1]
  <2> DEFINE a == SubSeq(s, 1, k - 1)
             b == SubSeq(s, k + 1, Len(s))
  <2>1. /\ a \in Seq(S) /\ Len(a) = k - 1
        /\ \A i \in 1..(k - 1) : a[i] = s[i]
    BY <1>1
  <2>2. /\ b \in Seq(S) /\ Len(b) = Len(s) - k
        /\ \A i \in 1..(Len(s) - k) : b[i] = s[k + i]
    BY <1>1
  <2> HIDE DEF a, b
  <2>3. /\ a \o b \in Seq(S) /\ Len(a \o b) = Len(s) - 1
        /\ \A i \in 1..(Len(s) - 1) :
             (a \o b)[i] = IF i < k THEN a[i] ELSE b[i - (k - 1)]
    BY <2>1, <2>2, <1>1
  <2>4. \A i \in 1..(Len(s) - 1) : (a \o b)[i] = IF i < k THEN s[i] ELSE s[i + 1]
    BY <2>1, <2>2, <2>3, <1>1
  <2>5. QED
    BY <2>3, <2>4 DEF a, b
<1> HIDE DEF r
<1>5. NoDup(r)
  BY <1>1, <1>4 DEF NoDup
<1>6. ASSUME NEW x \in Linked(r)
      PROVE  x \in Linked(s) \ {e}
  <2>1. PICK i \in 1..Len(r) : r[i] = x
    BY <1>6, <1>4 DEF Linked
  <2>2. PICK j \in 1..Len(s) : j # k /\ s[j] = x
    BY <2>1, <1>1, <1>4
  <2>3. QED
    BY <2>2, <1>1 DEF NoDup, Linked
<1>7. ASSUME NEW x \in Linked(s) \ {e}
      PROVE  x \in Linked(r)
  <2>1. PICK j \in 1..Len(s) : s[j] = x
    BY <1>7 DEF Linked
  <2>2. CASE j < k
    BY <2>1, <2>2, <1>1, <1>4 DEF Linked
  <2>3. CASE j > k
    <3>1. j - 1 \in 1..(Len(s) - 1) /\ r[j - 1] = x
      BY <2>1, <2>3, <1>1, <1>4
    <3>2. QED
      BY <3>1, <1>4 DEF Linked
  <2>4. QED
    BY <2>1, <2>2, <2>3, <1>1, <1>7
<1>8. ASSUME list_first_entry(s) # e PROVE list_first_entry(r) = list_first_entry(s)
  <2>1. Head(s) = s[1] /\ k # 1 /\ Len(s) > 1
    BY <1>1, <1>8 DEF list_first_entry
  <2>2. r[1] = s[1] /\ Head(r) = r[1]
    BY <1>1, <1>4, <2>1
  <2>3. QED
    BY <2>1, <2>2 DEF list_first_entry
<1>9. QED
  BY <1>3, <1>4, <1>5, <1>6, <1>7, <1>8

\* Queueing an element that is not linked links it too.
LEMMA ListAddTail ==
  ASSUME NEW S, NEW s \in Seq(S), NoDup(s), NEW e \in S, e \notin Linked(s)
  PROVE  /\ list_add_tail(s, e) \in Seq(S)
         /\ NoDup(list_add_tail(s, e))
         /\ Linked(list_add_tail(s, e)) = Linked(s) \cup {e}
<1>1. /\ list_add_tail(s, e) \in Seq(S)
      /\ Len(list_add_tail(s, e)) = Len(s) + 1
      /\ \A i \in 1..Len(s) : list_add_tail(s, e)[i] = s[i]
      /\ list_add_tail(s, e)[Len(s) + 1] = e
  BY DEF list_add_tail
<1>2. NoDup(list_add_tail(s, e))
  BY <1>1 DEF NoDup, Linked
<1>3. Linked(list_add_tail(s, e)) = Linked(s) \cup {e}
  BY <1>1 DEF Linked
<1>4. QED
  BY <1>1, <1>2, <1>3

\* The first entry of a list that is not empty is linked, and queueing another
\* element at the tail leaves it the first.
LEMMA ListFirst ==
  ASSUME NEW S, NEW s \in Seq(S), s # <<>>
  PROVE  /\ list_first_entry(s) \in Linked(s)
         /\ list_first_entry(s) \in S
         /\ \A e \in S : list_first_entry(list_add_tail(s, e)) = list_first_entry(s)
<1>1. 1 \in DOMAIN s /\ Head(s) = s[1] /\ s[1] \in S
  OBVIOUS
<1>2. list_first_entry(s) \in Linked(s) /\ list_first_entry(s) \in S
  BY <1>1 DEF list_first_entry, Linked
<1>3. ASSUME NEW e \in S
      PROVE  list_first_entry(list_add_tail(s, e)) = list_first_entry(s)
  BY <1>1 DEF list_first_entry, list_add_tail
<1>4. QED
  BY <1>2, <1>3

\* Exactly the empty list links nothing.
LEMMA ListEmpty ==
  ASSUME NEW S, NEW s \in Seq(S)
  PROVE  s = <<>> <=> Linked(s) = {}
<1>1. CASE s = <<>>
  BY <1>1 DEF Linked
<1>2. CASE s # <<>>
  BY <1>2, ListFirst
<1>3. QED
  BY <1>1, <1>2

\* Which of the elements that stay is the i-th, counted by those up to it, is a
\* numbering of them: no two have the same number, and all numbers occur.
LEMMA Numbering ==
  ASSUME NEW n \in Nat, NEW K \in SUBSET (1..n)
  PROVE  /\ IsFiniteSet(K) /\ Cardinality(K) \in Nat
         /\ \A i \in K : Cardinality({j \in K : j <= i}) \in 1..Cardinality(K)
         /\ \A i, j \in K :
              Cardinality({k \in K : k <= i}) = Cardinality({k \in K : k <= j}) => i = j
         /\ \A k \in 1..Cardinality(K) :
              \E i \in K : Cardinality({j \in K : j <= i}) = k
         /\ 1 \in K => Cardinality({j \in K : j <= 1}) = 1
<1> DEFINE upto(i) == {j \in K : j <= i}
           num == [i \in K |-> Cardinality(upto(i))]
<1>1. IsFiniteSet(K) /\ Cardinality(K) \in Nat
  <2>1. IsFiniteSet(1..n)
    BY FS_Interval
  <2>2. QED
    BY <2>1, FS_Subset, FS_CardinalityType
<1> \A i \in K : i \in Nat /\ i >= 1
  OBVIOUS
<1>2. ASSUME NEW i \in K
      PROVE  IsFiniteSet(upto(i)) /\ Cardinality(upto(i)) \in 1..Cardinality(K)
  <2>1. upto(i) \in SUBSET K /\ upto(i) # {}
    BY <1>2
  <2>2. IsFiniteSet(upto(i)) /\ Cardinality(upto(i)) <= Cardinality(K)
    BY <1>1, <2>1, FS_Subset
  <2>3. Cardinality(upto(i)) \in Nat /\ Cardinality(upto(i)) # 0
    BY <2>1, <2>2, FS_CardinalityType, FS_EmptySet
  <2>4. QED
    BY <1>1, <2>2, <2>3
<1>3. ASSUME NEW i \in K, NEW j \in K, Cardinality(upto(i)) = Cardinality(upto(j)), i < j
      PROVE  FALSE
  <2>1. upto(i) \in SUBSET upto(j) /\ j \in upto(j) /\ j \notin upto(i)
    <3>1. i \in Nat /\ j \in Nat /\ i < j
      BY <1>3
    <3>2. ASSUME NEW k \in upto(i) PROVE k \in upto(j)
      <4>1. k \in K /\ k \in Nat /\ k <= i
        OBVIOUS
      <4>2. k <= j
        BY <3>1, <4>1
      <4>3. QED
        BY <4>1, <4>2
    <3>3. j \in upto(j) /\ j \notin upto(i)
      BY <3>1
    <3>4. QED
      BY <3>2, <3>3
  <2>2. IsFiniteSet(upto(j))
    BY <1>2
  <2>3. upto(i) = upto(j)
    BY <1>3, <2>1, <2>2, FS_Subset
  <2>4. QED
    BY <2>1, <2>3
<1>4. \A i, j \in K : Cardinality(upto(i)) = Cardinality(upto(j)) => i = j
  <2>1. \A i, j \in K : i < j \/ j < i \/ i = j
    OBVIOUS
  <2>2. QED
    BY <1>3, <2>1
<1>5. num \in Injection(K, 1..Cardinality(K))
  <2>1. num \in [K -> 1..Cardinality(K)]
    BY <1>2
  <2>2. \A i, j \in K : num[i] = num[j] => i = j
    BY <1>4
  <2>3. QED
    BY <2>1, <2>2, Fun_IsInj
<1>6. num \in Surjection(K, 1..Cardinality(K))
  <2>1. IsFiniteSet(1..Cardinality(K)) /\ Cardinality(1..Cardinality(K)) = Cardinality(K)
    BY <1>1, FS_Interval
  <2>2. QED
    BY <1>5, <2>1, FS_Injection
<1>7. \A k \in 1..Cardinality(K) : \E i \in K : Cardinality(upto(i)) = k
  BY <1>6 DEF Surjection
<1>8. 1 \in K => Cardinality(upto(1)) = 1
  <2>1. ASSUME 1 \in K PROVE upto(1) = {1}
    <3>1. 1 \in upto(1)
      BY <2>1
    <3>2. ASSUME NEW j \in upto(1) PROVE j = 1
      OBVIOUS
    <3>3. QED
      BY <3>1, <3>2
  <2>2. QED
    BY <2>1, FS_Singleton
<1>9. QED
  BY <1>1, <1>2, <1>4, <1>7, <1>8

\* Unlinking several elements removes those and nothing else, and a first entry
\* that stays remains the first.
LEMMA ListDelAll ==
  ASSUME NEW S, NEW s \in Seq(S), NoDup(s), NEW E
  PROVE  /\ list_del_all(s, E) \in Seq(S)
         /\ NoDup(list_del_all(s, E))
         /\ Linked(list_del_all(s, E)) = Linked(s) \ E
         /\ s # <<>> /\ list_first_entry(s) \notin E =>
              list_first_entry(list_del_all(s, E)) = list_first_entry(s)
<1> DEFINE kept == {i \in DOMAIN s : s[i] \notin E}
           num(i) == Cardinality({j \in kept : j <= i})
           kth(k) == CHOOSE i \in kept : num(i) = k
           n == Cardinality(kept)
           r == [k \in 1..n |-> s[kth(k)]]
<1>1. list_del_all(s, E) = r
  BY DEF list_del_all
<1>2. kept \in SUBSET (1..Len(s)) /\ Len(s) \in Nat
  OBVIOUS
<1>3. /\ n \in Nat
      /\ \A i \in kept : num(i) \in 1..n
      /\ \A i, j \in kept : num(i) = num(j) => i = j
      /\ \A k \in 1..n : \E i \in kept : num(i) = k
      /\ 1 \in kept => num(1) = 1
  BY <1>2, Numbering
<1> HIDE DEF num, n
<1>4. /\ \A k \in 1..n : kth(k) \in kept /\ num(kth(k)) = k
      /\ \A i \in kept : kth(num(i)) = i
  BY <1>3
<1> HIDE DEF kth
<1>5. \A i \in kept : i \in 1..Len(s) /\ s[i] \in S /\ s[i] \notin E
  OBVIOUS
<1>6. r \in Seq(S) /\ Len(r) = n /\ DOMAIN r = 1..n /\ \A k \in 1..n : r[k] = s[kth(k)]
  <2>1. r \in [1..n -> S]
    BY <1>4, <1>5
  <2>2. QED
    BY <2>1, <1>3
<1>7. NoDup(r)
  BY <1>4, <1>5, <1>6 DEF NoDup
<1>8. Linked(r) \subseteq Linked(s) \ E
  BY <1>4, <1>5, <1>6 DEF Linked
<1>9. ASSUME NEW x \in Linked(s) \ E PROVE x \in Linked(r)
  <2>1. PICK i \in kept : s[i] = x
    BY <1>9 DEF Linked
  <2>2. num(i) \in 1..n /\ r[num(i)] = x
    BY <2>1, <1>3, <1>4, <1>6
  <2>3. QED
    BY <2>2, <1>6 DEF Linked
<1>10. ASSUME s # <<>>, list_first_entry(s) \notin E
       PROVE  list_first_entry(r) = list_first_entry(s)
  <2>1. 1 \in kept /\ Head(s) = s[1]
    BY <1>10 DEF list_first_entry
  <2>2. kth(1) = 1 /\ 1 \in 1..n
    BY <2>1, <1>3, <1>4
  <2>3. r[1] = s[1] /\ r # <<>> /\ Head(r) = r[1]
    BY <2>2, <1>6
  <2>4. QED
    BY <2>1, <2>3 DEF list_first_entry
<1>11. QED
  BY <1>1, <1>6, <1>7, <1>8, <1>9, <1>10

\* A list has one element exactly when it links nothing else.
LEMMA ListSingle ==
  ASSUME NEW S, NEW s \in Seq(S), NoDup(s), NEW e \in Linked(s)
  PROVE  Len(s) = 1 <=> Linked(s) = {e}
<1>1. PICK k \in 1..Len(s) : s[k] = e
  BY DEF Linked
<1>2. CASE Len(s) = 1
  BY <1>1, <1>2 DEF Linked
<1>3. CASE Len(s) # 1
  <2>1. PICK j \in 1..Len(s) : j # k
    <3>1. \A m \in Nat : \A i \in 1..m : m # 1 => \E j \in 1..m : j # i
      <4> SUFFICES ASSUME NEW m \in Nat, NEW i \in 1..m, m # 1
                   PROVE  \E j \in 1..m : j # i
        OBVIOUS
      <4>1. 1 \in 1..m /\ 2 \in 1..m
        OBVIOUS
      <4>2. QED
        BY <4>1
    <3>2. Len(s) \in Nat
      OBVIOUS
    <3>3. QED
      BY <1>3, <3>1, <3>2
  <2>2. s[j] \in Linked(s) /\ s[j] # e
    BY <1>1, <2>1 DEF Linked, NoDup
  <2>3. QED
    BY <2>2, <1>3
<1>4. QED
  BY <1>2, <1>3

-----------------------------------------------------------------------------
(* The inductive invariant.                                                 *)

\* In rwsem_mark_wake() or in the wake_up_q() after it.
Marking(t) == pc[t] \in MarkPC \cup {"wake"}

\* The tasks that have queued a waiter and have not returned since.
QueuedReader(t) ==
  \/ pc[t] \in {"r_add", "r_wait", "r_sched", "r_sig"}
  \/ Marking(t) /\ local[t].ret = "r_wait"
QueuedWriter(t) ==
  \/ pc[t] \in {"w_try", "w_fail", "w_sched", "w_first", "w_count", "w_relock", "w_nolock"}
  \/ Marking(t) /\ local[t].ret = "w_try"

ReadWaiter(t)  == [task |-> t, type |-> "read"]
WriteWaiter(t) == [task |-> t, type |-> "write"]

\* The readers taken off the queue by rwsem_mark_wake() that do not know it yet.
Given == {t \in Tasks : t \in granted \/ \E u \in Tasks : t \in local[u].wlist}

\* What the program counter tells about the local variables.
LocalsOf(t) ==
  /\ ~Marking(t) => local[t].ret = "out"
  /\ local[t].wlist # {} => pc[t] = "m_grant"
  /\ pc[t] = "r_slow" => local[t].bias = 1
  /\ pc[t] \in {"r_osq", "r_spin", "r_try", "r_back", "r_spun", "r_phase", "r_ptry",
                "r_pback"} => local[t].bias = 0
  /\ Marking(t) /\ local[t].wake_type = "READ_OWNED" => local[t].ret = "r_held"
  /\ pc[t] = "m_undo" => local[t].wake_type # "READ_OWNED"
Locals == \A t \in Tasks : LocalsOf(t)

\* A writer that believes to be first is, or has left the queue already.
FirstOf(t) ==
  /\ local[t].wstate # "NOT_FIRST" =>
       \/ QueuedWriter(t) /\ list_first_entry(wait_list).task = t
       \/ pc[t] = "w_empty"
       \/ Marking(t) /\ local[t].ret = "out"
  /\ local[t].wstate = "HANDOFF" => pc[t] # "w_count"
Firsts == \A t \in Tasks : FirstOf(t)

\* The sections under wait_lock that never start without it.
LockedPC == {"r_add", "m_undo", "m_adjust", "m_grant", "w_empty"}
LockHeld == \A t \in Tasks : pc[t] \in LockedPC => wait_lock = t

\* The queue holds the waiters of exactly the tasks that wait.
Queue ==
  /\ NoDup(wait_list)
  /\ \A t \in Tasks :
       /\ ReadWaiter(t) \in Linked(wait_list) <=> QueuedReader(t) /\ t \notin Given
       /\ WriteWaiter(t) \in Linked(wait_list) <=> QueuedWriter(t)
       /\ t \in Given => QueuedReader(t) /\ pc[t] # "r_add"
       /\ local[t].wlist \cap granted = {}
       /\ pc[t] = "w_empty" => wait_list = <<>>
       /\ pc[t] = "m_adjust" =>
            wait_list # <<>> /\ list_first_entry(wait_list).type = "read"

\* The waiters bit follows the queue, but for the first reader's queueing and
\* the last writer's leaving, which are two steps.
WaitersBit ==
  count.waiters = IF \/ \E t \in Tasks : pc[t] = "w_empty"
                     \/ /\ wait_list # <<>>
                        /\ ~(Len(wait_list) = 1 /\ \E t \in Tasks : pc[t] = "r_add")
                  THEN 1 ELSE 0

\* A writer that waits for a handoff has set the bit, and nobody cleared it.
AwaitsHandoff(t) ==
  /\ local[t].wstate = "HANDOFF"
  /\ pc[t] \in {"w_fail", "w_sched", "w_first", "w_nolock"}
HandoffBit ==
  /\ count.handoff \in {0, 1}
  /\ \A t \in Tasks : AwaitsHandoff(t) => count.handoff = 1

\* Reader count and writer bit are exact, batches and early grants included.
Word ==
  /\ count.writer = Cardinality(Writing)
  /\ count.writer \in {0, 1}
  /\ count.readers = Biased

\* While a writer has the lock, no reader has it or is granted it.
Exclusion ==
  Writing # {} => Reading = {} /\ Given = {} /\ \A t \in Tasks : pc[t] # "m_adjust"

\* A reader that was granted the lock sleeps only while somebody is about to
\* wake it up.
GrantedAreWoken ==
  \A t \in granted : Asleep(t) => \E u \in Tasks : t \in wake_q[u]

IInv ==
  /\ TypeOK /\ Locals /\ Firsts /\ LockHeld /\ Queue
  /\ WaitersBit /\ HandoffBit /\ Word /\ Exclusion
  /\ GrantedAreWoken

-----------------------------------------------------------------------------
(* Counting the biases in the word.                                         *)

BackingOut == {t \in Tasks : pc[t] \in {"r_slow", "r_back", "r_pback"}}
Queueing == {t \in Tasks : pc[t] \in {"r_lock", "r_add"} /\ local[t].bias = 1}
Granting == {t \in Tasks : pc[t] \in {"m_undo", "m_adjust"} /\ granted_early(t) = 1}

One(b) == IF b THEN 1 ELSE 0

\* The biases that task t itself stands for.
Own(t) == One(t \in Reading) + One(t \in BackingOut) + One(t \in Queueing)
            + One(t \in Granting)

\* A step of task t changes the locals of nobody else.
Frame(t) == \A u \in Tasks \ {t} : pc'[u] = pc[u] /\ local'[u] = local[u]

\* Sets of tasks can be counted.
LEMMA TasksFinite ==
  ASSUME NEW S \in SUBSET Tasks
  PROVE  IsFiniteSet(S) /\ Cardinality(S) \in Nat /\ (Cardinality(S) = 0 <=> S = {})
BY RwsemAssumption, FS_Subset, FS_CardinalityType, FS_EmptySet

\* How the size of a set changes with the membership of one task.
LEMMA CardMove ==
  ASSUME NEW S \in SUBSET Tasks, NEW T \in SUBSET Tasks, NEW t, S \ {t} = T \ {t}
  PROVE  Cardinality(T) = Cardinality(S) - One(t \in S) + One(t \in T)
<1> USE DEF One
<1>1. /\ IsFiniteSet(S) /\ Cardinality(S) \in Nat
      /\ IsFiniteSet(T) /\ Cardinality(T) \in Nat
  BY TasksFinite
<1>2. CASE t \in S <=> t \in T
  <2>1. S = T
    BY <1>2
  <2>2. QED
    BY <1>1, <1>2, <2>1
<1>3. CASE t \in S /\ t \notin T
  <2>1. T = S \ {t}
    BY <1>3
  <2>2. QED
    BY <1>1, <1>3, <2>1, FS_RemoveElement
<1>4. CASE t \notin S /\ t \in T
  <2>1. T = S \cup {t}
    BY <1>4
  <2>2. QED
    BY <1>1, <1>4, <2>1, FS_AddElement
<1>5. QED
  BY <1>2, <1>3, <1>4

\* A step of task t moves only its own biases.
LEMMA OwnMove ==
  ASSUME NEW t \in Tasks, Frame(t), Word,
         count'.readers = count.readers + Own(t)' - Own(t)
                            + Cardinality(Given') - Cardinality(Given)
  PROVE  count'.readers = Biased'
<1>1. /\ Reading \in SUBSET Tasks /\ Reading' \in SUBSET Tasks
      /\ BackingOut \in SUBSET Tasks /\ BackingOut' \in SUBSET Tasks
      /\ Queueing \in SUBSET Tasks /\ Queueing' \in SUBSET Tasks
      /\ Granting \in SUBSET Tasks /\ Granting' \in SUBSET Tasks
      /\ Given \in SUBSET Tasks /\ Given' \in SUBSET Tasks
  BY DEF Reading, BackingOut, Queueing, Granting, Given
<1>2. /\ Reading \ {t} = Reading' \ {t}
      /\ BackingOut \ {t} = BackingOut' \ {t}
      /\ Queueing \ {t} = Queueing' \ {t}
      /\ Granting \ {t} = Granting' \ {t}
  BY DEF Frame, Reading, BackingOut, Queueing, Granting, granted_early
<1>3. /\ Cardinality(Reading') = Cardinality(Reading) - One(t \in Reading) + One(t \in Reading')
      /\ Cardinality(BackingOut') =
           Cardinality(BackingOut) - One(t \in BackingOut) + One(t \in BackingOut')
      /\ Cardinality(Queueing') =
           Cardinality(Queueing) - One(t \in Queueing) + One(t \in Queueing')
      /\ Cardinality(Granting') =
           Cardinality(Granting) - One(t \in Granting) + One(t \in Granting')
  BY <1>1, <1>2, CardMove
<1>4. /\ Cardinality(Reading) \in Nat /\ Cardinality(BackingOut) \in Nat
      /\ Cardinality(Queueing) \in Nat /\ Cardinality(Granting) \in Nat
      /\ Cardinality(Given) \in Nat /\ Cardinality(Given') \in Nat
  BY <1>1, TasksFinite
<1>5. count.readers = Cardinality(Reading) + Cardinality(BackingOut) + Cardinality(Queueing)
                        + Cardinality(Granting) + Cardinality(Given)
  BY DEF Word, Biased, BackingOut, Queueing, Granting, Given
<1>6. Biased' = Cardinality(Reading') + Cardinality(BackingOut') + Cardinality(Queueing')
                  + Cardinality(Granting') + Cardinality(Given')
  BY DEF Biased, BackingOut, Queueing, Granting, Given
<1>7. QED
  BY <1>3, <1>4, <1>5, <1>6 DEF Own, One

\* The same for a step that grants nothing.
LEMMA OwnMoveOnly ==
  ASSUME NEW t \in Tasks, Frame(t), Word, count.readers \in Int, Given' = Given,
         count'.readers = count.readers + Own(t)' - Own(t)
  PROVE  count'.readers = Biased'
<1>1. Cardinality(Given) \in Nat
  BY TasksFinite DEF Given
<1>2. Own(t) \in Int /\ Own(t)' \in Int
  BY DEF Own, One
<1>3. count'.readers = count.readers + Own(t)' - Own(t) + Cardinality(Given') - Cardinality(Given)
  BY <1>1, <1>2
<1>4. QED
  BY <1>3, OwnMove

\* A word without readers means that no reader has the lock or is granted it.
LEMMA NoReaders ==
  ASSUME Word, count.readers = 0
  PROVE  Reading = {} /\ BackingOut = {} /\ Queueing = {} /\ Granting = {} /\ Given = {}
<1>1. /\ Reading \in SUBSET Tasks /\ BackingOut \in SUBSET Tasks
      /\ Queueing \in SUBSET Tasks /\ Granting \in SUBSET Tasks /\ Given \in SUBSET Tasks
  BY DEF Reading, BackingOut, Queueing, Granting, Given
<1>2. count.readers = Cardinality(Reading) + Cardinality(BackingOut) + Cardinality(Queueing)
                        + Cardinality(Granting) + Cardinality(Given)
  BY DEF Word, Biased, BackingOut, Queueing, Granting, Given
<1>3. /\ Cardinality(Reading) \in Nat /\ Cardinality(BackingOut) \in Nat
      /\ Cardinality(Queueing) \in Nat /\ Cardinality(Granting) \in Nat
      /\ Cardinality(Given) \in Nat
  BY <1>1, TasksFinite
<1>4. /\ Cardinality(Reading) = 0 /\ Cardinality(BackingOut) = 0
      /\ Cardinality(Queueing) = 0 /\ Cardinality(Granting) = 0
      /\ Cardinality(Given) = 0
  <2> DEFINE a == Cardinality(Reading)
             b == Cardinality(BackingOut)
             c == Cardinality(Queueing)
             d == Cardinality(Granting)
             e == Cardinality(Given)
  <2>1. a \in Nat /\ b \in Nat /\ c \in Nat /\ d \in Nat /\ e \in Nat /\ 0 = a + b + c + d + e
    BY <1>2, <1>3
  <2> HIDE DEF a, b, c, d, e
  <2>2. a = 0 /\ b = 0 /\ c = 0 /\ d = 0 /\ e = 0
    BY <2>1
  <2>3. QED
    BY <2>2 DEF a, b, c, d, e
<1>5. QED
  BY <1>1, <1>4, TasksFinite

\* A word without a writer means that no writer has the lock.
LEMMA NoWriter ==
  ASSUME Word, count.writer = 0
  PROVE  Writing = {}
BY TasksFinite DEF Word, Writing

\* The writer bit belongs to one task.
LEMMA OneWriter ==
  ASSUME Word, NEW t \in Writing
  PROVE  Writing = {t} /\ count.writer = 1
<1>1. Writing \in SUBSET Tasks
  BY DEF Writing
<1>2. IsFiniteSet(Writing) /\ Cardinality(Writing) = 1
  BY <1>1, TasksFinite DEF Word
<1>3. QED
  BY <1>2, FS_Singleton DEF Word

\* The writer bit after a step of task t.
LEMMA WriterMove ==
  ASSUME NEW t \in Tasks, Frame(t), Word
  PROVE  Cardinality(Writing') = count.writer - One(t \in Writing) + One(t \in Writing')
<1>1. Writing \in SUBSET Tasks /\ Writing' \in SUBSET Tasks /\ Writing \ {t} = Writing' \ {t}
  BY DEF Frame, Writing
<1>2. QED
  BY <1>1, CardMove DEF Word

-----------------------------------------------------------------------------
(* What a step of one task leaves alone.                                    *)

\* The queue, the grants and the sections under wait_lock.
Quiet(t) ==
  /\ wait_list' = wait_list /\ granted' = granted /\ wait_lock' = wait_lock
  /\ local'[t].wlist = local[t].wlist
  /\ QueuedReader(t)' <=> QueuedReader(t)
  /\ QueuedWriter(t)' <=> QueuedWriter(t)
  /\ pc[t] \notin LockedPC /\ pc'[t] \notin LockedPC
  /\ count'.waiters = count.waiters

\* Who gets the lock finds it free of those that exclude it.
Admitted(t) ==
  /\ t \in Reading' \ Reading => count.writer = 0 \/ t \in Writing
  /\ t \in Writing' \ Writing => count.writer = 0 /\ count.readers = 0

\* The other tasks' locals mean what they meant before.
LEMMA OthersSame ==
  ASSUME NEW t \in Tasks, Frame(t), NEW u \in Tasks, u # t
  PROVE  /\ pc'[u] = pc[u] /\ local'[u] = local[u]
         /\ Marking(u)' <=> Marking(u)
         /\ QueuedReader(u)' <=> QueuedReader(u)
         /\ QueuedWriter(u)' <=> QueuedWriter(u)
         /\ LocalsOf(u)' <=> LocalsOf(u)
         /\ AwaitsHandoff(u)' <=> AwaitsHandoff(u)
         /\ u \in Reading' <=> u \in Reading
         /\ u \in Writing' <=> u \in Writing
BY DEF Frame, Marking, QueuedReader, QueuedWriter, LocalsOf, AwaitsHandoff, Reading, Writing

\* Locals of the task that moves.
LEMMA LocalsStep ==
  ASSUME NEW t \in Tasks, Frame(t), Locals, LocalsOf(t)'
  PROVE  Locals'
BY OthersSame DEF Locals

\* A writer that is first stays the first.
LEMMA FirstsStep ==
  ASSUME NEW t \in Tasks, Frame(t), Firsts, FirstOf(t)',
         \A u \in Tasks \ {t} : QueuedWriter(u) /\ list_first_entry(wait_list).task = u =>
           list_first_entry(wait_list').task = u
  PROVE  Firsts'
BY OthersSame DEF Firsts, FirstOf

\* The handoff bit stays with the writer that waits for it.
LEMMA HandoffStep ==
  ASSUME NEW t \in Tasks, Frame(t), HandoffBit, count'.handoff = count.handoff,
         AwaitsHandoff(t)' => count'.handoff = 1
  PROVE  HandoffBit'
BY OthersSame DEF HandoffBit

\* A quiet step grants nothing.
LEMMA QuietGiven ==
  ASSUME NEW t \in Tasks, Frame(t), granted' = granted, local'[t].wlist = local[t].wlist
  PROVE  Given' = Given
BY DEF Frame, Given

\* A quiet step keeps the queue, the waiters bit and wait_lock as they are.
LEMMA QuietStep ==
  ASSUME NEW t \in Tasks, Frame(t), Quiet(t), Queue, LockHeld, WaitersBit
  PROVE  Queue' /\ LockHeld' /\ WaitersBit'
<1> USE DEF Quiet, LockedPC
<1>1. Given' = Given
  BY QuietGiven
<1>2. /\ \A u \in Tasks : QueuedReader(u)' <=> QueuedReader(u)
      /\ \A u \in Tasks : QueuedWriter(u)' <=> QueuedWriter(u)
  BY OthersSame
<1>3. \A u \in Tasks : \A l \in LockedPC : pc'[u] = l <=> pc[u] = l
  BY OthersSame
<1>4. Queue'
  <2>1. \A u \in Tasks : local'[u].wlist = local[u].wlist
    BY OthersSame
  <2>2. QED
    BY <1>1, <1>2, <1>3, <2>1 DEF Queue, ReadWaiter, WriteWaiter
<1>5. LockHeld'
  BY <1>3 DEF LockHeld
<1>6. WaitersBit'
  BY <1>3 DEF WaitersBit
<1>7. QED
  BY <1>4, <1>5, <1>6

\* The word stays exact when it follows the task that moves.
LEMMA WordStep ==
  ASSUME NEW t \in Tasks, Frame(t), Word, TypeOK, Given' = Given,
         count'.readers = count.readers + Own(t)' - Own(t),
         count'.writer = count.writer - One(t \in Writing) + One(t \in Writing'),
         t \in Writing' \ Writing => count.writer = 0
  PROVE  Word'
<1>1. count'.readers = Biased'
  BY OwnMoveOnly DEF TypeOK, WordType
<1>2. count'.writer = Cardinality(Writing')
  BY WriterMove
<1>3. count'.writer \in {0, 1}
  BY OneWriter DEF Word, One
<1>4. QED
  BY <1>1, <1>2, <1>3 DEF Word

\* Readers that are granted the lock keep writers out.
LEMMA NoReadersAtAll ==
  ASSUME Word, Locals, count.readers = 0
  PROVE  Reading = {} /\ Given = {} /\ \A u \in Tasks : pc[u] # "m_adjust"
<1>1. Reading = {} /\ Given = {} /\ Granting = {}
  BY NoReaders
<1>2. ASSUME NEW u \in Tasks, pc[u] = "m_adjust" PROVE FALSE
  <2>1. granted_early(u) # 1
    BY <1>1, <1>2 DEF Granting
  <2>2. local[u].ret = "r_held"
    BY <1>2, <2>1 DEF granted_early, Locals, LocalsOf, Marking, MarkPC
  <2>3. QED
    BY <1>1, <1>2, <2>2 DEF Reading, MarkPC
<1>3. QED
  BY <1>1, <1>2

\* Exclusion holds after a step that admits nobody wrongly.
LEMMA ExclusionStep ==
  ASSUME NEW t \in Tasks, Frame(t), Word, Locals, Exclusion, Admitted(t), Given' \subseteq Given,
         pc'[t] = "m_adjust" => pc[t] = "m_adjust" \/ count.writer = 0
  PROVE  Exclusion'
<1> SUFFICES ASSUME NEW w \in Writing'
             PROVE  Reading' = {} /\ Given = {} /\ \A u \in Tasks : pc'[u] # "m_adjust"
  BY DEF Exclusion
<1>1. w \in Tasks /\ pc'[w] = "w_held"
  BY DEF Writing
<1>2. CASE w \notin Writing
  <2>1. w = t
    BY <1>1, <1>2, OthersSame
  <2>2. count.readers = 0
    BY <1>2, <2>1 DEF Admitted
  <2>3. Reading = {} /\ Given = {} /\ \A u \in Tasks : pc[u] # "m_adjust"
    BY <2>2, NoReadersAtAll
  <2>4. QED
    BY <1>1, <2>1, <2>3, OthersSame DEF Reading, MarkPC
<1>3. CASE w \in Writing
  <2>1. Reading = {} /\ Given = {} /\ \A u \in Tasks : pc[u] # "m_adjust"
    BY <1>3 DEF Exclusion
  <2>2. Writing = {w} /\ count.writer = 1
    BY <1>3, OneWriter
  <2>3. t \notin Reading' /\ pc'[t] # "m_adjust"
    <3>1. CASE w = t
      BY <1>1, <3>1 DEF Reading, MarkPC
    <3>2. CASE w # t
      BY <2>1, <2>2, <3>2 DEF Admitted
    <3>3. QED
      BY <3>1, <3>2
  <2>4. Reading' \subseteq Tasks
    BY DEF Reading
  <2>5. QED
    BY <2>1, <2>3, <2>4, OthersSame
<1>4. QED
  BY <1>2, <1>3

\* A step that neither grants the lock nor takes anybody off a wake_q loses no
\* wakeup, unless the task itself goes to sleep.
LEMMA WokenStep ==
  ASSUME NEW t \in Tasks, Frame(t), GrantedAreWoken, TypeOK, granted' \subseteq granted,
         \A u \in Tasks : wake_q[u] \subseteq wake_q'[u],
         \A u \in Tasks \ {t} : state'[u] = state[u] /\ sig'[u] = sig[u],
         t \in granted' => ~Asleep(t)'
  PROVE  GrantedAreWoken'
<1>1. \A u \in Tasks \ {t} : Asleep(u)' <=> Asleep(u)
  BY OthersSame DEF Asleep
<1>2. granted \subseteq Tasks
  BY DEF TypeOK
<1>3. QED
  BY <1>1, <1>2 DEF GrantedAreWoken

\* The types of the locals and of the task states.
LEMMA Types ==
  /\ Idle \in LocalType
  /\ TASK_RUNNING \in TaskStates
  /\ SleepStates \subseteq TaskStates
  /\ \A s \in TaskStates : wake_up_process(s) = TASK_RUNNING
  /\ \A s \in TaskStates, g \in Signals : signal_wake_up_state(s, g) \in {s, TASK_RUNNING}
<1>1. /\ Idle \in LocalType /\ TASK_RUNNING \in TaskStates /\ SleepStates \subseteq TaskStates
  BY DEF Idle, LocalType, SleepStates, TaskStates
<1>2. \A s \in TaskStates : wake_up_process(s) = TASK_RUNNING
  BY DEF TaskStates, SleepStates, wake_up_process, try_to_wake_up, TASK_RUNNING, TASK_NORMAL,
     TASK_INTERRUPTIBLE, TASK_UNINTERRUPTIBLE, TASK_KILLABLE, TASK_WAKEKILL
<1>3. \A s \in TaskStates, g \in Signals : signal_wake_up_state(s, g) \in {s, TASK_RUNNING}
  BY DEF signal_wake_up_state, try_to_wake_up
<1>4. QED
  BY <1>1, <1>2, <1>3

WakeTypes == {"ANY", "READERS", "READ_OWNED"}
Returns   == {"out", "r_held", "r_wait", "w_try"}

\* The updates of the locals of task t that the steps are made of.
LocalChange(t) ==
  \/ local' = local
  \/ local' = [local EXCEPT ![t] = Idle]
  \/ \E s \in SleepStates :
       \/ local' = [local EXCEPT ![t].mode = s]
       \/ local' = [local EXCEPT ![t].mode = s, ![t].bias = 1]
  \/ local' = [local EXCEPT ![t].bias = 0]
  \/ local' = [local EXCEPT ![t].wstate = "FIRST"]
  \/ local' = [local EXCEPT ![t].wstate = "HANDOFF"]
  \/ \E us \in SUBSET Tasks : local' = [local EXCEPT ![t].wlist = us]
  \/ \E w \in WakeTypes, r \in Returns :
       local' = [local EXCEPT ![t].wake_type = w, ![t].ret = r]
  \/ local' = [local EXCEPT ![t].bias = 0, ![t].wake_type = "ANY", ![t].ret = "r_wait"]
  \/ local' = [local EXCEPT ![t].wake_type = "ANY", ![t].wlist = {}, ![t].ret = "out"]

\* Every one of them keeps the type and leaves the other tasks alone.
LEMMA LocalChanges ==
  ASSUME NEW t \in Tasks, local \in [Tasks -> LocalType], LocalChange(t)
  PROVE  /\ local' \in [Tasks -> LocalType]
         /\ \A u \in Tasks \ {t} : local'[u] = local[u]
<1> DEFINE q == local[t]
<1> SUFFICES \E r \in LocalType : local' = [local EXCEPT ![t] = r]
  OBVIOUS
<1>0. q \in LocalType
  OBVIOUS
<1>1. CASE local' = local
  BY <1>1
<1>2. CASE local' = [local EXCEPT ![t] = Idle]
  BY <1>2, Types
<1>3. ASSUME NEW s \in SleepStates, local' = [local EXCEPT ![t].mode = s]
      PROVE  \E r \in LocalType : local' = [local EXCEPT ![t] = r]
  <2>1. [q EXCEPT !.mode = s] \in LocalType
    BY <1>0 DEF LocalType
  <2>2. local' = [local EXCEPT ![t] = [q EXCEPT !.mode = s]]
    BY <1>3
  <2>3. QED
    BY <2>1, <2>2, Zenon
<1>4. ASSUME NEW s \in SleepStates, local' = [local EXCEPT ![t].mode = s, ![t].bias = 1]
      PROVE  \E r \in LocalType : local' = [local EXCEPT ![t] = r]
  <2>1. [q EXCEPT !.mode = s, !.bias = 1] \in LocalType
    BY <1>0 DEF LocalType
  <2>2. local' = [local EXCEPT ![t] = [q EXCEPT !.mode = s, !.bias = 1]]
    BY <1>4
  <2>3. QED
    BY <2>1, <2>2, Zenon
<1>5. CASE local' = [local EXCEPT ![t].bias = 0]
  <2>1. [q EXCEPT !.bias = 0] \in LocalType
    BY <1>0 DEF LocalType
  <2>2. local' = [local EXCEPT ![t] = [q EXCEPT !.bias = 0]]
    BY <1>5
  <2>3. QED
    BY <2>1, <2>2, Zenon
<1>6. ASSUME NEW s \in {"FIRST", "HANDOFF"}, local' = [local EXCEPT ![t].wstate = s]
      PROVE  \E r \in LocalType : local' = [local EXCEPT ![t] = r]
  <2>1. [q EXCEPT !.wstate = s] \in LocalType
    BY <1>0 DEF LocalType
  <2>2. local' = [local EXCEPT ![t] = [q EXCEPT !.wstate = s]]
    BY <1>6
  <2>3. QED
    BY <2>1, <2>2, Zenon
<1>7. ASSUME NEW us \in SUBSET Tasks, local' = [local EXCEPT ![t].wlist = us]
      PROVE  \E r \in LocalType : local' = [local EXCEPT ![t] = r]
  <2>1. [q EXCEPT !.wlist = us] \in LocalType
    BY <1>0 DEF LocalType
  <2>2. local' = [local EXCEPT ![t] = [q EXCEPT !.wlist = us]]
    BY <1>7
  <2>3. QED
    BY <2>1, <2>2, Zenon
<1>8. ASSUME NEW w \in WakeTypes, NEW r \in Returns,
             local' = [local EXCEPT ![t].wake_type = w, ![t].ret = r]
      PROVE  \E x \in LocalType : local' = [local EXCEPT ![t] = x]
  <2>1. [q EXCEPT !.wake_type = w, !.ret = r] \in LocalType
    BY <1>0 DEF LocalType, WakeTypes, Returns
  <2>2. local' = [local EXCEPT ![t] = [q EXCEPT !.wake_type = w, !.ret = r]]
    BY <1>8
  <2>3. QED
    BY <2>1, <2>2, Zenon
<1>9. CASE local' = [local EXCEPT ![t].bias = 0, ![t].wake_type = "ANY", ![t].ret = "r_wait"]
  <2> DEFINE q1 == [q EXCEPT !.bias = 0]
  <2>1. q1 \in LocalType
    BY <1>0 DEF LocalType
  <2>2. local' = [local EXCEPT ![t] = [q1 EXCEPT !.wake_type = "ANY", !.ret = "r_wait"]]
    BY <1>9
  <2> HIDE DEF q1
  <2>3. [q1 EXCEPT !.wake_type = "ANY", !.ret = "r_wait"] \in LocalType
    BY <2>1 DEF LocalType
  <2>4. QED
    BY <2>2, <2>3, Zenon
<1>10. CASE local' = [local EXCEPT ![t].wake_type = "ANY", ![t].wlist = {}, ![t].ret = "out"]
  <2> DEFINE q1 == [q EXCEPT !.wake_type = "ANY"]
  <2>1. q1 \in LocalType
    BY <1>0 DEF LocalType
  <2>2. local' = [local EXCEPT ![t] = [q1 EXCEPT !.wlist = {}, !.ret = "out"]]
    BY <1>10
  <2> HIDE DEF q1
  <2>3. [q1 EXCEPT !.wlist = {}, !.ret = "out"] \in LocalType
    BY <2>1 DEF LocalType
  <2>4. QED
    BY <2>2, <2>3, Zenon
<1>11. QED
  BY <1>1, <1>2, <1>3, <1>4, <1>5, <1>6, <1>7, <1>8, <1>9, <1>10, Zenon DEF LocalChange

\* The word stays a word.
LEMMA WordUpdates ==
  ASSUME NEW c \in WordType, NEW x \in Int, NEW y \in Int, NEW z \in Int
  PROVE  /\ [c EXCEPT !.writer = x, !.readers = y] \in WordType
         /\ [c EXCEPT !.readers = x, !.waiters = y] \in WordType
         /\ [c EXCEPT !.readers = x, !.handoff = y] \in WordType
         /\ [c EXCEPT !.waiters = x, !.handoff = y] \in WordType
         /\ [c EXCEPT !.writer = x, !.handoff = y, !.waiters = z] \in WordType
         /\ [c EXCEPT !.readers = x, !.waiters = y, !.handoff = z] \in WordType
BY DEF WordType

\* The parts of the type invariant that most steps need.
LEMMA StepTypes ==
  ASSUME TypeOK
  PROVE  pc \in [Tasks -> PCs] /\ local \in [Tasks -> LocalType] /\ count \in WordType
BY DEF TypeOK

\* The locals of a task that returns to its caller are as before the call.
LEMMA FinishFields ==
  ASSUME NEW t \in Tasks, pc \in [Tasks -> PCs], local \in [Tasks -> LocalType],
         NEW l, Finish(t, l)
  PROVE  /\ pc'[t] = l
         /\ local'[t].wlist = {} /\ local'[t].ret = "out" /\ local'[t].bias = 0
         /\ local'[t].wstate = "NOT_FIRST" /\ local'[t].wake_type = "ANY"
BY DEF Finish, Goto, Idle

\* The locals of a task that starts rwsem_mark_wake().
LEMMA MarkWakeFields ==
  ASSUME NEW t \in Tasks, pc \in [Tasks -> PCs], local \in [Tasks -> LocalType],
         NEW w, NEW r, mark_wake(t, w, r)
  PROVE  /\ pc'[t] = "m_first"
         /\ local'[t].wake_type = w /\ local'[t].ret = r
         /\ local'[t].wlist = local[t].wlist
         /\ local'[t].bias = local[t].bias /\ local'[t].wstate = local[t].wstate
BY DEF mark_wake, Goto, LocalType

\* A quiet step keeps the invariant when the word and the locals agree with it.
LEMMA QuietInv ==
  ASSUME IInv, NEW t \in Tasks, TypeOK', Frame(t), Quiet(t), Admitted(t),
         LocalsOf(t)', FirstOf(t)',
         count'.handoff = count.handoff, AwaitsHandoff(t)' => AwaitsHandoff(t),
         count'.readers = count.readers + Own(t)' - Own(t),
         count'.writer = count.writer - One(t \in Writing) + One(t \in Writing'),
         wake_q' = wake_q, sig' = sig,
         \A u \in Tasks \ {t} : state'[u] = state[u],
         pc'[t] # "r_sched" \/ t \notin granted
  PROVE  IInv'
<1> USE DEF IInv
<1>1. Given' = Given
  BY QuietGiven DEF Quiet
<1>2. Queue' /\ LockHeld' /\ WaitersBit'
  BY QuietStep
<1>3. Locals' /\ Firsts' /\ HandoffBit'
  BY LocalsStep, FirstsStep, HandoffStep DEF Quiet, HandoffBit
<1>4. Word'
  BY <1>1, WordStep DEF Admitted
<1>5. Exclusion'
  BY <1>1, ExclusionStep DEF Quiet, LockedPC
<1>6. GrantedAreWoken'
  <2>1. t \in granted => ~Asleep(t)'
    BY <1>2 DEF Queue, Given, QueuedReader, Asleep, Marking, MarkPC, Quiet
  <2>2. QED
    BY <2>1, WokenStep DEF Quiet
<1>7. QED
  BY <1>2, <1>3, <1>4, <1>5, <1>6

\* rwsem_read_trylock() counts the reader first; a writer, waiters or a handoff
\* send it to the slow path with its bias still counted.
LEMMA DownReadInv ==
  ASSUME IInv, NEW t \in Tasks, DownRead(t)
  PROVE  IInv' /\ Frame(t) /\ Admitted(t)
<1> USE DEF IInv
<1>1. pc \in [Tasks -> PCs] /\ local \in [Tasks -> LocalType] /\ count \in WordType
  BY StepTypes
<1>2. TypeOK'
  <2>1. pc' \in [Tasks -> PCs]
    BY <1>1 DEF DownRead, Goto, PCs, ReadPC
  <2>2. LocalChange(t)
    BY RwsemAssumption DEF DownRead, AddReaders, ReadFailed, Goto, LocalChange, WakeTypes,
       Returns
  <2>3. count' \in WordType
    BY <1>1 DEF DownRead, AddReaders, ReadFailed, Goto, WordType
  <2>4. QED
    BY <1>1, <2>1, <2>2, <2>3, Types, LocalChanges DEF DownRead, TypeOK
<1>3. Frame(t)
  BY <1>1 DEF DownRead, AddReaders, ReadFailed, Goto, Frame
<1>4. LocalsOf(t)
  BY DEF Locals
<1>5. Quiet(t)
  <2>1. local'[t].wlist = local[t].wlist
    <3>1. CASE local' = local
      BY <3>1
    <3>2. CASE \E s \in ReadStates : local' = [local EXCEPT ![t].mode = s, ![t].bias = 1]
      BY <1>1, <3>2 DEF LocalType
    <3>3. QED
      BY <3>1, <3>2 DEF DownRead
  <2>2. QueuedReader(t)' <=> QueuedReader(t)
    BY <1>1, <1>4 DEF DownRead, AddReaders, ReadFailed, Goto, LocalsOf, QueuedReader, Marking,
       MarkPC, LocalType
  <2>3. QueuedWriter(t)' <=> QueuedWriter(t)
    BY <1>1, <1>4 DEF DownRead, AddReaders, ReadFailed, Goto, LocalsOf, QueuedWriter, Marking,
       MarkPC, LocalType
  <2>4. pc[t] \notin LockedPC /\ pc'[t] \notin LockedPC
    BY <1>1 DEF DownRead, AddReaders, Goto, LockedPC
  <2>5. count'.waiters = count.waiters
    BY <1>1 DEF DownRead, AddReaders, Goto, WordType
  <2>6. QED
    BY <2>1, <2>2, <2>3, <2>4, <2>5 DEF DownRead, Quiet
<1>6. LocalsOf(t)' /\ FirstOf(t)'
  <2>1. /\ pc'[t] \in {"r_slow", "r_held"}
        /\ pc'[t] = "r_slow" => local'[t].bias = 1
    <3>1. CASE ReadFailed(count)
      <4>1. PICK s \in ReadStates : local' = [local EXCEPT ![t].mode = s, ![t].bias = 1]
        BY <3>1 DEF DownRead
      <4>2. local'[t].bias = 1
        BY <1>1, <4>1 DEF LocalType
      <4>3. pc'[t] = "r_slow"
        BY <1>1, <3>1 DEF DownRead, Goto
      <4>4. QED
        BY <4>2, <4>3
    <3>2. CASE ~ReadFailed(count)
      BY <1>1, <3>2 DEF DownRead, Goto
    <3>3. QED
      BY <3>1, <3>2
  <2>2. local'[t].ret = local[t].ret /\ local'[t].wstate = local[t].wstate
    <3>1. CASE local' = local
      BY <3>1
    <3>2. CASE \E s \in ReadStates : local' = [local EXCEPT ![t].mode = s, ![t].bias = 1]
      BY <1>1, <3>2 DEF LocalType
    <3>3. QED
      BY <3>1, <3>2 DEF DownRead
  <2>3. FirstOf(t) /\ pc[t] = "out" /\ local'[t].wlist = local[t].wlist
    BY <1>5 DEF Firsts, Quiet, DownRead
  <2>4. QED
    BY <1>4, <2>1, <2>2, <2>3 DEF LocalsOf, FirstOf, QueuedWriter, Marking, MarkPC
<1>8. /\ count'.handoff = count.handoff
      /\ AwaitsHandoff(t)' => AwaitsHandoff(t)
  BY <1>1 DEF DownRead, AddReaders, Goto, AwaitsHandoff, Firsts
<1>9. count'.readers = count.readers + Own(t)' - Own(t)
  BY <1>1, <1>4 DEF DownRead, AddReaders, Goto, Own, One, Reading, BackingOut, Queueing,
     Granting, LocalsOf, Marking, MarkPC
<1>10. count'.writer = count.writer - One(t \in Writing) + One(t \in Writing')
  BY <1>1 DEF DownRead, AddReaders, ReadFailed, Goto, One, Writing, WordType
<1>11. Admitted(t)
  BY <1>1, <1>4 DEF DownRead, AddReaders, ReadFailed, Goto, Admitted, Reading, Writing,
     LocalsOf, Marking, MarkPC, LocalType, WordType
<1>12. /\ wake_q' = wake_q /\ sig' = sig /\ pc'[t] # "r_sched"
       /\ \A u \in Tasks \ {t} : state'[u] = state[u]
  BY <1>1 DEF DownRead, Goto
<1>13. QED
  BY <1>2, <1>3, <1>5, <1>6, <1>8, <1>9, <1>10, <1>11, <1>12, QuietInv

\* down_read_trylock() takes the lock past no writer, waiter or handoff.
LEMMA DownReadTrylockInv ==
  ASSUME IInv, NEW t \in Tasks, DownReadTrylock(t)
  PROVE  IInv' /\ Frame(t) /\ Admitted(t)
<1> USE DEF IInv
<1>1. pc \in [Tasks -> PCs] /\ local \in [Tasks -> LocalType] /\ count \in WordType
  BY StepTypes
<1>2. TypeOK'
  <2>1. pc' \in [Tasks -> PCs]
    BY <1>1 DEF DownReadTrylock, Goto, PCs
  <2>2. LocalChange(t)
    BY RwsemAssumption DEF DownReadTrylock, ReadFailed, Goto, LocalChange
  <2>3. count' \in WordType
    BY <1>1 DEF DownReadTrylock, AddReaders, Goto, WordType
  <2>4. QED
    BY <1>1, <2>1, <2>2, <2>3, Types, LocalChanges DEF DownReadTrylock, TypeOK
<1>3. Frame(t)
  BY <1>1 DEF DownReadTrylock, AddReaders, ReadFailed, Goto, Frame
<1>4. LocalsOf(t)
  BY DEF Locals
<1>5. Quiet(t)
  <2>1. local'[t].wlist = local[t].wlist
    BY <1>1 DEF DownReadTrylock
  <2>2. QueuedReader(t)' <=> QueuedReader(t)
    BY <1>1, <1>4 DEF DownReadTrylock, Goto, QueuedReader, Marking, MarkPC
  <2>3. QueuedWriter(t)' <=> QueuedWriter(t)
    BY <1>1, <1>4 DEF DownReadTrylock, Goto, QueuedWriter, Marking, MarkPC
  <2>4. pc[t] \notin LockedPC /\ pc'[t] \notin LockedPC
    BY <1>1 DEF DownReadTrylock, AddReaders, Goto, LockedPC
  <2>5. count'.waiters = count.waiters
    BY <1>1 DEF DownReadTrylock, AddReaders, Goto, WordType
  <2>6. QED
    BY <2>1, <2>2, <2>3, <2>4, <2>5 DEF DownReadTrylock, Quiet
<1>6. LocalsOf(t)'
  BY <1>1, <1>4 DEF DownReadTrylock, AddReaders, ReadFailed, Goto, LocalsOf, Marking, MarkPC,
     LocalType
<1>7. FirstOf(t)'
  BY <1>1 DEF DownReadTrylock, AddReaders, ReadFailed, Goto, Firsts, FirstOf, QueuedWriter,
     Marking, MarkPC, LocalType
<1>8. /\ count'.handoff = count.handoff
      /\ AwaitsHandoff(t)' => AwaitsHandoff(t)
  BY <1>1 DEF DownReadTrylock, AddReaders, Goto, AwaitsHandoff, Firsts
<1>9. count'.readers = count.readers + Own(t)' - Own(t)
  BY <1>1, <1>4 DEF DownReadTrylock, AddReaders, Goto, Own, One, Reading, BackingOut, Queueing,
     Granting, LocalsOf, Marking, MarkPC
<1>10. count'.writer = count.writer - One(t \in Writing) + One(t \in Writing')
  BY <1>1 DEF DownReadTrylock, AddReaders, ReadFailed, Goto, One, Writing, WordType
<1>11. Admitted(t)
  BY <1>1, <1>4 DEF DownReadTrylock, AddReaders, ReadFailed, Goto, Admitted, Reading, Writing,
     LocalsOf, Marking, MarkPC, LocalType, WordType
<1>12. /\ wake_q' = wake_q /\ sig' = sig /\ pc'[t] # "r_sched"
       /\ \A u \in Tasks \ {t} : state'[u] = state[u]
  BY <1>1 DEF DownReadTrylock, Goto
<1>13. QED
  BY <1>2, <1>3, <1>5, <1>6, <1>7, <1>8, <1>9, <1>10, <1>11, <1>12, QuietInv

\* The reader queues with its bias counted, or takes the bias back to spin.
LEMMA ReadSlowInv ==
  ASSUME IInv, NEW t \in Tasks, ReadSlow(t)
  PROVE  IInv' /\ Frame(t) /\ Admitted(t)
<1> USE DEF IInv
<1>1. pc \in [Tasks -> PCs] /\ local \in [Tasks -> LocalType] /\ count \in WordType
  BY StepTypes
<1>2. TypeOK'
  <2>1. pc' \in [Tasks -> PCs]
    BY <1>1 DEF ReadSlow, Goto, PCs, ReadPC
  <2>2. LocalChange(t)
    BY RwsemAssumption DEF ReadSlow, AddReaders, Goto, LocalChange
  <2>3. count' \in WordType
    BY <1>1 DEF ReadSlow, AddReaders, Goto, WordType
  <2>4. QED
    BY <1>1, <2>1, <2>2, <2>3, Types, LocalChanges DEF ReadSlow, TypeOK
<1>3. Frame(t)
  BY <1>1 DEF ReadSlow, AddReaders, Goto, Frame
<1>4. LocalsOf(t)
  BY DEF Locals
<1>5. Quiet(t)
  <2>1. local'[t].wlist = local[t].wlist
    BY <1>1 DEF ReadSlow, AddReaders, Goto, LocalType
  <2>2. QueuedReader(t)' <=> QueuedReader(t)
    BY <1>1, <1>4 DEF ReadSlow, AddReaders, Goto, LocalsOf, QueuedReader, Marking, MarkPC,
       LocalType
  <2>3. QueuedWriter(t)' <=> QueuedWriter(t)
    BY <1>1, <1>4 DEF ReadSlow, AddReaders, Goto, LocalsOf, QueuedWriter, Marking, MarkPC,
       LocalType
  <2>4. pc[t] \notin LockedPC /\ pc'[t] \notin LockedPC
    BY <1>1 DEF ReadSlow, AddReaders, Goto, LockedPC
  <2>5. count'.waiters = count.waiters
    BY <1>1 DEF ReadSlow, AddReaders, Goto, WordType
  <2>6. QED
    BY <2>1, <2>2, <2>3, <2>4, <2>5 DEF ReadSlow, Quiet
<1>6. LocalsOf(t)'
  BY <1>1, <1>4 DEF ReadSlow, AddReaders, Goto, LocalsOf, Marking, MarkPC, LocalType
<1>7. FirstOf(t)'
  BY <1>1 DEF ReadSlow, AddReaders, Goto, Firsts, FirstOf, QueuedWriter, Marking, MarkPC,
     LocalType
<1>8. /\ count'.handoff = count.handoff
      /\ AwaitsHandoff(t)' => AwaitsHandoff(t)
  BY <1>1 DEF ReadSlow, AddReaders, Goto, AwaitsHandoff, WordType
<1>9. count'.readers = count.readers + Own(t)' - Own(t)
  BY <1>1, <1>4 DEF ReadSlow, AddReaders, Goto, Own, One, Reading, BackingOut, Queueing,
     Granting, LocalsOf, Marking, MarkPC, LocalType, WordType
<1>10. count'.writer = count.writer - One(t \in Writing) + One(t \in Writing')
  BY <1>1 DEF ReadSlow, AddReaders, Goto, One, Writing, WordType
<1>11. Admitted(t)
  BY <1>1, <1>4 DEF ReadSlow, AddReaders, Goto, Admitted, Reading, Writing, LocalsOf, Marking,
     MarkPC, LocalType, WordType
<1>12. /\ wake_q' = wake_q /\ sig' = sig /\ pc'[t] # "r_sched"
       /\ \A u \in Tasks \ {t} : state'[u] = state[u]
  BY <1>1 DEF ReadSlow, AddReaders, Goto, TypeOK
<1>13. QED
  BY <1>2, <1>3, <1>5, <1>6, <1>7, <1>8, <1>9, <1>10, <1>11, <1>12, QuietInv

\* Taking a place among the spinners changes nothing of the semaphore.
LEMMA ReadOsqInv ==
  ASSUME IInv, NEW t \in Tasks, ReadOsq(t)
  PROVE  IInv' /\ Frame(t) /\ Admitted(t)
<1> USE DEF IInv
<1>1. pc \in [Tasks -> PCs] /\ local \in [Tasks -> LocalType] /\ count \in WordType
  BY StepTypes
<1>2. TypeOK'
  <2>1. pc' \in [Tasks -> PCs]
    BY <1>1 DEF ReadOsq, Goto, PCs, ReadPC
  <2>2. LocalChange(t)
    BY RwsemAssumption DEF ReadOsq, Goto, LocalChange
  <2>3. count' \in WordType
    BY <1>1 DEF ReadOsq, Goto, WordType
  <2>4. QED
    BY <1>1, <2>1, <2>2, <2>3, Types, LocalChanges DEF ReadOsq, TypeOK
<1>3. Frame(t)
  BY <1>1 DEF ReadOsq, Goto, Frame
<1>4. LocalsOf(t)
  BY DEF Locals
<1>5. Quiet(t)
  <2>1. local'[t].wlist = local[t].wlist
    BY <1>1 DEF ReadOsq, Goto, LocalType
  <2>2. QueuedReader(t)' <=> QueuedReader(t)
    BY <1>1, <1>4 DEF ReadOsq, Goto, LocalsOf, QueuedReader, Marking, MarkPC, LocalType
  <2>3. QueuedWriter(t)' <=> QueuedWriter(t)
    BY <1>1, <1>4 DEF ReadOsq, Goto, LocalsOf, QueuedWriter, Marking, MarkPC, LocalType
  <2>4. pc[t] \notin LockedPC /\ pc'[t] \notin LockedPC
    BY <1>1 DEF ReadOsq, Goto, LockedPC
  <2>5. count'.waiters = count.waiters
    BY <1>1 DEF ReadOsq, Goto, WordType
  <2>6. QED
    BY <2>1, <2>2, <2>3, <2>4, <2>5 DEF ReadOsq, Quiet
<1>6. LocalsOf(t)'
  BY <1>1, <1>4 DEF ReadOsq, Goto, LocalsOf, Marking, MarkPC, LocalType
<1>7. FirstOf(t)'
  BY <1>1 DEF ReadOsq, Goto, Firsts, FirstOf, QueuedWriter, Marking, MarkPC, LocalType
<1>8. /\ count'.handoff = count.handoff
      /\ AwaitsHandoff(t)' => AwaitsHandoff(t)
  BY <1>1 DEF ReadOsq, Goto, AwaitsHandoff
<1>9. count'.readers = count.readers + Own(t)' - Own(t)
  BY <1>1, <1>4 DEF ReadOsq, Goto, Own, One, Reading, BackingOut, Queueing, Granting, MarkPC,
     LocalType, WordType
<1>10. count'.writer = count.writer - One(t \in Writing) + One(t \in Writing')
  BY <1>1 DEF ReadOsq, Goto, One, Writing, WordType
<1>11. Admitted(t)
  BY <1>1, <1>4 DEF ReadOsq, Goto, Admitted, Reading, Writing, LocalsOf, Marking, MarkPC,
     LocalType, WordType
<1>12. /\ wake_q' = wake_q /\ sig' = sig /\ pc'[t] # "r_sched"
       /\ \A u \in Tasks \ {t} : state'[u] = state[u]
  BY <1>1 DEF ReadOsq, Goto, TypeOK
<1>13. QED
  BY <1>2, <1>3, <1>5, <1>6, <1>7, <1>8, <1>9, <1>10, <1>11, <1>12, QuietInv

\* The look before rwsem_try_read_lock_unqueued() tries changes nothing.
LEMMA ReadLookInv ==
  ASSUME IInv, NEW t \in Tasks, ReadLook(t)
  PROVE  IInv' /\ Frame(t) /\ Admitted(t)
<1> USE DEF IInv
<1>1. pc \in [Tasks -> PCs] /\ local \in [Tasks -> LocalType] /\ count \in WordType
  BY StepTypes
<1>2. TypeOK'
  <2>1. pc' \in [Tasks -> PCs]
    BY <1>1 DEF ReadLook, Goto, PCs, ReadPC
  <2>2. LocalChange(t)
    BY RwsemAssumption DEF ReadLook, Goto, LocalChange
  <2>3. count' \in WordType
    BY <1>1 DEF ReadLook, Goto, WordType
  <2>4. QED
    BY <1>1, <2>1, <2>2, <2>3, Types, LocalChanges DEF ReadLook, TypeOK
<1>3. Frame(t)
  BY <1>1 DEF ReadLook, Goto, Frame
<1>4. LocalsOf(t)
  BY DEF Locals
<1>5. Quiet(t)
  <2>1. local'[t].wlist = local[t].wlist
    BY <1>1 DEF ReadLook, Goto, LocalType
  <2>2. QueuedReader(t)' <=> QueuedReader(t)
    BY <1>1, <1>4 DEF ReadLook, Goto, LocalsOf, QueuedReader, Marking, MarkPC, LocalType
  <2>3. QueuedWriter(t)' <=> QueuedWriter(t)
    BY <1>1, <1>4 DEF ReadLook, Goto, LocalsOf, QueuedWriter, Marking, MarkPC, LocalType
  <2>4. pc[t] \notin LockedPC /\ pc'[t] \notin LockedPC
    BY <1>1 DEF ReadLook, Goto, LockedPC
  <2>5. count'.waiters = count.waiters
    BY <1>1 DEF ReadLook, Goto, WordType
  <2>6. QED
    BY <2>1, <2>2, <2>3, <2>4, <2>5 DEF ReadLook, Quiet
<1>6. LocalsOf(t)'
  BY <1>1, <1>4 DEF ReadLook, Goto, LocalsOf, Marking, MarkPC, LocalType
<1>7. FirstOf(t)'
  BY <1>1 DEF ReadLook, Goto, Firsts, FirstOf, QueuedWriter, Marking, MarkPC, LocalType
<1>8. /\ count'.handoff = count.handoff
      /\ AwaitsHandoff(t)' => AwaitsHandoff(t)
  BY <1>1 DEF ReadLook, Goto, AwaitsHandoff
<1>9. count'.readers = count.readers + Own(t)' - Own(t)
  BY <1>1, <1>4 DEF ReadLook, Goto, Own, One, Reading, BackingOut, Queueing, Granting, LocalsOf,
     MarkPC, LocalType, WordType
<1>10. count'.writer = count.writer - One(t \in Writing) + One(t \in Writing')
  BY <1>1 DEF ReadLook, Goto, One, Writing, WordType
<1>11. Admitted(t)
  BY <1>1, <1>4 DEF ReadLook, Goto, Admitted, Reading, Writing, LocalsOf, Marking, MarkPC,
     LocalType, WordType
<1>12. /\ wake_q' = wake_q /\ sig' = sig /\ pc'[t] # "r_sched"
       /\ \A u \in Tasks \ {t} : state'[u] = state[u]
  BY <1>1 DEF ReadLook, Goto, TypeOK
<1>13. QED
  BY <1>2, <1>3, <1>5, <1>6, <1>7, <1>8, <1>9, <1>10, <1>11, <1>12, QuietInv

\* A spinner counts itself, and owns the lock unless a writer or a handoff came
\* first.
LEMMA ReadTryInv ==
  ASSUME IInv, NEW t \in Tasks, ReadTry(t)
  PROVE  IInv' /\ Frame(t) /\ Admitted(t)
<1> USE DEF IInv
<1>1. pc \in [Tasks -> PCs] /\ local \in [Tasks -> LocalType] /\ count \in WordType
  BY StepTypes
<1>2. TypeOK'
  <2>1. pc' \in [Tasks -> PCs]
    BY <1>1 DEF ReadTry, Finish, Goto, PCs, ReadPC
  <2>2. LocalChange(t)
    BY RwsemAssumption DEF ReadTry, AddReaders, HandoffMask, Finish, Goto, LocalChange
  <2>3. count' \in WordType
    BY <1>1 DEF ReadTry, AddReaders, HandoffMask, Goto, WordType
  <2>4. QED
    BY <1>1, <2>1, <2>2, <2>3, Types, LocalChanges DEF ReadTry, TypeOK
<1>3. Frame(t)
  BY <1>1 DEF ReadTry, AddReaders, HandoffMask, Finish, Goto, Frame
<1>4. LocalsOf(t)
  BY DEF Locals
<1>5. Quiet(t)
  <2>1. local'[t].wlist = local[t].wlist
    BY <1>1, <1>4 DEF ReadTry, Finish, Idle, LocalsOf
  <2>2. QueuedReader(t)' <=> QueuedReader(t)
    BY <1>1, <1>4 DEF ReadTry, Finish, Goto, QueuedReader, Marking, MarkPC
  <2>3. QueuedWriter(t)' <=> QueuedWriter(t)
    BY <1>1, <1>4 DEF ReadTry, Finish, Goto, QueuedWriter, Marking, MarkPC
  <2>4. pc[t] \notin LockedPC /\ pc'[t] \notin LockedPC
    BY <1>1 DEF ReadTry, AddReaders, Finish, Goto, LockedPC
  <2>5. count'.waiters = count.waiters
    BY <1>1 DEF ReadTry, AddReaders, Finish, Goto, WordType
  <2>6. QED
    BY <2>1, <2>2, <2>3, <2>4, <2>5 DEF ReadTry, Quiet
<1>6. LocalsOf(t)'
  BY <1>1, <1>4 DEF ReadTry, AddReaders, HandoffMask, Finish, Goto, Idle, LocalsOf, Marking,
     MarkPC, LocalType
<1>7. FirstOf(t)'
  BY <1>1 DEF ReadTry, AddReaders, HandoffMask, Finish, Goto, Idle, Firsts, FirstOf,
     QueuedWriter, Marking, MarkPC, LocalType
<1>8. /\ count'.handoff = count.handoff
      /\ AwaitsHandoff(t)' => AwaitsHandoff(t)
  BY <1>1 DEF ReadTry, AddReaders, Finish, Goto, AwaitsHandoff, Firsts
<1>9. count'.readers = count.readers + Own(t)' - Own(t)
  BY <1>1, <1>4 DEF ReadTry, AddReaders, Finish, Goto, Own, One, Reading, BackingOut, Queueing,
     Granting, granted_early, Marking, MarkPC
<1>10. count'.writer = count.writer - One(t \in Writing) + One(t \in Writing')
  BY <1>1 DEF ReadTry, AddReaders, Finish, Goto, Idle, One, Writing, WordType
<1>11. Admitted(t)
  BY <1>1, <1>4 DEF ReadTry, HandoffMask, Finish, Goto, Admitted, Reading, Writing, Marking,
     MarkPC, WordType
<1>12. /\ wake_q' = wake_q /\ sig' = sig /\ pc'[t] # "r_sched"
       /\ \A u \in Tasks \ {t} : state'[u] = state[u]
  BY <1>1 DEF ReadTry, Finish, Goto
<1>13. QED
  BY <1>2, <1>3, <1>5, <1>6, <1>7, <1>8, <1>9, <1>10, <1>11, <1>12, QuietInv

\* A spinner that came too late takes its bias back.
LEMMA ReadBackOutInv ==
  ASSUME IInv, NEW t \in Tasks, ReadBackOut(t)
  PROVE  IInv' /\ Frame(t) /\ Admitted(t)
<1> USE DEF IInv
<1>1. pc \in [Tasks -> PCs] /\ local \in [Tasks -> LocalType] /\ count \in WordType
  BY StepTypes
<1>2. TypeOK'
  <2>1. pc' \in [Tasks -> PCs]
    BY <1>1 DEF ReadBackOut, Goto, PCs, ReadPC
  <2>2. LocalChange(t)
    BY RwsemAssumption DEF ReadBackOut, AddReaders, Goto, LocalChange
  <2>3. count' \in WordType
    BY <1>1 DEF ReadBackOut, AddReaders, Goto, WordType
  <2>4. QED
    BY <1>1, <2>1, <2>2, <2>3, Types, LocalChanges DEF ReadBackOut, TypeOK
<1>3. Frame(t)
  BY <1>1 DEF ReadBackOut, AddReaders, Goto, Frame
<1>4. LocalsOf(t)
  BY DEF Locals
<1>5. Quiet(t)
  <2>1. local'[t].wlist = local[t].wlist
    BY <1>1 DEF ReadBackOut, AddReaders, Goto, LocalType
  <2>2. QueuedReader(t)' <=> QueuedReader(t)
    BY <1>1, <1>4 DEF ReadBackOut, AddReaders, Goto, LocalsOf, QueuedReader, Marking, MarkPC,
       LocalType
  <2>3. QueuedWriter(t)' <=> QueuedWriter(t)
    BY <1>1, <1>4 DEF ReadBackOut, AddReaders, Goto, LocalsOf, QueuedWriter, Marking, MarkPC,
       LocalType
  <2>4. pc[t] \notin LockedPC /\ pc'[t] \notin LockedPC
    BY <1>1 DEF ReadBackOut, AddReaders, Goto, LockedPC
  <2>5. count'.waiters = count.waiters
    BY <1>1 DEF ReadBackOut, AddReaders, Goto, WordType
  <2>6. QED
    BY <2>1, <2>2, <2>3, <2>4, <2>5 DEF ReadBackOut, Quiet
<1>6. LocalsOf(t)'
  BY <1>1, <1>4 DEF ReadBackOut, AddReaders, Goto, LocalsOf, Marking, MarkPC, LocalType
<1>7. FirstOf(t)'
  BY <1>1 DEF ReadBackOut, AddReaders, Goto, Firsts, FirstOf, QueuedWriter, Marking, MarkPC,
     LocalType
<1>8. /\ count'.handoff = count.handoff
      /\ AwaitsHandoff(t)' => AwaitsHandoff(t)
  BY <1>1 DEF ReadBackOut, AddReaders, Goto, AwaitsHandoff, Firsts
<1>9. count'.readers = count.readers + Own(t)' - Own(t)
  BY <1>1, <1>4 DEF ReadBackOut, AddReaders, Goto, Own, One, Reading, BackingOut, Queueing,
     Granting, granted_early, LocalsOf, Marking, MarkPC
<1>10. count'.writer = count.writer - One(t \in Writing) + One(t \in Writing')
  BY <1>1 DEF ReadBackOut, AddReaders, Goto, One, Writing, WordType
<1>11. Admitted(t)
  BY <1>1, <1>4 DEF ReadBackOut, AddReaders, Goto, Admitted, Reading, Writing, LocalsOf,
     Marking, MarkPC, LocalType, WordType
<1>12. /\ wake_q' = wake_q /\ sig' = sig /\ pc'[t] # "r_sched"
       /\ \A u \in Tasks \ {t} : state'[u] = state[u]
  BY <1>1 DEF ReadBackOut, AddReaders, Goto, TypeOK
<1>13. QED
  BY <1>2, <1>3, <1>5, <1>6, <1>7, <1>8, <1>9, <1>10, <1>11, <1>12, QuietInv

\* A spinner that got the lock keeps it while it wakes the queued readers.
LEMMA ReadSpunInv ==
  ASSUME IInv, NEW t \in Tasks, ReadSpun(t)
  PROVE  IInv' /\ Frame(t) /\ Admitted(t)
<1> USE DEF IInv
<1>1. pc \in [Tasks -> PCs] /\ local \in [Tasks -> LocalType] /\ count \in WordType
  BY StepTypes
<1>2. TypeOK'
  <2>1. pc' \in [Tasks -> PCs]
    BY <1>1 DEF ReadSpun, mark_wake, Finish, Goto, PCs, MarkPC
  <2>2. LocalChange(t)
    BY RwsemAssumption DEF ReadSpun, mark_wake, Finish, Goto, LocalChange, WakeTypes, Returns
  <2>3. count' \in WordType
    BY <1>1 DEF ReadSpun, mark_wake, Finish, Goto, WordType
  <2>4. QED
    BY <1>1, <2>1, <2>2, <2>3, Types, LocalChanges DEF ReadSpun, TypeOK
<1>3. Frame(t)
  BY <1>1 DEF ReadSpun, mark_wake, Finish, Goto, Frame
<1>4. LocalsOf(t)
  BY DEF Locals
<1>5. Quiet(t)
  <2>1. local'[t].wlist = local[t].wlist
    BY <1>1, <1>4, FinishFields, MarkWakeFields DEF ReadSpun, LocalsOf
  <2>2. QueuedReader(t)' <=> QueuedReader(t)
    BY <1>1, <1>4 DEF ReadSpun, mark_wake, Finish, Goto, Idle, LocalsOf, QueuedReader, Marking,
       MarkPC, LocalType
  <2>3. QueuedWriter(t)' <=> QueuedWriter(t)
    BY <1>1, <1>4 DEF ReadSpun, mark_wake, Finish, Goto, Idle, LocalsOf, QueuedWriter, Marking,
       MarkPC, LocalType
  <2>4. pc[t] \notin LockedPC /\ pc'[t] \notin LockedPC
    BY <1>1 DEF ReadSpun, mark_wake, Finish, Goto, LockedPC
  <2>5. count'.waiters = count.waiters
    BY <1>1 DEF ReadSpun, mark_wake, Finish, Goto, WordType
  <2>6. QED
    BY <2>1, <2>2, <2>3, <2>4, <2>5 DEF ReadSpun, Quiet
<1>6. LocalsOf(t)'
  BY <1>1, <1>4 DEF ReadSpun, mark_wake, Finish, Goto, Idle, LocalsOf, Marking, MarkPC,
     LocalType
<1>7. FirstOf(t)'
  BY <1>1 DEF ReadSpun, mark_wake, Finish, Goto, Idle, Firsts, FirstOf, QueuedWriter, Marking,
     MarkPC, LocalType
<1>8. /\ count'.handoff = count.handoff
      /\ AwaitsHandoff(t)' => AwaitsHandoff(t)
  BY <1>1 DEF ReadSpun, mark_wake, Finish, Goto, AwaitsHandoff, Firsts
<1>9. count'.readers = count.readers + Own(t)' - Own(t)
  BY <1>1, <1>4 DEF ReadSpun, mark_wake, Finish, Goto, Own, One, Reading, BackingOut, Queueing,
     Granting, granted_early, LocalsOf, Marking, MarkPC, LocalType, WordType
<1>10. count'.writer = count.writer - One(t \in Writing) + One(t \in Writing')
  BY <1>1 DEF ReadSpun, mark_wake, Finish, Goto, Idle, One, Writing, WordType
<1>11. Admitted(t)
  BY <1>1, <1>4 DEF ReadSpun, mark_wake, Finish, Goto, Idle, Admitted, Reading, Writing,
     LocalsOf, Marking, MarkPC, LocalType, WordType
<1>12. /\ wake_q' = wake_q /\ sig' = sig /\ pc'[t] # "r_sched"
       /\ \A u \in Tasks \ {t} : state'[u] = state[u]
  BY <1>1 DEF ReadSpun, mark_wake, Finish, Goto
<1>13. QED
  BY <1>2, <1>3, <1>5, <1>6, <1>7, <1>8, <1>9, <1>10, <1>11, <1>12, QuietInv

\* A reader that wakes up is still queued, or granted.
LEMMA ReadScheduleInv ==
  ASSUME IInv, NEW t \in Tasks, ReadSchedule(t)
  PROVE  IInv' /\ Frame(t) /\ Admitted(t)
<1> USE DEF IInv
<1>1. pc \in [Tasks -> PCs] /\ local \in [Tasks -> LocalType] /\ count \in WordType
  BY StepTypes
<1>2. TypeOK'
  <2>1. pc' \in [Tasks -> PCs]
    BY <1>1 DEF ReadSchedule, Goto, PCs, ReadPC
  <2>2. LocalChange(t)
    BY RwsemAssumption DEF ReadSchedule, Goto, LocalChange
  <2>3. count' \in WordType
    BY <1>1 DEF ReadSchedule, Goto, WordType
  <2>4. QED
    BY <1>1, <2>1, <2>2, <2>3, Types, LocalChanges DEF ReadSchedule, TypeOK
<1>3. Frame(t)
  BY <1>1 DEF ReadSchedule, Goto, Frame
<1>4. LocalsOf(t)
  BY DEF Locals
<1>5. Quiet(t)
  <2>1. local'[t].wlist = local[t].wlist
    BY <1>1 DEF ReadSchedule, Goto, LocalType
  <2>2. QueuedReader(t)' <=> QueuedReader(t)
    BY <1>1, <1>4 DEF ReadSchedule, Goto, LocalsOf, QueuedReader, Marking, MarkPC, LocalType
  <2>3. QueuedWriter(t)' <=> QueuedWriter(t)
    BY <1>1, <1>4 DEF ReadSchedule, Goto, LocalsOf, QueuedWriter, Marking, MarkPC, LocalType
  <2>4. pc[t] \notin LockedPC /\ pc'[t] \notin LockedPC
    BY <1>1 DEF ReadSchedule, Goto, LockedPC
  <2>5. count'.waiters = count.waiters
    BY <1>1 DEF ReadSchedule, Goto, WordType
  <2>6. QED
    BY <2>1, <2>2, <2>3, <2>4, <2>5 DEF ReadSchedule, Quiet
<1>6. LocalsOf(t)'
  BY <1>1, <1>4 DEF ReadSchedule, Goto, LocalsOf, Marking, MarkPC, LocalType
<1>7. FirstOf(t)'
  BY <1>1 DEF ReadSchedule, Goto, Firsts, FirstOf, QueuedWriter, Marking, MarkPC, LocalType
<1>8. /\ count'.handoff = count.handoff
      /\ AwaitsHandoff(t)' => AwaitsHandoff(t)
  BY <1>1 DEF ReadSchedule, Goto, AwaitsHandoff
<1>9. count'.readers = count.readers + Own(t)' - Own(t)
  BY <1>1, <1>4 DEF ReadSchedule, Goto, Own, One, Reading, BackingOut, Queueing, Granting,
     MarkPC, LocalType, WordType
<1>10. count'.writer = count.writer - One(t \in Writing) + One(t \in Writing')
  BY <1>1 DEF ReadSchedule, Goto, One, Writing, WordType
<1>11. Admitted(t)
  BY <1>1, <1>4 DEF ReadSchedule, Goto, Admitted, Reading, Writing, LocalsOf, Marking, MarkPC,
     LocalType, WordType
<1>12. /\ wake_q' = wake_q /\ sig' = sig /\ pc'[t] # "r_sched"
       /\ \A u \in Tasks \ {t} : state'[u] = state[u]
  BY <1>1 DEF ReadSchedule, Goto, TypeOK
<1>13. QED
  BY <1>2, <1>3, <1>5, <1>6, <1>7, <1>8, <1>9, <1>10, <1>11, <1>12, QuietInv

\* The fast path of down_write() takes an unused semaphore only.
LEMMA DownWriteInv ==
  ASSUME IInv, NEW t \in Tasks, DownWrite(t)
  PROVE  IInv' /\ Frame(t) /\ Admitted(t)
<1> USE DEF IInv
<1>1. pc \in [Tasks -> PCs] /\ local \in [Tasks -> LocalType] /\ count \in WordType
  BY StepTypes
<1>2. TypeOK'
  <2>1. pc' \in [Tasks -> PCs]
    BY <1>1 DEF DownWrite, Goto, PCs, WritePC
  <2>2. LocalChange(t)
    BY RwsemAssumption DEF DownWrite, Unlocked, LocalChange, Returns
  <2>3. count' \in WordType
    BY <1>1 DEF DownWrite, Unlocked, Goto, WordType
  <2>4. QED
    BY <1>1, <2>1, <2>2, <2>3, Types, LocalChanges DEF DownWrite, TypeOK
<1>3. Frame(t)
  BY <1>1 DEF DownWrite, Unlocked, Goto, Frame
<1>4. LocalsOf(t)
  BY DEF Locals
<1>5. Quiet(t)
  <2>1. local'[t].wlist = local[t].wlist
    BY <1>1 DEF DownWrite, Unlocked, Goto, LocalType
  <2>2. QueuedReader(t)' <=> QueuedReader(t)
    BY <1>1, <1>4 DEF DownWrite, Unlocked, Goto, LocalsOf, QueuedReader, Marking, MarkPC,
       LocalType
  <2>3. QueuedWriter(t)' <=> QueuedWriter(t)
    BY <1>1, <1>4 DEF DownWrite, Unlocked, Goto, LocalsOf, QueuedWriter, Marking, MarkPC,
       LocalType
  <2>4. pc[t] \notin LockedPC /\ pc'[t] \notin LockedPC
    BY <1>1 DEF DownWrite, Unlocked, Goto, LockedPC
  <2>5. count'.waiters = count.waiters
    BY <1>1 DEF DownWrite, Unlocked, Goto, WordType
  <2>6. QED
    BY <2>1, <2>2, <2>3, <2>4, <2>5 DEF DownWrite, Quiet
<1>6. LocalsOf(t)'
  BY <1>1, <1>4 DEF DownWrite, Unlocked, Goto, LocalsOf, Marking, MarkPC, LocalType
<1>7. FirstOf(t)'
  BY <1>1 DEF DownWrite, Unlocked, Goto, Firsts, FirstOf, QueuedWriter, Marking, MarkPC,
     LocalType
<1>8. /\ count'.handoff = count.handoff
      /\ AwaitsHandoff(t)' => AwaitsHandoff(t)
  BY <1>1 DEF DownWrite, Unlocked, Goto, AwaitsHandoff, Firsts
<1>9. count'.readers = count.readers + Own(t)' - Own(t)
  BY <1>1, <1>4 DEF DownWrite, Goto, Own, One, Reading, BackingOut, Queueing, Granting,
     LocalsOf, Marking, MarkPC, LocalType, WordType
<1>10. count'.writer = count.writer - One(t \in Writing) + One(t \in Writing')
  BY <1>1 DEF DownWrite, Unlocked, Goto, One, Writing, WordType
<1>11. Admitted(t)
  BY <1>1, <1>4 DEF DownWrite, Unlocked, Goto, Admitted, Reading, Writing, LocalsOf, Marking,
     MarkPC, LocalType, WordType
<1>12. /\ wake_q' = wake_q /\ sig' = sig /\ pc'[t] # "r_sched"
       /\ \A u \in Tasks \ {t} : state'[u] = state[u]
  BY <1>1 DEF DownWrite, Unlocked, Goto, TypeOK
<1>13. QED
  BY <1>2, <1>3, <1>5, <1>6, <1>7, <1>8, <1>9, <1>10, <1>11, <1>12, QuietInv

\* So does down_write_trylock().
LEMMA DownWriteTrylockInv ==
  ASSUME IInv, NEW t \in Tasks, DownWriteTrylock(t)
  PROVE  IInv' /\ Frame(t) /\ Admitted(t)
<1> USE DEF IInv
<1>1. pc \in [Tasks -> PCs] /\ local \in [Tasks -> LocalType] /\ count \in WordType
  BY StepTypes
<1>2. TypeOK'
  <2>1. pc' \in [Tasks -> PCs]
    BY <1>1 DEF DownWriteTrylock, Goto, PCs
  <2>2. LocalChange(t)
    BY RwsemAssumption DEF DownWriteTrylock, Unlocked, LocalChange
  <2>3. count' \in WordType
    BY <1>1 DEF DownWriteTrylock, Unlocked, Goto, WordType
  <2>4. QED
    BY <1>1, <2>1, <2>2, <2>3, Types, LocalChanges DEF DownWriteTrylock, TypeOK
<1>3. Frame(t)
  BY <1>1 DEF DownWriteTrylock, Unlocked, Goto, Frame
<1>4. LocalsOf(t)
  BY DEF Locals
<1>5. Quiet(t)
  <2>1. local'[t].wlist = local[t].wlist
    BY <1>1 DEF DownWriteTrylock, Unlocked, Goto, LocalType
  <2>2. QueuedReader(t)' <=> QueuedReader(t)
    BY <1>1, <1>4 DEF DownWriteTrylock, Unlocked, Goto, LocalsOf, QueuedReader, Marking, MarkPC,
       LocalType
  <2>3. QueuedWriter(t)' <=> QueuedWriter(t)
    BY <1>1, <1>4 DEF DownWriteTrylock, Unlocked, Goto, LocalsOf, QueuedWriter, Marking, MarkPC,
       LocalType
  <2>4. pc[t] \notin LockedPC /\ pc'[t] \notin LockedPC
    BY <1>1 DEF DownWriteTrylock, Unlocked, Goto, LockedPC
  <2>5. count'.waiters = count.waiters
    BY <1>1 DEF DownWriteTrylock, Unlocked, Goto, WordType
  <2>6. QED
    BY <2>1, <2>2, <2>3, <2>4, <2>5 DEF DownWriteTrylock, Quiet
<1>6. LocalsOf(t)'
  BY <1>1, <1>4 DEF DownWriteTrylock, Unlocked, Goto, LocalsOf, Marking, MarkPC, LocalType
<1>7. FirstOf(t)'
  BY <1>1 DEF DownWriteTrylock, Unlocked, Goto, Firsts, FirstOf, QueuedWriter, Marking, MarkPC,
     LocalType
<1>8. /\ count'.handoff = count.handoff
      /\ AwaitsHandoff(t)' => AwaitsHandoff(t)
  BY <1>1 DEF DownWriteTrylock, Goto, AwaitsHandoff, Firsts
<1>9. count'.readers = count.readers + Own(t)' - Own(t)
  BY <1>1, <1>4 DEF DownWriteTrylock, Unlocked, Goto, Own, One, Reading, BackingOut, Queueing,
     Granting, LocalsOf, Marking, MarkPC
<1>10. count'.writer = count.writer - One(t \in Writing) + One(t \in Writing')
  BY <1>1 DEF DownWriteTrylock, Unlocked, Goto, One, Writing, WordType
<1>11. Admitted(t)
  BY <1>1, <1>4 DEF DownWriteTrylock, Unlocked, Goto, Admitted, Reading, Writing, LocalsOf,
     Marking, MarkPC, LocalType, WordType
<1>12. /\ wake_q' = wake_q /\ sig' = sig /\ pc'[t] # "r_sched"
       /\ \A u \in Tasks \ {t} : state'[u] = state[u]
  BY <1>1 DEF DownWriteTrylock, Unlocked, Goto, TypeOK
<1>13. QED
  BY <1>2, <1>3, <1>5, <1>6, <1>7, <1>8, <1>9, <1>10, <1>11, <1>12, QuietInv

\* The writer spins or goes to the queue.
LEMMA WriteSlowInv ==
  ASSUME IInv, NEW t \in Tasks, WriteSlow(t)
  PROVE  IInv' /\ Frame(t) /\ Admitted(t)
<1> USE DEF IInv
<1>1. pc \in [Tasks -> PCs] /\ local \in [Tasks -> LocalType] /\ count \in WordType
  BY StepTypes
<1>2. TypeOK'
  <2>1. pc' \in [Tasks -> PCs]
    BY <1>1 DEF WriteSlow, Goto, PCs, WritePC
  <2>2. LocalChange(t)
    BY RwsemAssumption DEF WriteSlow, Goto, LocalChange, WakeTypes
  <2>3. count' \in WordType
    BY <1>1 DEF WriteSlow, Goto, WordType
  <2>4. QED
    BY <1>1, <2>1, <2>2, <2>3, Types, LocalChanges DEF WriteSlow, TypeOK
<1>3. Frame(t)
  BY <1>1 DEF WriteSlow, Goto, Frame
<1>4. LocalsOf(t)
  BY DEF Locals
<1>5. Quiet(t)
  <2>1. local'[t].wlist = local[t].wlist
    BY <1>1 DEF WriteSlow, Goto, LocalType
  <2>2. QueuedReader(t)' <=> QueuedReader(t)
    BY <1>1, <1>4 DEF WriteSlow, Goto, LocalsOf, QueuedReader, Marking, MarkPC, LocalType
  <2>3. QueuedWriter(t)' <=> QueuedWriter(t)
    BY <1>1, <1>4 DEF WriteSlow, Goto, LocalsOf, QueuedWriter, Marking, MarkPC, LocalType
  <2>4. pc[t] \notin LockedPC /\ pc'[t] \notin LockedPC
    BY <1>1 DEF WriteSlow, Goto, LockedPC
  <2>5. count'.waiters = count.waiters
    BY <1>1 DEF WriteSlow, Goto, WordType
  <2>6. QED
    BY <2>1, <2>2, <2>3, <2>4, <2>5 DEF WriteSlow, Quiet
<1>6. LocalsOf(t)'
  BY <1>1, <1>4 DEF WriteSlow, Goto, LocalsOf, Marking, MarkPC, LocalType
<1>7. FirstOf(t)'
  BY <1>1 DEF WriteSlow, Goto, Firsts, FirstOf, QueuedWriter, Marking, MarkPC, LocalType
<1>8. /\ count'.handoff = count.handoff
      /\ AwaitsHandoff(t)' => AwaitsHandoff(t)
  BY <1>1 DEF WriteSlow, Goto, AwaitsHandoff
<1>9. count'.readers = count.readers + Own(t)' - Own(t)
  BY <1>1, <1>4 DEF WriteSlow, Goto, Own, One, Reading, BackingOut, Queueing, Granting, MarkPC,
     LocalType, WordType
<1>10. count'.writer = count.writer - One(t \in Writing) + One(t \in Writing')
  BY <1>1 DEF WriteSlow, Goto, One, Writing, WordType
<1>11. Admitted(t)
  BY <1>1, <1>4 DEF WriteSlow, Goto, Admitted, Reading, Writing, LocalsOf, Marking, MarkPC,
     LocalType, WordType
<1>12. /\ wake_q' = wake_q /\ sig' = sig /\ pc'[t] # "r_sched"
       /\ \A u \in Tasks \ {t} : state'[u] = state[u]
  BY <1>1 DEF WriteSlow, Goto, TypeOK
<1>13. QED
  BY <1>2, <1>3, <1>5, <1>6, <1>7, <1>8, <1>9, <1>10, <1>11, <1>12, QuietInv

\* rwsem_try_write_lock_unqueued() takes a lock nobody has, waiters or not, but
\* not past a handoff.
LEMMA WriteSpinInv ==
  ASSUME IInv, NEW t \in Tasks, WriteSpin(t)
  PROVE  IInv' /\ Frame(t) /\ Admitted(t)
<1> USE DEF IInv
<1>1. pc \in [Tasks -> PCs] /\ local \in [Tasks -> LocalType] /\ count \in WordType
  BY StepTypes
<1>2. TypeOK'
  <2>1. pc' \in [Tasks -> PCs]
    BY <1>1 DEF WriteSpin, Finish, Goto, PCs, WritePC
  <2>2. LocalChange(t)
    BY RwsemAssumption DEF WriteSpin, may_steal, LockMask, Finish, LocalChange, Returns
  <2>3. count' \in WordType
    BY <1>1 DEF WriteSpin, LockMask, WordType
  <2>4. QED
    BY <1>1, <2>1, <2>2, <2>3, Types, LocalChanges DEF WriteSpin, TypeOK
<1>3. Frame(t)
  BY <1>1 DEF WriteSpin, may_steal, LockMask, Finish, Goto, Frame
<1>4. LocalsOf(t)
  BY DEF Locals
<1>5. Quiet(t)
  <2>1. local'[t].wlist = local[t].wlist
    BY <1>1, <1>4 DEF WriteSpin, Finish, Goto, Idle, LocalsOf
  <2>2. QueuedReader(t)' <=> QueuedReader(t)
    BY <1>1, <1>4 DEF WriteSpin, Finish, Goto, QueuedReader, Marking, MarkPC, LocalType
  <2>3. QueuedWriter(t)' <=> QueuedWriter(t)
    BY <1>1, <1>4 DEF WriteSpin, Finish, Goto, QueuedWriter, Marking, MarkPC
  <2>4. pc[t] \notin LockedPC /\ pc'[t] \notin LockedPC
    BY <1>1 DEF WriteSpin, may_steal, Finish, Goto, LockedPC
  <2>5. count'.waiters = count.waiters
    BY <1>1 DEF WriteSpin, Finish, Goto, WordType
  <2>6. QED
    BY <2>1, <2>2, <2>3, <2>4, <2>5 DEF WriteSpin, Quiet
<1>6. LocalsOf(t)'
  BY <1>1, <1>4 DEF WriteSpin, may_steal, LockMask, Finish, Goto, Idle, LocalsOf, Marking,
     MarkPC, LocalType
<1>7. FirstOf(t)'
  BY <1>1 DEF WriteSpin, may_steal, LockMask, Finish, Goto, Idle, Firsts, FirstOf, QueuedWriter,
     Marking, MarkPC, LocalType
<1>8. /\ count'.handoff = count.handoff
      /\ AwaitsHandoff(t)' => AwaitsHandoff(t)
  BY <1>1 DEF WriteSpin, Finish, Goto, AwaitsHandoff, WordType
<1>9. count'.readers = count.readers + Own(t)' - Own(t)
  BY <1>1, <1>4 DEF WriteSpin, Finish, Goto, Own, One, Reading, BackingOut, Queueing, Granting,
     Marking, MarkPC, LocalType, WordType
<1>10. count'.writer = count.writer - One(t \in Writing) + One(t \in Writing')
  BY <1>1 DEF WriteSpin, may_steal, LockMask, Finish, Goto, Idle, One, Writing, WordType
<1>11. Admitted(t)
  BY <1>1, <1>4 DEF WriteSpin, may_steal, LockMask, Finish, Goto, Idle, Admitted, Reading,
     Writing, LocalsOf, Marking, MarkPC, LocalType, WordType
<1>12. /\ wake_q' = wake_q /\ sig' = sig /\ pc'[t] # "r_sched"
       /\ \A u \in Tasks \ {t} : state'[u] = state[u]
  BY <1>1 DEF WriteSpin, Finish, Goto
<1>13. QED
  BY <1>2, <1>3, <1>5, <1>6, <1>7, <1>8, <1>9, <1>10, <1>11, <1>12, QuietInv

\* A queued writer that did not get the lock sleeps, tries again or gives up.
LEMMA WriteFailInv ==
  ASSUME IInv, NEW t \in Tasks, WriteFail(t)
  PROVE  IInv' /\ Frame(t) /\ Admitted(t)
<1> USE DEF IInv
<1>1. pc \in [Tasks -> PCs] /\ local \in [Tasks -> LocalType] /\ count \in WordType
  BY StepTypes
<1>2. TypeOK'
  <2>1. pc' \in [Tasks -> PCs]
    BY <1>1 DEF WriteFail, Goto, PCs, WritePC
  <2>2. LocalChange(t)
    BY RwsemAssumption DEF WriteFail, Goto, LocalChange, WakeTypes
  <2>3. count' \in WordType
    BY <1>1 DEF WriteFail, Goto, WordType
  <2>4. QED
    BY <1>1, <2>1, <2>2, <2>3, Types, LocalChanges DEF WriteFail, TypeOK
<1>3. Frame(t)
  BY <1>1 DEF WriteFail, Goto, Frame
<1>4. LocalsOf(t)
  BY DEF Locals
<1>5. Quiet(t)
  <2>1. local'[t].wlist = local[t].wlist
    BY <1>1 DEF WriteFail, Goto, LocalType
  <2>2. QueuedReader(t)' <=> QueuedReader(t)
    BY <1>1, <1>4 DEF WriteFail, Goto, LocalsOf, QueuedReader, Marking, MarkPC, LocalType
  <2>3. QueuedWriter(t)' <=> QueuedWriter(t)
    BY <1>1, <1>4 DEF WriteFail, Goto, LocalsOf, QueuedWriter, Marking, MarkPC, LocalType
  <2>4. pc[t] \notin LockedPC /\ pc'[t] \notin LockedPC
    BY <1>1 DEF WriteFail, Goto, LockedPC
  <2>5. count'.waiters = count.waiters
    BY <1>1 DEF WriteFail, Goto, WordType
  <2>6. QED
    BY <2>1, <2>2, <2>3, <2>4, <2>5 DEF WriteFail, Quiet
<1>6. LocalsOf(t)'
  BY <1>1, <1>4 DEF WriteFail, Goto, LocalsOf, Marking, MarkPC, LocalType
<1>7. FirstOf(t)'
  BY <1>1 DEF WriteFail, Goto, Firsts, FirstOf, QueuedWriter, Marking, MarkPC, LocalType
<1>8. /\ count'.handoff = count.handoff
      /\ AwaitsHandoff(t)' => AwaitsHandoff(t)
  BY <1>1 DEF WriteFail, AwaitsHandoff
<1>9. count'.readers = count.readers + Own(t)' - Own(t)
  BY <1>1, <1>4 DEF WriteFail, Goto, Own, One, Reading, BackingOut, Queueing, Granting, MarkPC,
     LocalType, WordType
<1>10. count'.writer = count.writer - One(t \in Writing) + One(t \in Writing')
  BY <1>1 DEF WriteFail, Goto, One, Writing, WordType
<1>11. Admitted(t)
  BY <1>1, <1>4 DEF WriteFail, Goto, Admitted, Reading, Writing, LocalsOf, Marking, MarkPC,
     LocalType, WordType
<1>12. /\ wake_q' = wake_q /\ sig' = sig /\ pc'[t] # "r_sched"
       /\ \A u \in Tasks \ {t} : state'[u] = state[u]
  BY <1>1 DEF WriteFail, Goto, TypeOK
<1>13. QED
  BY <1>2, <1>3, <1>5, <1>6, <1>7, <1>8, <1>9, <1>10, <1>11, <1>12, QuietInv

\* A writer that wakes up is still queued.
LEMMA WriteScheduleInv ==
  ASSUME IInv, NEW t \in Tasks, WriteSchedule(t)
  PROVE  IInv' /\ Frame(t) /\ Admitted(t)
<1> USE DEF IInv
<1>1. pc \in [Tasks -> PCs] /\ local \in [Tasks -> LocalType] /\ count \in WordType
  BY StepTypes
<1>2. TypeOK'
  <2>1. pc' \in [Tasks -> PCs]
    BY <1>1 DEF WriteSchedule, Goto, PCs, WritePC
  <2>2. LocalChange(t)
    BY RwsemAssumption DEF WriteSchedule, Goto, LocalChange, WakeTypes
  <2>3. count' \in WordType
    BY <1>1 DEF WriteSchedule, Goto, WordType
  <2>4. QED
    BY <1>1, <2>1, <2>2, <2>3, Types, LocalChanges DEF WriteSchedule, TypeOK
<1>3. Frame(t)
  BY <1>1 DEF WriteSchedule, Goto, Frame
<1>4. LocalsOf(t)
  BY DEF Locals
<1>5. Quiet(t)
  <2>1. local'[t].wlist = local[t].wlist
    BY <1>1 DEF WriteSchedule, Goto, LocalType
  <2>2. QueuedReader(t)' <=> QueuedReader(t)
    BY <1>1, <1>4 DEF WriteSchedule, Goto, LocalsOf, QueuedReader, Marking, MarkPC, LocalType
  <2>3. QueuedWriter(t)' <=> QueuedWriter(t)
    BY <1>1, <1>4 DEF WriteSchedule, Goto, LocalsOf, QueuedWriter, Marking, MarkPC, LocalType
  <2>4. pc[t] \notin LockedPC /\ pc'[t] \notin LockedPC
    BY <1>1 DEF WriteSchedule, Goto, LockedPC
  <2>5. count'.waiters = count.waiters
    BY <1>1 DEF WriteSchedule, Goto, WordType
  <2>6. QED
    BY <2>1, <2>2, <2>3, <2>4, <2>5 DEF WriteSchedule, Quiet
<1>6. LocalsOf(t)'
  BY <1>1, <1>4 DEF WriteSchedule, Goto, LocalsOf, Marking, MarkPC, LocalType
<1>7. FirstOf(t)'
  BY <1>1 DEF WriteSchedule, Goto, Firsts, FirstOf, QueuedWriter, Marking, MarkPC, LocalType
<1>8. /\ count'.handoff = count.handoff
      /\ AwaitsHandoff(t)' => AwaitsHandoff(t)
  BY <1>1 DEF WriteSchedule, AwaitsHandoff
<1>9. count'.readers = count.readers + Own(t)' - Own(t)
  BY <1>1, <1>4 DEF WriteSchedule, Goto, Own, One, Reading, BackingOut, Queueing, Granting,
     MarkPC, LocalType, WordType
<1>10. count'.writer = count.writer - One(t \in Writing) + One(t \in Writing')
  BY <1>1 DEF WriteSchedule, Goto, One, Writing, WordType
<1>11. Admitted(t)
  BY <1>1, <1>4 DEF WriteSchedule, Goto, Admitted, Reading, Writing, LocalsOf, Marking, MarkPC,
     LocalType, WordType
<1>12. /\ wake_q' = wake_q /\ sig' = sig /\ pc'[t] # "r_sched"
       /\ \A u \in Tasks \ {t} : state'[u] = state[u]
  BY <1>1 DEF WriteSchedule, Goto, TypeOK
<1>13. QED
  BY <1>2, <1>3, <1>5, <1>6, <1>7, <1>8, <1>9, <1>10, <1>11, <1>12, QuietInv

\* A writer that finds itself first on the queue, although it looks without
\* wait_lock, stays the first: nobody else takes its waiter off.
LEMMA WriteFirstInv ==
  ASSUME IInv, NEW t \in Tasks, WriteFirst(t)
  PROVE  IInv' /\ Frame(t) /\ Admitted(t)
<1> USE DEF IInv
<1>1. pc \in [Tasks -> PCs] /\ local \in [Tasks -> LocalType] /\ count \in WordType
  BY StepTypes
<1>2. TypeOK'
  <2>1. pc' \in [Tasks -> PCs]
    BY <1>1 DEF WriteFirst, Goto, PCs, WritePC
  <2>2. LocalChange(t)
    BY RwsemAssumption DEF WriteFirst, Goto, LocalChange, WakeTypes
  <2>3. count' \in WordType
    BY <1>1 DEF WriteFirst, Goto, WordType
  <2>4. local[t].mode \in TaskStates
    BY <1>1, Types DEF LocalType
  <2>5. QED
    BY <1>1, <2>1, <2>2, <2>3, <2>4, LocalChanges DEF WriteFirst, TypeOK
<1>3. Frame(t)
  BY <1>1 DEF WriteFirst, Goto, Frame
<1>4. LocalsOf(t)
  BY DEF Locals
<1>5. Quiet(t)
  <2>1. local'[t].wlist = local[t].wlist
    BY <1>1 DEF WriteFirst, Goto, LocalType
  <2>2. QueuedReader(t)' <=> QueuedReader(t)
    BY <1>1, <1>4 DEF WriteFirst, Goto, LocalsOf, QueuedReader, Marking, MarkPC, LocalType
  <2>3. QueuedWriter(t)' <=> QueuedWriter(t)
    BY <1>1, <1>4 DEF WriteFirst, Goto, LocalsOf, QueuedWriter, Marking, MarkPC, LocalType
  <2>4. pc[t] \notin LockedPC /\ pc'[t] \notin LockedPC
    BY <1>1 DEF WriteFirst, Goto, LockedPC
  <2>5. count'.waiters = count.waiters
    BY <1>1 DEF WriteFirst, Goto, WordType
  <2>6. QED
    BY <2>1, <2>2, <2>3, <2>4, <2>5 DEF WriteFirst, Quiet
<1>6. LocalsOf(t)'
  BY <1>1, <1>4 DEF WriteFirst, Goto, LocalsOf, Marking, MarkPC, LocalType
<1>7. FirstOf(t)'
  BY <1>1 DEF WriteFirst, Goto, Firsts, FirstOf, QueuedWriter, Marking, MarkPC, LocalType
<1>8. /\ count'.handoff = count.handoff
      /\ AwaitsHandoff(t)' => AwaitsHandoff(t)
  BY <1>1 DEF WriteFirst, Goto, AwaitsHandoff
<1>9. count'.readers = count.readers + Own(t)' - Own(t)
  BY <1>1, <1>4 DEF WriteFirst, Goto, Own, One, Reading, BackingOut, Queueing, Granting, MarkPC,
     LocalType, WordType
<1>10. count'.writer = count.writer - One(t \in Writing) + One(t \in Writing')
  BY <1>1 DEF WriteFirst, Goto, One, Writing, WordType
<1>11. Admitted(t)
  BY <1>1, <1>4 DEF WriteFirst, Goto, Admitted, Reading, Writing, LocalsOf, Marking, MarkPC,
     LocalType, WordType
<1>12. /\ wake_q' = wake_q /\ sig' = sig /\ pc'[t] # "r_sched"
       /\ \A u \in Tasks \ {t} : state'[u] = state[u]
  BY <1>1 DEF WriteFirst, Goto, TypeOK
<1>13. QED
  BY <1>2, <1>3, <1>5, <1>6, <1>7, <1>8, <1>9, <1>10, <1>11, <1>12, QuietInv

\* A first writer that has waited too long will ask for the handoff.
LEMMA WriteCountInv ==
  ASSUME IInv, NEW t \in Tasks, WriteCount(t)
  PROVE  IInv' /\ Frame(t) /\ Admitted(t)
<1> USE DEF IInv
<1>1. pc \in [Tasks -> PCs] /\ local \in [Tasks -> LocalType] /\ count \in WordType
  BY StepTypes
<1>2. TypeOK'
  <2>1. pc' \in [Tasks -> PCs]
    BY <1>1 DEF WriteCount, Goto, PCs, WritePC
  <2>2. LocalChange(t)
    BY RwsemAssumption DEF WriteCount, LockMask, LocalChange, Returns
  <2>3. count' \in WordType
    BY <1>1 DEF WriteCount, LockMask, Goto, WordType
  <2>4. QED
    BY <1>1, <2>1, <2>2, <2>3, Types, LocalChanges DEF WriteCount, TypeOK
<1>3. Frame(t)
  BY <1>1 DEF WriteCount, LockMask, Goto, Frame
<1>4. LocalsOf(t)
  BY DEF Locals
<1>5. Quiet(t)
  <2>1. local'[t].wlist = local[t].wlist
    BY <1>1 DEF WriteCount, LockMask, Goto, LocalType
  <2>2. QueuedReader(t)' <=> QueuedReader(t)
    BY <1>1, <1>4 DEF WriteCount, LockMask, Goto, LocalsOf, QueuedReader, Marking, MarkPC,
       LocalType
  <2>3. QueuedWriter(t)' <=> QueuedWriter(t)
    BY <1>1, <1>4 DEF WriteCount, LockMask, Goto, LocalsOf, QueuedWriter, Marking, MarkPC,
       LocalType
  <2>4. pc[t] \notin LockedPC /\ pc'[t] \notin LockedPC
    BY <1>1 DEF WriteCount, LockMask, Goto, LockedPC
  <2>5. count'.waiters = count.waiters
    BY <1>1 DEF WriteCount, LockMask, Goto, WordType
  <2>6. QED
    BY <2>1, <2>2, <2>3, <2>4, <2>5 DEF WriteCount, Quiet
<1>6. LocalsOf(t)'
  BY <1>1, <1>4 DEF WriteCount, LockMask, Goto, LocalsOf, Marking, MarkPC, LocalType
<1>7. FirstOf(t)'
  BY <1>1 DEF WriteCount, LockMask, Goto, Firsts, FirstOf, QueuedWriter, Marking, MarkPC,
     LocalType
<1>8. /\ count'.handoff = count.handoff
      /\ AwaitsHandoff(t)' => AwaitsHandoff(t)
  BY <1>1 DEF WriteCount, Goto, AwaitsHandoff, FirstOf, Firsts
<1>9. count'.readers = count.readers + Own(t)' - Own(t)
  BY <1>1, <1>4 DEF WriteCount, Goto, Own, One, Reading, BackingOut, Queueing, Granting,
     LocalsOf, MarkPC, LocalType, WordType
<1>10. count'.writer = count.writer - One(t \in Writing) + One(t \in Writing')
  BY <1>1 DEF WriteCount, LockMask, Goto, One, Writing, WordType
<1>11. Admitted(t)
  BY <1>1, <1>4 DEF WriteCount, LockMask, Goto, Admitted, Reading, Writing, LocalsOf, Marking,
     MarkPC, LocalType, WordType
<1>12. /\ wake_q' = wake_q /\ sig' = sig /\ pc'[t] # "r_sched"
       /\ \A u \in Tasks \ {t} : state'[u] = state[u]
  BY <1>1 DEF WriteCount, LockMask, Goto, TypeOK
<1>13. QED
  BY <1>2, <1>3, <1>5, <1>6, <1>7, <1>8, <1>9, <1>10, <1>11, <1>12, QuietInv

\* up_read() takes the reader's bias back, and may wake the queue.
LEMMA UpReadInv ==
  ASSUME IInv, NEW t \in Tasks, UpRead(t)
  PROVE  IInv' /\ Frame(t) /\ Admitted(t)
<1> USE DEF IInv
<1>1. pc \in [Tasks -> PCs] /\ local \in [Tasks -> LocalType] /\ count \in WordType
  BY StepTypes
<1>2. TypeOK'
  <2>1. pc' \in [Tasks -> PCs]
    BY <1>1 DEF UpRead, mark_wake, Finish, Goto, PCs, MarkPC
  <2>2. LocalChange(t)
    BY RwsemAssumption DEF UpRead, LockMask, mark_wake, Finish, Goto, LocalChange, WakeTypes,
       Returns
  <2>3. count' \in WordType
    BY <1>1 DEF UpRead, AddReaders, mark_wake, Finish, Goto, WordType
  <2>4. QED
    BY <1>1, <2>1, <2>2, <2>3, Types, LocalChanges DEF UpRead, TypeOK
<1>3. Frame(t)
  BY <1>1 DEF UpRead, AddReaders, LockMask, mark_wake, Finish, Goto, Frame
<1>4. LocalsOf(t)
  BY DEF Locals
<1>5. Quiet(t)
  <2>1. local'[t].wlist = local[t].wlist
    BY <1>1, <1>4, FinishFields, MarkWakeFields DEF UpRead, LocalsOf
  <2>2. QueuedReader(t)' <=> QueuedReader(t)
    BY <1>1, <1>4 DEF UpRead, AddReaders, LockMask, mark_wake, Finish, Goto, Idle, LocalsOf,
       QueuedReader, Marking, MarkPC, LocalType
  <2>3. QueuedWriter(t)' <=> QueuedWriter(t)
    BY <1>1, <1>4 DEF UpRead, AddReaders, LockMask, mark_wake, Finish, Goto, Idle, LocalsOf,
       QueuedWriter, Marking, MarkPC, LocalType
  <2>4. pc[t] \notin LockedPC /\ pc'[t] \notin LockedPC
    BY <1>1 DEF UpRead, mark_wake, Finish, Goto, LockedPC
  <2>5. count'.waiters = count.waiters
    BY <1>1 DEF UpRead, AddReaders, LockMask, mark_wake, Finish, Goto, WordType
  <2>6. QED
    BY <2>1, <2>2, <2>3, <2>4, <2>5 DEF UpRead, Quiet
<1>6. LocalsOf(t)'
  BY <1>1, <1>4 DEF UpRead, AddReaders, LockMask, mark_wake, Finish, Goto, Idle, LocalsOf,
     Marking, MarkPC, LocalType
<1>7. FirstOf(t)'
  BY <1>1 DEF UpRead, AddReaders, LockMask, mark_wake, Finish, Goto, Idle, Firsts, FirstOf,
     QueuedWriter, Marking, MarkPC, LocalType
<1>8. /\ count'.handoff = count.handoff
      /\ AwaitsHandoff(t)' => AwaitsHandoff(t)
  BY <1>1 DEF UpRead, AddReaders, mark_wake, Finish, Goto, AwaitsHandoff
<1>9. count'.readers = count.readers + Own(t)' - Own(t)
  BY <1>1, <1>4 DEF UpRead, AddReaders, mark_wake, Finish, Goto, Idle, Own, One, Reading,
     BackingOut, Queueing, Granting, LocalType
<1>10. count'.writer = count.writer - One(t \in Writing) + One(t \in Writing')
  BY <1>1 DEF UpRead, AddReaders, LockMask, mark_wake, Finish, Goto, Idle, One, Writing,
     WordType
<1>11. Admitted(t)
  BY <1>1, <1>4 DEF UpRead, AddReaders, LockMask, mark_wake, Finish, Goto, Idle, Admitted,
     Reading, Writing, LocalsOf, Marking, MarkPC, LocalType, WordType
<1>12. /\ wake_q' = wake_q /\ sig' = sig /\ pc'[t] # "r_sched"
       /\ \A u \in Tasks \ {t} : state'[u] = state[u]
  BY <1>1 DEF UpRead, mark_wake, Finish, Goto
<1>13. QED
  BY <1>2, <1>3, <1>5, <1>6, <1>7, <1>8, <1>9, <1>10, <1>11, <1>12, QuietInv

\* up_write() clears the writer bit, and may wake the queue.
LEMMA UpWriteInv ==
  ASSUME IInv, NEW t \in Tasks, UpWrite(t)
  PROVE  IInv' /\ Frame(t) /\ Admitted(t)
<1> USE DEF IInv
<1>1. pc \in [Tasks -> PCs] /\ local \in [Tasks -> LocalType] /\ count \in WordType
  BY StepTypes
<1>2. TypeOK'
  <2>1. pc' \in [Tasks -> PCs]
    BY <1>1 DEF UpWrite, mark_wake, Finish, Goto, PCs, MarkPC
  <2>2. LocalChange(t)
    BY RwsemAssumption DEF UpWrite, wake_after_write, mark_wake, Finish, LocalChange, WakeTypes,
       Returns
  <2>3. count' \in WordType
    BY <1>1 DEF UpWrite, mark_wake, Finish, Goto, WordType
  <2>4. QED
    BY <1>1, <2>1, <2>2, <2>3, Types, LocalChanges DEF UpWrite, TypeOK
<1>3. Frame(t)
  BY <1>1 DEF UpWrite, wake_after_write, mark_wake, Finish, Goto, Frame
<1>4. LocalsOf(t)
  BY DEF Locals
<1>5. Quiet(t)
  <2>1. local'[t].wlist = local[t].wlist
    BY <1>1, <1>4, FinishFields, MarkWakeFields DEF UpWrite, LocalsOf
  <2>2. QueuedReader(t)' <=> QueuedReader(t)
    BY <1>1, <1>4 DEF UpWrite, wake_after_write, mark_wake, Finish, Goto, Idle, LocalsOf,
       QueuedReader, Marking, MarkPC, LocalType
  <2>3. QueuedWriter(t)' <=> QueuedWriter(t)
    BY <1>1, <1>4 DEF UpWrite, wake_after_write, mark_wake, Finish, Goto, Idle, LocalsOf,
       QueuedWriter, Marking, MarkPC, LocalType
  <2>4. pc[t] \notin LockedPC /\ pc'[t] \notin LockedPC
    BY <1>1 DEF UpWrite, wake_after_write, mark_wake, Finish, Goto, LockedPC
  <2>5. count'.waiters = count.waiters
    BY <1>1 DEF UpWrite, wake_after_write, mark_wake, Finish, Goto, WordType
  <2>6. QED
    BY <2>1, <2>2, <2>3, <2>4, <2>5 DEF UpWrite, Quiet
<1>6. LocalsOf(t)'
  BY <1>1, <1>4 DEF UpWrite, wake_after_write, mark_wake, Finish, Goto, Idle, LocalsOf, Marking,
     MarkPC, LocalType
<1>7. FirstOf(t)'
  BY <1>1 DEF UpWrite, wake_after_write, mark_wake, Finish, Goto, Idle, Firsts, FirstOf,
     QueuedWriter, Marking, MarkPC, LocalType
<1>8. /\ count'.handoff = count.handoff
      /\ AwaitsHandoff(t)' => AwaitsHandoff(t)
  BY <1>1 DEF UpWrite, mark_wake, Finish, Goto, AwaitsHandoff, Firsts
<1>9. count'.readers = count.readers + Own(t)' - Own(t)
  BY <1>1, <1>4 DEF UpWrite, mark_wake, Finish, Goto, Own, One, Reading, BackingOut, Queueing,
     Granting, granted_early, LocalsOf, Marking, MarkPC, LocalType, WordType
<1>10. count'.writer = count.writer - One(t \in Writing) + One(t \in Writing')
  BY <1>1 DEF UpWrite, mark_wake, Finish, Goto, Idle, One, Writing, WordType
<1>11. Admitted(t)
  BY <1>1, <1>4 DEF UpWrite, Admitted, Reading, Writing, LocalsOf, Marking, MarkPC, WordType
<1>12. /\ wake_q' = wake_q /\ sig' = sig /\ pc'[t] # "r_sched"
       /\ \A u \in Tasks \ {t} : state'[u] = state[u]
  BY <1>1 DEF UpWrite, mark_wake, Finish, Goto
<1>13. QED
  BY <1>2, <1>3, <1>5, <1>6, <1>7, <1>8, <1>9, <1>10, <1>11, <1>12, QuietInv

\* downgrade_write() turns the writer bit into a reader bias in one access.
LEMMA DowngradeWriteInv ==
  ASSUME IInv, NEW t \in Tasks, DowngradeWrite(t)
  PROVE  IInv' /\ Frame(t) /\ Admitted(t)
<1> USE DEF IInv
<1>1. pc \in [Tasks -> PCs] /\ local \in [Tasks -> LocalType] /\ count \in WordType
  BY StepTypes
<1>2. TypeOK'
  <2>1. pc' \in [Tasks -> PCs]
    BY <1>1 DEF DowngradeWrite, mark_wake, Finish, Goto, PCs, MarkPC
  <2>2. LocalChange(t)
    BY RwsemAssumption DEF DowngradeWrite, mark_wake, Finish, Goto, LocalChange, WakeTypes,
       Returns
  <2>3. count' \in WordType
    <3>1. count.writer - 1 \in Int /\ count.readers + 1 \in Int
      BY <1>1 DEF WordType
    <3>2. count' = [count EXCEPT !.writer = count.writer - 1, !.readers = count.readers + 1]
      BY DEF DowngradeWrite
    <3>3. QED
      BY <1>1, <3>1, <3>2, WordUpdates, Zenon
  <2>4. QED
    BY <1>1, <2>1, <2>2, <2>3, Types, LocalChanges DEF DowngradeWrite, TypeOK
<1>3. Frame(t)
  BY <1>1 DEF DowngradeWrite, mark_wake, Finish, Goto, Frame
<1>4. LocalsOf(t)
  BY DEF Locals
<1>5. Quiet(t)
  <2>1. local'[t].wlist = local[t].wlist
    BY <1>1, <1>4, FinishFields, MarkWakeFields DEF DowngradeWrite, LocalsOf
  <2>2. QueuedReader(t)' <=> QueuedReader(t)
    BY <1>1, <1>4 DEF DowngradeWrite, mark_wake, Finish, Goto, Idle, LocalsOf, QueuedReader,
       Marking, MarkPC, LocalType
  <2>3. QueuedWriter(t)' <=> QueuedWriter(t)
    BY <1>1, <1>4 DEF DowngradeWrite, mark_wake, Finish, Goto, Idle, LocalsOf, QueuedWriter,
       Marking, MarkPC, LocalType
  <2>4. pc[t] \notin LockedPC /\ pc'[t] \notin LockedPC
    BY <1>1 DEF DowngradeWrite, mark_wake, Finish, Goto, LockedPC
  <2>5. count'.waiters = count.waiters
    BY <1>1 DEF DowngradeWrite, mark_wake, Finish, Goto, WordType
  <2>6. QED
    BY <2>1, <2>2, <2>3, <2>4, <2>5 DEF DowngradeWrite, Quiet
<1>6. LocalsOf(t)'
  BY <1>1, <1>4 DEF DowngradeWrite, mark_wake, Finish, Goto, Idle, LocalsOf, Marking, MarkPC,
     LocalType
<1>7. FirstOf(t)'
  BY <1>1 DEF DowngradeWrite, mark_wake, Finish, Goto, Idle, Firsts, FirstOf, QueuedWriter,
     Marking, MarkPC, LocalType
<1>8. /\ count'.handoff = count.handoff
      /\ AwaitsHandoff(t)' => AwaitsHandoff(t)
  BY <1>1 DEF DowngradeWrite, mark_wake, Finish, Goto, AwaitsHandoff, Firsts
<1>9. count'.readers = count.readers + Own(t)' - Own(t)
  BY <1>1, <1>4 DEF DowngradeWrite, mark_wake, Finish, Goto, Own, One, Reading, BackingOut,
     Queueing, Granting, granted_early, LocalsOf, Marking, MarkPC, LocalType
<1>10. count'.writer = count.writer - One(t \in Writing) + One(t \in Writing')
  BY <1>1 DEF DowngradeWrite, mark_wake, Finish, Goto, Idle, One, Writing, WordType
<1>11. Admitted(t)
  BY <1>1, <1>4 DEF DowngradeWrite, mark_wake, Finish, Goto, Idle, Admitted, Reading, Writing,
     LocalsOf, Marking, MarkPC, LocalType, WordType
<1>12. /\ wake_q' = wake_q /\ sig' = sig /\ pc'[t] # "r_sched"
       /\ \A u \in Tasks \ {t} : state'[u] = state[u]
  BY <1>1 DEF DowngradeWrite, mark_wake, Finish, Goto
<1>13. QED
  BY <1>2, <1>3, <1>5, <1>6, <1>7, <1>8, <1>9, <1>10, <1>11, <1>12, QuietInv

-----------------------------------------------------------------------------
(* The steps that queue, grant, or hold wait_lock.                          *)

\* While wait_lock is free or held by t, nobody else is in a section under it.
LEMMA LockFree ==
  ASSUME LockHeld, NEW t \in Tasks, wait_lock \in {None, t}
  PROVE  \A u \in Tasks \ {t} : pc[u] \notin LockedPC
BY RwsemAssumption DEF LockHeld

\* A step that does not touch the queue keeps it when it keeps to wait_lock.
LEMMA SameQueue ==
  ASSUME NEW t \in Tasks, Frame(t), Queue, LockHeld, WaitersBit,
         wait_lock \in {None, t}, wait_lock' \in {None, t},
         wait_list' = wait_list, Given' = Given,
         \A u \in Tasks : local'[u].wlist \cap granted' = {},
         QueuedReader(t)' <=> QueuedReader(t), QueuedWriter(t)' <=> QueuedWriter(t),
         pc[t] \notin {"r_add", "w_empty"}, pc'[t] \notin {"r_add", "w_empty", "m_grant"},
         pc'[t] \in {"m_undo", "m_adjust"} => wait_lock' = t,
         pc'[t] = "m_adjust" =>
           wait_list # <<>> /\ list_first_entry(wait_list).type = "read",
         count'.waiters = count.waiters
  PROVE  Queue' /\ LockHeld' /\ WaitersBit'
<1>1. \A u \in Tasks \ {t} : pc[u] \notin LockedPC /\ pc'[u] = pc[u]
  BY LockFree, OthersSame
<1>2. /\ \A u \in Tasks : QueuedReader(u)' <=> QueuedReader(u)
      /\ \A u \in Tasks : QueuedWriter(u)' <=> QueuedWriter(u)
  BY OthersSame
<1>3. \A u \in Tasks : pc[u] \notin {"r_add", "w_empty"} /\ pc'[u] \notin {"r_add", "w_empty"}
  BY <1>1 DEF LockedPC
<1>4. Queue'
  BY <1>1, <1>2, <1>3 DEF Queue, ReadWaiter, WriteWaiter, LockedPC
<1>5. LockHeld'
  BY <1>1 DEF LockHeld, LockedPC
<1>6. WaitersBit'
  BY <1>3 DEF WaitersBit
<1>7. QED
  BY <1>4, <1>5, <1>6

\* What a step that grants nothing must keep for the rest of the invariant.
LEMMA StepInv ==
  ASSUME IInv, NEW t \in Tasks, TypeOK', Frame(t), Admitted(t),
         LocalsOf(t)', FirstOf(t)',
         \A u \in Tasks \ {t} : QueuedWriter(u) /\ list_first_entry(wait_list).task = u =>
           list_first_entry(wait_list').task = u,
         Queue', LockHeld', WaitersBit', HandoffBit', Given' = Given,
         count'.readers = count.readers + Own(t)' - Own(t),
         count'.writer = count.writer - One(t \in Writing) + One(t \in Writing'),
         pc'[t] = "m_adjust" => pc[t] = "m_adjust" \/ count.writer = 0,
         granted' \subseteq granted,
         \A u \in Tasks : wake_q[u] \subseteq wake_q'[u],
         \A u \in Tasks \ {t} : state'[u] = state[u] /\ sig'[u] = sig[u],
         pc'[t] # "r_sched"
  PROVE  IInv'
<1> USE DEF IInv
<1>1. Locals' /\ Firsts'
  BY LocalsStep, FirstsStep
<1>2. Word'
  BY WordStep DEF Admitted
<1>3. Exclusion'
  BY ExclusionStep
<1>4. t \in granted' => ~Asleep(t)'
  BY DEF Queue, Given, QueuedReader, Asleep, Marking, MarkPC
<1>5. GrantedAreWoken'
  BY <1>4, WokenStep
<1>6. QED
  BY <1>1, <1>2, <1>3, <1>5

\* A reader that finds its waiter granted owns a bias that was counted for it.
LEMMA TakeGrant ==
  ASSUME IInv, NEW t \in Tasks, pc[t] \in {"r_wait", "r_sig"}, t \in granted,
         granted' = granted \ {t}, Finish(t, "r_held"),
         state' = [state EXCEPT ![t] = TASK_RUNNING],
         UNCHANGED <<count, wait_list, wait_lock, wake_q, sig>>
  PROVE  IInv' /\ Frame(t) /\ Admitted(t)
<1> USE DEF IInv
<1>1. pc \in [Tasks -> PCs] /\ local \in [Tasks -> LocalType] /\ count \in WordType
  BY StepTypes
<1>2. TypeOK'
  <2>1. pc' \in [Tasks -> PCs]
    BY <1>1 DEF Finish, Goto, PCs
  <2>2. LocalChange(t)
    BY DEF Finish, LocalChange
  <2>3. QED
    BY <1>1, <2>1, <2>2, Types, LocalChanges DEF TypeOK
<1>3. Frame(t)
  BY <1>1 DEF Finish, Goto, Frame
<1>4. LocalsOf(t) /\ FirstOf(t)
  BY DEF Locals, Firsts
<1>5. /\ pc'[t] = "r_held" /\ local'[t].wlist = {} /\ local'[t].ret = "out"
      /\ local'[t].bias = 0 /\ local'[t].wstate = "NOT_FIRST"
      /\ local'[t].wake_type = "ANY" /\ local[t].wlist = {}
  BY <1>1, <1>4, FinishFields DEF LocalsOf
<1>6. \A u \in Tasks : local'[u].wlist = local[u].wlist
  BY <1>3, <1>5, OthersSame
<1>7. Given' = Given \ {t} /\ t \in Given
  <2>1. \A u \in Tasks : t \notin local[u].wlist
    BY DEF Queue
  <2>2. QED
    BY <1>6, <2>1 DEF Given
<1>8. ~QueuedReader(t)' /\ ~QueuedWriter(t)' /\ QueuedReader(t) /\ ~QueuedWriter(t)
  BY <1>5 DEF QueuedReader, QueuedWriter, Marking, MarkPC
<1>9. Queue'
  <2>1. \A u \in Tasks \ {t} : /\ QueuedReader(u)' <=> QueuedReader(u)
                               /\ QueuedWriter(u)' <=> QueuedWriter(u)
                               /\ pc'[u] = pc[u]
    BY <1>3, OthersSame
  <2>2. ReadWaiter(t) \notin Linked(wait_list) /\ WriteWaiter(t) \notin Linked(wait_list)
    BY <1>7, <1>8 DEF Queue
  <2>3. QED
    BY <1>5, <1>6, <1>7, <1>8, <2>1, <2>2 DEF Queue, ReadWaiter, WriteWaiter
<1>10. LockHeld' /\ WaitersBit'
  <2>1. \A u \in Tasks : \A l \in LockedPC : pc'[u] = l <=> pc[u] = l
    BY <1>3, <1>5, OthersSame DEF LockedPC
  <2>2. LockHeld'
    BY <2>1 DEF LockHeld
  <2>3. WaitersBit'
    BY <2>1 DEF WaitersBit, LockedPC
  <2>4. QED
    BY <2>2, <2>3
<1>11. Locals' /\ Firsts' /\ HandoffBit'
  <2>1. LocalsOf(t)' /\ FirstOf(t)' /\ ~AwaitsHandoff(t)'
    BY <1>5 DEF LocalsOf, FirstOf, AwaitsHandoff
  <2>2. QED
    BY <1>3, <2>1, LocalsStep, FirstsStep, HandoffStep
<1>12. t \notin Writing /\ t \notin Writing' /\ t \notin Reading /\ Writing = {} /\ count.writer = 0
  BY <1>5, <1>7, TasksFinite DEF Writing, Reading, MarkPC, Exclusion, Word
<1>13. Writing' = {}
  BY <1>3, <1>12, OthersSame DEF Writing
<1>14. Word'
  <2>1. Own(t)' = 1 /\ Own(t) = 0
    BY <1>5 DEF Own, One, Reading, BackingOut, Queueing, Granting, MarkPC
  <2>2. Cardinality(Given') = Cardinality(Given) - 1 /\ Cardinality(Given) \in Nat
    <3>1. IsFiniteSet(Given) /\ Cardinality(Given) \in Nat
      BY TasksFinite DEF Given
    <3>2. QED
      BY <1>7, <3>1, FS_RemoveElement
  <2>3. count.readers \in Int /\ count' = count
    BY <1>1 DEF WordType
  <2>4. count'.readers = count.readers + Own(t)' - Own(t) + Cardinality(Given') - Cardinality(Given)
    BY <2>1, <2>2, <2>3
  <2>5. count'.readers = Biased'
    BY <1>3, <2>4, OwnMove
  <2>6. QED
    BY <1>12, <1>13, <2>3, <2>5 DEF Word
<1>15. Exclusion'
  BY <1>13 DEF Exclusion
<1>16. GrantedAreWoken'
  BY <1>2, <1>3, WokenStep DEF TypeOK
<1>17. Admitted(t)
  BY <1>12 DEF Admitted
<1>18. QED
  BY <1>2, <1>3, <1>9, <1>10, <1>11, <1>14, <1>15, <1>16, <1>17

\* A reader that found the queue empty owns the lock with the bias it has; any
\* other queues itself behind the rest.
LEMMA ReadLockInv ==
  ASSUME IInv, NEW t \in Tasks, ReadLock(t)
  PROVE  IInv' /\ Frame(t) /\ Admitted(t)
<1> USE DEF IInv
<1>1. pc \in [Tasks -> PCs] /\ local \in [Tasks -> LocalType] /\ count \in WordType
  BY StepTypes
<1>2. wait_list \in Seq(WaiterType) /\ ReadWaiter(t) \in WaiterType
  BY DEF TypeOK, ReadWaiter, WaiterType
<1>3. LocalsOf(t) /\ FirstOf(t) /\ pc[t] = "r_lock"
  BY DEF Locals, Firsts, ReadLock
<1>4. local[t].wlist = {} /\ local[t].ret = "out" /\ local[t].wstate = "NOT_FIRST"
  BY <1>1, <1>3 DEF LocalsOf, FirstOf, QueuedWriter, Marking, MarkPC
<1>5. /\ wait_lock = None /\ count' = count /\ granted' = granted
      /\ wake_q' = wake_q /\ state' = state /\ sig' = sig
  BY DEF ReadLock
<1>6. ~QueuedReader(t) /\ ~QueuedWriter(t)
  BY <1>3 DEF QueuedReader, QueuedWriter, Marking, MarkPC
<1>7. CASE list_empty(wait_list) /\ local[t].bias = 1 /\ ~HandoffMask(count)
  <2>1. Finish(t, "r_held") /\ wait_list' = wait_list /\ wait_lock' = wait_lock
    BY <1>7 DEF ReadLock
  <2>2. /\ pc'[t] = "r_held" /\ local'[t].wlist = {} /\ local'[t].ret = "out"
        /\ local'[t].bias = 0 /\ local'[t].wstate = "NOT_FIRST"
        /\ local'[t].wake_type = "ANY"
    BY <1>1, <2>1, FinishFields
  <2>3. TypeOK'
    <3>1. pc' \in [Tasks -> PCs]
      BY <1>1, <2>1 DEF Finish, Goto, PCs
    <3>2. LocalChange(t)
      BY <2>1 DEF Finish, LocalChange
    <3>3. QED
      BY <1>1, <1>5, <2>1, <3>1, <3>2, LocalChanges DEF TypeOK
  <2>4. Frame(t)
    BY <1>1, <2>1 DEF Finish, Goto, Frame
  <2>5. Quiet(t)
    BY <1>3, <1>4, <1>5, <1>6, <2>1, <2>2
       DEF Quiet, QueuedReader, QueuedWriter, Marking, MarkPC, LockedPC
  <2>6. LocalsOf(t)' /\ FirstOf(t)' /\ ~AwaitsHandoff(t)'
    BY <2>2 DEF LocalsOf, FirstOf, AwaitsHandoff
  <2>7. Own(t)' = 1 /\ Own(t) = 1 /\ t \notin Writing /\ t \notin Writing'
    BY <1>3, <1>7, <2>2 DEF Own, One, Reading, Writing, BackingOut, Queueing, Granting, MarkPC
  <2>8. /\ count'.readers = count.readers + Own(t)' - Own(t)
        /\ count'.writer = count.writer - One(t \in Writing) + One(t \in Writing')
    BY <1>1, <1>5, <2>7 DEF WordType, One
  <2>9. Admitted(t)
    BY <1>7, <2>7 DEF Admitted, HandoffMask
  <2>10. QED
    BY <1>5, <2>2, <2>3, <2>4, <2>5, <2>6, <2>8, <2>9, QuietInv
<1>8. CASE ~(list_empty(wait_list) /\ local[t].bias = 1 /\ ~HandoffMask(count))
  <2>1. /\ wait_list' = list_add_tail(wait_list, ReadWaiter(t))
        /\ wait_lock' = t /\ Goto(t, "r_add") /\ local' = local
    BY <1>8 DEF ReadLock, ReadWaiter
  <2>2. pc'[t] = "r_add" /\ Frame(t) /\ \A u \in Tasks : local'[u] = local[u]
    BY <1>1, <2>1 DEF Goto, Frame
  <2>3. ReadWaiter(t) \notin Linked(wait_list) /\ NoDup(wait_list) /\ t \notin Given
    BY <1>6 DEF Queue
  <2>4. /\ wait_list' \in Seq(WaiterType) /\ NoDup(wait_list')
        /\ Linked(wait_list') = Linked(wait_list) \cup {ReadWaiter(t)}
    BY <1>2, <2>1, <2>3, ListAddTail
  <2>5. TypeOK'
    <3>1. pc' \in [Tasks -> PCs]
      BY <1>1, <2>1 DEF Goto, PCs, ReadPC
    <3>2. QED
      BY <1>1, <1>5, <2>1, <2>4, <3>1 DEF TypeOK
  <2>6. \A u \in Tasks \ {t} : pc[u] \notin LockedPC /\ pc'[u] = pc[u]
    BY <1>5, <2>2, LockFree, OthersSame
  <2>7. Given' = Given
    BY <1>5, <2>2 DEF Given
  <2>8. QueuedReader(t)' /\ ~QueuedWriter(t)'
    BY <2>2 DEF QueuedReader, QueuedWriter, Marking, MarkPC
  <2>9. Queue'
    <3>1. \A u \in Tasks \ {t} : /\ QueuedReader(u)' <=> QueuedReader(u)
                                 /\ QueuedWriter(u)' <=> QueuedWriter(u)
      BY <2>2, OthersSame
    <3>2. \A u \in Tasks : /\ ReadWaiter(u) = ReadWaiter(t) => u = t
                           /\ WriteWaiter(u) # ReadWaiter(t)
      BY DEF ReadWaiter, WriteWaiter
    <3>3. ASSUME NEW u \in Tasks
          PROVE  /\ ReadWaiter(u) \in Linked(wait_list') <=> QueuedReader(u)' /\ u \notin Given
                 /\ WriteWaiter(u) \in Linked(wait_list') <=> QueuedWriter(u)'
                 /\ u \in Given => QueuedReader(u)' /\ pc'[u] # "r_add"
      BY <1>6, <2>3, <2>4, <2>6, <2>8, <3>1, <3>2 DEF Queue, LockedPC
    <3>4. \A u \in Tasks : pc'[u] \notin {"w_empty", "m_adjust"}
      BY <2>2, <2>6 DEF LockedPC
    <3>5. QED
      BY <1>5, <2>2, <2>4, <2>7, <3>3, <3>4 DEF Queue, ReadWaiter, WriteWaiter
  <2>10. LockHeld'
    BY <2>1, <2>6 DEF LockHeld
  <2>11. WaitersBit'
    <3>1. \A u \in Tasks : pc[u] \notin {"r_add", "w_empty"} /\ pc'[u] # "w_empty"
      BY <1>3, <2>2, <2>6 DEF LockedPC
    <3>2. /\ Len(wait_list') = Len(wait_list) + 1 /\ wait_list' # <<>>
          /\ Len(wait_list) = 0 <=> wait_list = <<>>
      BY <1>2, <2>1 DEF list_add_tail
    <3>3. Len(wait_list) \in Nat
      BY <1>2
    <3>4. QED
      BY <1>5, <2>2, <3>1, <3>2, <3>3 DEF WaitersBit
  <2>12. LocalsOf(t)' /\ FirstOf(t)' /\ ~AwaitsHandoff(t)'
    BY <1>4, <2>2 DEF LocalsOf, FirstOf, AwaitsHandoff, Marking, MarkPC
  <2>13. HandoffBit'
    BY <1>5, <2>2, <2>12, HandoffStep
  <2>14. \A u \in Tasks \ {t} : QueuedWriter(u) => list_first_entry(wait_list') = list_first_entry(wait_list)
    <3>1. ASSUME NEW u \in Tasks, QueuedWriter(u) PROVE wait_list # <<>>
      BY <1>2, <3>1, ListEmpty DEF Queue
    <3>2. QED
      BY <1>2, <2>1, <3>1, ListFirst
  <2>15. Own(t)' = Own(t) /\ t \notin Writing /\ t \notin Writing' /\ t \notin Reading'
    BY <1>3, <2>2 DEF Own, One, Reading, Writing, BackingOut, Queueing, Granting, MarkPC
  <2>16. /\ count'.readers = count.readers + Own(t)' - Own(t)
         /\ count'.writer = count.writer - One(t \in Writing) + One(t \in Writing')
    <3>1. Own(t) \in Int
      BY DEF Own, One
    <3>2. QED
      BY <1>1, <1>5, <2>15, <3>1 DEF WordType, One
  <2>17. Admitted(t)
    BY <2>15 DEF Admitted
  <2>18. QED
    BY <1>5, <2>2, <2>5, <2>7, <2>9, <2>10, <2>11, <2>12, <2>13, <2>14, <2>16, <2>17, StepInv
<1>9. QED
  BY <1>7, <1>8

\* A queued reader takes its own bias back, and marks the queue as not empty
\* when it is the first on it.
LEMMA ReadAddInv ==
  ASSUME IInv, NEW t \in Tasks, ReadAdd(t)
  PROVE  IInv' /\ Frame(t) /\ Admitted(t)
<1> USE DEF IInv
<1>1. pc \in [Tasks -> PCs] /\ local \in [Tasks -> LocalType] /\ count \in WordType
  BY StepTypes
<1>2. wait_list \in Seq(WaiterType)
  BY DEF TypeOK
<1>3. LocalsOf(t) /\ FirstOf(t) /\ pc[t] = "r_add"
  BY DEF Locals, Firsts, ReadAdd
<1>4. local[t].wlist = {} /\ local[t].ret = "out" /\ local[t].wstate = "NOT_FIRST"
  BY <1>1, <1>3 DEF LocalsOf, FirstOf, QueuedWriter, Marking, MarkPC
<1>5. /\ wait_list' = wait_list /\ granted' = granted
      /\ wake_q' = wake_q /\ state' = state /\ sig' = sig
  BY DEF ReadAdd
<1>6. QueuedReader(t) /\ ~QueuedWriter(t) /\ t \notin Given
  BY <1>3 DEF QueuedReader, QueuedWriter, Marking, MarkPC, Queue
<1>7. wait_lock = t
  BY <1>3 DEF LockHeld, LockedPC
<1>8. wait_list # <<>>
  BY <1>2, <1>6, ListEmpty DEF Queue
<1>9. /\ \/ /\ local' = [local EXCEPT ![t].bias = 0, ![t].wake_type = "ANY", ![t].ret = "r_wait"]
            /\ Goto(t, "m_first") /\ wait_lock' = t
         \/ local' = [local EXCEPT ![t].bias = 0] /\ Goto(t, "r_wait") /\ wait_lock' = None
      /\ count' = [count EXCEPT !.readers = @ - local[t].bias,
                                !.waiters = IF Len(wait_list) = 1 THEN @ + 1 ELSE @]
  BY <1>7 DEF ReadAdd
<1>10. local[t].bias \in {0, 1}
  BY <1>1 DEF LocalType
<1>11. /\ count' \in WordType /\ count'.readers = count.readers - local[t].bias
       /\ count'.writer = count.writer /\ count'.handoff = count.handoff
       /\ count'.waiters = IF Len(wait_list) = 1 THEN count.waiters + 1 ELSE count.waiters
  <2> DEFINE x == count.readers - local[t].bias
             y == IF Len(wait_list) = 1 THEN count.waiters + 1 ELSE count.waiters
  <2>1. x \in Int /\ y \in Int
    BY <1>1, <1>10 DEF WordType
  <2>2. count' = [count EXCEPT !.readers = x, !.waiters = y]
    BY <1>9
  <2> HIDE DEF x, y
  <2>3. /\ count' \in WordType /\ count'.readers = x /\ count'.waiters = y
        /\ count'.writer = count.writer /\ count'.handoff = count.handoff
    BY <1>1, <2>1, <2>2 DEF WordType
  <2>4. QED
    BY <2>3 DEF x, y
<1>12. LocalChange(t) /\ pc' \in [Tasks -> PCs] /\ wait_lock' \in Tasks \cup {None}
  BY <1>1, <1>9 DEF LocalChange, Goto, PCs, ReadPC, MarkPC
<1>13. TypeOK'
  BY <1>1, <1>2, <1>5, <1>11, <1>12, LocalChanges DEF TypeOK
<1>14. Frame(t)
  BY <1>1, <1>9, <1>12, LocalChanges DEF Frame, Goto
<1>15. /\ \/ pc'[t] = "m_first" /\ local'[t].ret = "r_wait" /\ local'[t].wake_type = "ANY"
          \/ pc'[t] = "r_wait" /\ local'[t].ret = local[t].ret
       /\ local'[t].bias = 0 /\ local'[t].wstate = local[t].wstate
       /\ local'[t].wlist = local[t].wlist
  BY <1>1, <1>9 DEF Goto, LocalType
<1>16. LocalsOf(t)' /\ FirstOf(t)' /\ ~AwaitsHandoff(t)' /\ QueuedReader(t)' /\ ~QueuedWriter(t)'
  BY <1>4, <1>15 DEF LocalsOf, FirstOf, AwaitsHandoff, QueuedReader, QueuedWriter, Marking,
     MarkPC
<1>17. \A u \in Tasks \ {t} : pc[u] \notin LockedPC /\ pc'[u] = pc[u]
  BY <1>7, <1>14, LockFree, OthersSame
<1>18. \A u \in Tasks : pc'[u] \notin LockedPC
  BY <1>15, <1>17 DEF LockedPC
<1>19. Given' = Given
  BY <1>5, <1>14, <1>15, QuietGiven
<1>20. Queue'
  <2>1. \A u \in Tasks : /\ QueuedReader(u)' <=> QueuedReader(u)
                         /\ QueuedWriter(u)' <=> QueuedWriter(u)
                         /\ local'[u].wlist = local[u].wlist
    BY <1>6, <1>14, <1>15, <1>16, OthersSame
  <2>2. QED
    BY <1>5, <1>18, <1>19, <2>1 DEF Queue, ReadWaiter, WriteWaiter, LockedPC
<1>21. LockHeld'
  BY <1>18 DEF LockHeld
<1>22. WaitersBit'
  <2>1. \A u \in Tasks : pc[u] # "w_empty" /\ pc'[u] # "w_empty" /\ pc'[u] # "r_add"
    BY <1>3, <1>17, <1>18 DEF LockedPC
  <2>2. count.waiters = IF Len(wait_list) = 1 THEN 0 ELSE 1
    BY <1>3, <1>8, <2>1 DEF WaitersBit
  <2>3. count'.waiters = 1
    BY <1>11, <2>2
  <2>4. QED
    BY <1>5, <1>8, <2>1, <2>3 DEF WaitersBit
<1>23. HandoffBit'
  BY <1>11, <1>14, <1>16, HandoffStep
<1>24. Own(t)' = 0 /\ Own(t) = local[t].bias /\ t \notin Writing /\ t \notin Writing' /\ t \notin Reading'
  BY <1>3, <1>4, <1>10, <1>15 DEF Own, One, Reading, Writing, BackingOut, Queueing, Granting,
     MarkPC
<1>25. /\ count'.readers = count.readers + Own(t)' - Own(t)
       /\ count'.writer = count.writer - One(t \in Writing) + One(t \in Writing')
  BY <1>1, <1>10, <1>11, <1>24 DEF WordType, One
<1>26. Admitted(t)
  BY <1>24 DEF Admitted
<1>27. QED
  BY <1>5, <1>13, <1>14, <1>15, <1>16, <1>19, <1>20, <1>21, <1>22, <1>23, <1>25, <1>26, StepInv

\* A waiter that unlinks itself leaves the others where they are.
LEMMA LeaveQueue ==
  ASSUME NEW t \in Tasks, Frame(t), Queue, LockHeld, wait_list \in Seq(WaiterType),
         wait_lock \in {None, t}, pc[t] \notin LockedPC,
         NEW w \in Linked(wait_list), w.task = t, w \in {ReadWaiter(t), WriteWaiter(t)},
         wait_list' = list_del(wait_list, w), granted' = granted,
         local[t].wlist = {}, local'[t].wlist = {},
         ~QueuedReader(t)', ~QueuedWriter(t)', t \notin Given,
         pc'[t] # "m_adjust", pc'[t] = "w_empty" => wait_list' = <<>>
  PROVE  /\ Queue' /\ Given' = Given /\ wait_list' \in Seq(WaiterType)
         /\ wait_list # <<>> /\ Linked(wait_list') = Linked(wait_list) \ {w}
         /\ Len(wait_list) = 1 <=> wait_list' = <<>>
         /\ \A u \in Tasks \ {t} : list_first_entry(wait_list).task = u =>
              list_first_entry(wait_list').task = u
<1>1. /\ wait_list' \in Seq(WaiterType) /\ NoDup(wait_list')
      /\ Linked(wait_list') = Linked(wait_list) \ {w}
      /\ list_first_entry(wait_list) # w =>
           list_first_entry(wait_list') = list_first_entry(wait_list)
  BY ListDel DEF Queue
<1>2. Given' = Given
  BY QuietGiven
<1>3. \A u \in Tasks \ {t} : /\ QueuedReader(u)' <=> QueuedReader(u)
                             /\ QueuedWriter(u)' <=> QueuedWriter(u)
                             /\ pc'[u] = pc[u] /\ pc[u] \notin LockedPC
  BY LockFree, OthersSame
<1>4. ~(QueuedReader(t) /\ QueuedWriter(t))
  BY DEF QueuedReader, QueuedWriter, Marking, MarkPC
<1>5. ~(ReadWaiter(t) \in Linked(wait_list') \/ WriteWaiter(t) \in Linked(wait_list'))
  BY <1>1, <1>4 DEF Queue
<1>6. \A u \in Tasks \ {t} : w # ReadWaiter(u) /\ w # WriteWaiter(u)
  BY DEF ReadWaiter, WriteWaiter
<1>7. ASSUME NEW u \in Tasks
      PROVE  /\ ReadWaiter(u) \in Linked(wait_list') <=> QueuedReader(u)' /\ u \notin Given
             /\ WriteWaiter(u) \in Linked(wait_list') <=> QueuedWriter(u)'
             /\ u \in Given => QueuedReader(u)' /\ pc'[u] # "r_add"
  <2>1. CASE u = t
    BY <1>5, <2>1
  <2>2. CASE u # t
    BY <1>1, <1>3, <1>6, <2>2 DEF Queue
  <2>3. QED
    BY <2>1, <2>2
<1>8. \A u \in Tasks : /\ pc'[u] = "w_empty" => wait_list' = <<>>
                       /\ pc'[u] # "m_adjust"
  BY <1>3 DEF LockedPC
<1>9. \A u \in Tasks : local'[u].wlist = local[u].wlist
  BY OthersSame
<1>10. Queue'
  BY <1>1, <1>2, <1>7, <1>8, <1>9 DEF Queue, ReadWaiter, WriteWaiter
<1>11. wait_list # <<>>
  BY ListEmpty
<1>12. Len(wait_list) = 1 <=> wait_list' = <<>>
  <2>1. Len(wait_list) = 1 <=> Linked(wait_list) = {w}
    BY ListSingle DEF Queue
  <2>2. wait_list' = <<>> <=> Linked(wait_list') = {}
    BY <1>1, ListEmpty
  <2>3. QED
    BY <1>1, <2>1, <2>2
<1>13. QED
  BY <1>1, <1>2, <1>10, <1>11, <1>12

\* A reader owns the lock that was granted to it, or goes to sleep, or finds a
\* signal.
LEMMA ReadWaitInv ==
  ASSUME IInv, NEW t \in Tasks, ReadWait(t)
  PROVE  IInv' /\ Frame(t) /\ Admitted(t)
<1> USE DEF IInv
<1>1. pc \in [Tasks -> PCs] /\ local \in [Tasks -> LocalType] /\ count \in WordType
  BY StepTypes
<1>2. CASE t \in granted
  BY <1>2, TakeGrant DEF ReadWait
<1>3. CASE t \notin granted
  <2>1. /\ pc[t] = "r_wait" /\ local' = local /\ granted' = granted
        /\ state' = [state EXCEPT ![t] = local[t].mode]
        /\ \E l \in {"r_sig", "r_sched"} : Goto(t, l)
        /\ UNCHANGED <<count, wait_list, wait_lock, wake_q, sig>>
    BY <1>3 DEF ReadWait
  <2>2. /\ pc'[t] \in {"r_sig", "r_sched"} /\ pc' \in [Tasks -> PCs] /\ Frame(t)
        /\ local'[t] = local[t]
    BY <1>1, <2>1 DEF Goto, Frame, PCs, ReadPC
  <2>3. TypeOK'
    <3>1. local[t].mode \in TaskStates
      BY <1>1, Types DEF LocalType
    <3>2. QED
      BY <1>1, <2>1, <2>2, <3>1 DEF TypeOK
  <2>4. LocalsOf(t) /\ FirstOf(t)
    BY DEF Locals, Firsts
  <2>5. Quiet(t)
    BY <2>1, <2>2 DEF Quiet, QueuedReader, QueuedWriter, Marking, MarkPC, LockedPC
  <2>6. LocalsOf(t)' /\ FirstOf(t)' /\ ~AwaitsHandoff(t)'
    BY <2>1, <2>2, <2>4 DEF LocalsOf, FirstOf, AwaitsHandoff, QueuedWriter, Marking, MarkPC
  <2>7. Own(t)' = 0 /\ Own(t) = 0 /\ t \notin Writing /\ t \notin Writing' /\ t \notin Reading'
    BY <2>1, <2>2 DEF Own, One, Reading, Writing, BackingOut, Queueing, Granting, MarkPC
  <2>8. /\ count'.readers = count.readers + Own(t)' - Own(t)
        /\ count'.writer = count.writer - One(t \in Writing) + One(t \in Writing')
    BY <1>1, <2>1, <2>7 DEF WordType, One
  <2>9. Admitted(t)
    BY <2>7 DEF Admitted
  <2>10. \A u \in Tasks \ {t} : state'[u] = state[u]
    BY <2>1 DEF TypeOK
  <2>11. QED
    BY <1>3, <2>1, <2>2, <2>3, <2>5, <2>6, <2>8, <2>9, <2>10, QuietInv
<1>4. QED
  BY <1>2, <1>3

\* An interrupted reader that was not granted the lock meanwhile leaves the
\* queue, and clears the bits when it was the last.
LEMMA ReadSignalInv ==
  ASSUME IInv, NEW t \in Tasks, ReadSignal(t)
  PROVE  IInv' /\ Frame(t) /\ Admitted(t)
<1> USE DEF IInv
<1>1. pc \in [Tasks -> PCs] /\ local \in [Tasks -> LocalType] /\ count \in WordType
  BY StepTypes
<1>2. CASE t \in granted
  BY <1>2, TakeGrant DEF ReadSignal
<1>3. CASE t \notin granted
  <2>1. /\ pc[t] = "r_sig" /\ wait_lock = None /\ Finish(t, "out") /\ granted' = granted
        /\ state' = [state EXCEPT ![t] = TASK_RUNNING]
        /\ wait_list' = list_del(wait_list, ReadWaiter(t))
        /\ count' = IF wait_list' = <<>>
                    THEN [count EXCEPT !.waiters = 0, !.handoff = 0] ELSE count
        /\ UNCHANGED <<wait_lock, wake_q, sig>>
    BY <1>3 DEF ReadSignal, ReadWaiter, list_empty
  <2>2. /\ pc'[t] = "out" /\ local'[t].wlist = {} /\ local'[t].ret = "out"
        /\ local'[t].bias = 0 /\ local'[t].wstate = "NOT_FIRST"
        /\ local'[t].wake_type = "ANY"
    BY <1>1, <2>1, FinishFields
  <2>3. Frame(t)
    BY <1>1, <2>1 DEF Finish, Goto, Frame
  <2>4. LocalsOf(t)
    BY DEF Locals
  <2>5. local[t].wlist = {}
    BY <2>1, <2>4 DEF LocalsOf
  <2>6. t \notin Given
    <3>1. \A u \in Tasks : pc[u] # "m_grant"
      BY <2>1, RwsemAssumption DEF LockHeld, LockedPC
    <3>2. \A u \in Tasks : local[u].wlist = {}
      BY <3>1 DEF Locals, LocalsOf
    <3>3. QED
      BY <1>3, <3>2 DEF Given
  <2>7. QueuedReader(t) /\ ~QueuedReader(t)' /\ ~QueuedWriter(t)'
    BY <2>1, <2>2 DEF QueuedReader, QueuedWriter, Marking, MarkPC
  <2>8. ReadWaiter(t) \in Linked(wait_list) /\ ReadWaiter(t).task = t
    BY <2>6, <2>7 DEF Queue, ReadWaiter
  <2>9. /\ Queue' /\ Given' = Given /\ wait_list' \in Seq(WaiterType)
        /\ wait_list # <<>> /\ Linked(wait_list') = Linked(wait_list) \ {ReadWaiter(t)}
        /\ \A u \in Tasks \ {t} : list_first_entry(wait_list).task = u =>
             list_first_entry(wait_list').task = u
    <3>1. wait_list \in Seq(WaiterType)
      BY DEF TypeOK
    <3>2. pc[t] \notin LockedPC /\ pc'[t] \notin LockedPC
      BY <2>1, <2>2 DEF LockedPC
    <3>3. QED
      BY <2>1, <2>3, <2>5, <2>2, <2>6, <2>7, <2>8, <3>1, <3>2, LeaveQueue DEF LockedPC
  <2>10. /\ count' \in WordType /\ count'.writer = count.writer /\ count'.readers = count.readers
         /\ wait_list' = <<>> => count'.waiters = 0 /\ count'.handoff = 0
         /\ wait_list' = <<>> \/ count' = count
    <3>1. CASE wait_list' = <<>>
      <4>1. count' = [count EXCEPT !.waiters = 0, !.handoff = 0]
        BY <2>1, <3>1
      <4>2. count' \in WordType
        <5>1. 0 \in Int
          OBVIOUS
        <5>2. [count EXCEPT !.waiters = 0, !.handoff = 0] \in WordType
          BY <1>1, <5>1, WordUpdates, Zenon
        <5>3. QED
          BY <4>1, <5>2, Zenon
      <4>3. /\ count'.writer = count.writer /\ count'.readers = count.readers
            /\ count'.waiters = 0 /\ count'.handoff = 0
        BY <1>1, <4>1 DEF WordType
      <4>4. QED
        BY <3>1, <4>2, <4>3
    <3>2. CASE wait_list' # <<>>
      <4>1. count' = count
        BY <2>1, <3>2
      <4>2. QED
        BY <1>1, <3>2, <4>1
    <3>3. QED
      BY <3>1, <3>2
  <2>11. TypeOK'
    <3>1. pc' \in [Tasks -> PCs]
      BY <1>1, <2>1 DEF Finish, Goto, PCs
    <3>2. LocalChange(t)
      BY <2>1 DEF Finish, LocalChange
    <3>3. QED
      BY <1>1, <2>1, <2>9, <2>10, <3>1, <3>2, Types, LocalChanges DEF TypeOK
  <2>12. \A u \in Tasks : pc'[u] \notin LockedPC /\ pc[u] \notin LockedPC
    BY <2>1, <2>2, <2>3, LockFree, OthersSame DEF LockedPC
  <2>13. LockHeld'
    BY <2>12 DEF LockHeld
  <2>14. WaitersBit'
    BY <2>9, <2>10, <2>12 DEF WaitersBit, LockedPC
  <2>15. LocalsOf(t)' /\ FirstOf(t)' /\ ~AwaitsHandoff(t)'
    BY <2>2 DEF LocalsOf, FirstOf, AwaitsHandoff, Marking, MarkPC
  <2>16. HandoffBit'
    <3>1. ASSUME NEW u \in Tasks, AwaitsHandoff(u)' PROVE wait_list' # <<>> /\ count.handoff = 1
      <4>1. u # t /\ AwaitsHandoff(u)
        BY <2>3, <2>15, <3>1, OthersSame
      <4>2. QueuedWriter(u)'
        BY <3>1 DEF AwaitsHandoff, QueuedWriter
      <4>3. Linked(wait_list') # {}
        BY <2>9, <4>2 DEF Queue
      <4>4. QED
        BY <2>9, <4>1, <4>3, ListEmpty DEF HandoffBit
    <3>2. QED
      BY <2>10, <3>1 DEF HandoffBit
  <2>17. Own(t)' = 0 /\ Own(t) = 0 /\ t \notin Writing /\ t \notin Writing' /\ t \notin Reading'
    BY <2>1, <2>2 DEF Own, One, Reading, Writing, BackingOut, Queueing, Granting, MarkPC
  <2>18. /\ count'.readers = count.readers + Own(t)' - Own(t)
         /\ count'.writer = count.writer - One(t \in Writing) + One(t \in Writing')
    BY <1>1, <2>10, <2>17 DEF WordType, One
  <2>19. Admitted(t)
    BY <2>17 DEF Admitted
  <2>20. \A u \in Tasks \ {t} : state'[u] = state[u] /\ sig'[u] = sig[u]
    BY <2>1 DEF TypeOK
  <2>21. QED
    BY <2>1, <2>2, <2>3, <2>9, <2>11, <2>13, <2>14, <2>15, <2>16, <2>18, <2>19, <2>20, StepInv
<1>4. QED
  BY <1>2, <1>3

\* A writer queues itself behind the others; the first knows that it is.
LEMMA WriteLockInv ==
  ASSUME IInv, NEW t \in Tasks, WriteLock(t)
  PROVE  IInv' /\ Frame(t) /\ Admitted(t)
<1> USE DEF IInv
<1>1. pc \in [Tasks -> PCs] /\ local \in [Tasks -> LocalType] /\ count \in WordType
  BY StepTypes
<1>2. wait_list \in Seq(WaiterType) /\ WriteWaiter(t) \in WaiterType
  BY DEF TypeOK, WriteWaiter, WaiterType
<1>3. LocalsOf(t) /\ FirstOf(t) /\ pc[t] = "w_lock"
  BY DEF Locals, Firsts, WriteLock
<1>4. local[t].wlist = {} /\ local[t].ret = "out" /\ local[t].wstate = "NOT_FIRST"
  BY <1>1, <1>3 DEF LocalsOf, FirstOf, QueuedWriter, Marking, MarkPC
<1>5. /\ wait_lock = None /\ wait_lock' = t /\ granted' = granted
      /\ wait_list' = list_add_tail(wait_list, WriteWaiter(t))
      /\ wake_q' = wake_q /\ state' = state /\ sig' = sig
  BY DEF WriteLock, WriteWaiter
<1>6. ~QueuedReader(t) /\ ~QueuedWriter(t)
  BY <1>3 DEF QueuedReader, QueuedWriter, Marking, MarkPC
<1>7. \/ /\ wait_list = <<>> /\ count' = [count EXCEPT !.waiters = 1]
         /\ local' = [local EXCEPT ![t].wstate = "FIRST"] /\ Goto(t, "w_try")
      \/ /\ wait_list # <<>> /\ count' = count /\ local' = local /\ Goto(t, "w_try")
      \/ /\ wait_list # <<>> /\ count' = count
         /\ \E w \in {"READERS", "ANY"} : mark_wake(t, w, "w_try")
  BY DEF WriteLock, list_empty
<1>8. /\ pc'[t] \in {"w_try", "m_first"}
      /\ pc'[t] = "m_first" => /\ local'[t].ret = "w_try"
                               /\ local'[t].wake_type \in {"READERS", "ANY"}
      /\ pc'[t] = "w_try" => local'[t].ret = local[t].ret
      /\ local'[t].wlist = local[t].wlist
  BY <1>1, <1>7 DEF Goto, mark_wake, LocalType
<1>9. /\ local'[t].wstate # "HANDOFF"
      /\ local'[t].wstate # "NOT_FIRST" => wait_list = <<>>
  BY <1>1, <1>4, <1>7 DEF mark_wake, LocalType
<1>10. /\ count' \in WordType /\ count'.writer = count.writer /\ count'.readers = count.readers
       /\ count'.handoff = count.handoff
       /\ count'.waiters = IF wait_list = <<>> THEN 1 ELSE count.waiters
  <2>1. CASE wait_list = <<>> /\ count' = [count EXCEPT !.waiters = 1]
    <3>1. /\ count' \in WordType /\ count'.writer = count.writer /\ count'.readers = count.readers
          /\ count'.handoff = count.handoff /\ count'.waiters = 1
      BY <1>1, <2>1 DEF WordType
    <3>2. QED
      BY <2>1, <3>1
  <2>2. CASE wait_list # <<>> /\ count' = count
    BY <1>1, <2>2
  <2>3. QED
    BY <1>7, <2>1, <2>2
<1>11. pc' \in [Tasks -> PCs] /\ LocalChange(t)
  BY <1>1, <1>7 DEF LocalChange, Goto, mark_wake, PCs, WritePC, MarkPC, WakeTypes, Returns
<1>12. Frame(t)
  BY <1>1, <1>7, <1>11, LocalChanges DEF Frame, Goto, mark_wake
<1>13. WriteWaiter(t) \notin Linked(wait_list) /\ NoDup(wait_list) /\ t \notin Given
  BY <1>6 DEF Queue
<1>14. /\ wait_list' \in Seq(WaiterType) /\ NoDup(wait_list')
       /\ Linked(wait_list') = Linked(wait_list) \cup {WriteWaiter(t)}
  BY <1>2, <1>5, <1>13, ListAddTail
<1>15. TypeOK'
  BY <1>1, <1>5, <1>10, <1>11, <1>14, LocalChanges DEF TypeOK
<1>16. \A u \in Tasks \ {t} : pc[u] \notin LockedPC /\ pc'[u] = pc[u]
  BY <1>5, <1>12, LockFree, OthersSame
<1>17. \A u \in Tasks : pc'[u] \notin LockedPC /\ pc[u] \notin LockedPC
  BY <1>3, <1>8, <1>16 DEF LockedPC
<1>18. Given' = Given
  BY <1>5, <1>8, <1>12, QuietGiven
<1>19. ~QueuedReader(t)' /\ QueuedWriter(t)'
  BY <1>4, <1>8 DEF QueuedReader, QueuedWriter, Marking, MarkPC
<1>20. Queue'
  <2>1. \A u \in Tasks \ {t} : /\ QueuedReader(u)' <=> QueuedReader(u)
                               /\ QueuedWriter(u)' <=> QueuedWriter(u)
    BY <1>12, OthersSame
  <2>2. \A u \in Tasks : /\ WriteWaiter(u) = WriteWaiter(t) => u = t
                         /\ ReadWaiter(u) # WriteWaiter(t)
    BY DEF ReadWaiter, WriteWaiter
  <2>3. ASSUME NEW u \in Tasks
        PROVE  /\ ReadWaiter(u) \in Linked(wait_list') <=> QueuedReader(u)' /\ u \notin Given
               /\ WriteWaiter(u) \in Linked(wait_list') <=> QueuedWriter(u)'
               /\ u \in Given => QueuedReader(u)' /\ pc'[u] # "r_add"
    BY <1>6, <1>13, <1>14, <1>17, <1>19, <2>1, <2>2 DEF Queue, LockedPC
  <2>4. \A u \in Tasks : local'[u].wlist = local[u].wlist
    BY <1>8, <1>12, OthersSame
  <2>5. QED
    BY <1>5, <1>14, <1>17, <1>18, <2>3, <2>4 DEF Queue, ReadWaiter, WriteWaiter, LockedPC
<1>21. LockHeld'
  BY <1>17 DEF LockHeld
<1>22. WaitersBit'
  <2>1. wait_list' # <<>>
    BY <1>2, <1>5 DEF list_add_tail
  <2>2. QED
    BY <1>10, <1>17, <2>1 DEF WaitersBit, LockedPC
<1>23. LocalsOf(t)' /\ ~AwaitsHandoff(t)'
  BY <1>4, <1>8 DEF LocalsOf, AwaitsHandoff, Marking, MarkPC
<1>24. FirstOf(t)'
  <2>1. wait_list = <<>> => list_first_entry(wait_list').task = t
    <3>1. wait_list = <<>> => wait_list' = <<WriteWaiter(t)>>
      BY <1>5 DEF list_add_tail
    <3>2. QED
      BY <3>1 DEF list_first_entry, WriteWaiter
  <2>2. QED
    BY <1>9, <1>19, <2>1 DEF FirstOf
<1>25. HandoffBit'
  BY <1>10, <1>12, <1>23, HandoffStep
<1>26. \A u \in Tasks \ {t} : QueuedWriter(u) => list_first_entry(wait_list') = list_first_entry(wait_list)
  <2>1. ASSUME NEW u \in Tasks, QueuedWriter(u) PROVE wait_list # <<>>
    BY <1>2, <2>1, ListEmpty DEF Queue
  <2>2. QED
    BY <1>2, <1>5, <2>1, ListFirst
<1>27. Own(t)' = 0 /\ Own(t) = 0 /\ t \notin Writing /\ t \notin Writing' /\ t \notin Reading'
  BY <1>3, <1>4, <1>8 DEF Own, One, Reading, Writing, BackingOut, Queueing, Granting, MarkPC
<1>28. /\ count'.readers = count.readers + Own(t)' - Own(t)
       /\ count'.writer = count.writer - One(t \in Writing) + One(t \in Writing')
  BY <1>1, <1>10, <1>27 DEF WordType, One
<1>29. Admitted(t)
  BY <1>27 DEF Admitted
<1>30. pc'[t] \notin {"m_adjust", "r_sched"}
  BY <1>8
<1>31. QED
  BY <1>5, <1>12, <1>15, <1>18, <1>20, <1>21, <1>22, <1>23, <1>24, <1>25, <1>26, <1>28, <1>29,
     <1>30,
     StepInv

\* A queued writer takes the free lock unless the handoff is another's, or asks
\* for the handoff when it has waited too long.
LEMMA WriteTryInv ==
  ASSUME IInv, NEW t \in Tasks, WriteTry(t)
  PROVE  IInv' /\ Frame(t) /\ Admitted(t)
<1> USE DEF IInv
<1>1. pc \in [Tasks -> PCs] /\ local \in [Tasks -> LocalType] /\ count \in WordType
  BY StepTypes
<1>2. wait_list \in Seq(WaiterType)
  BY DEF TypeOK
<1>3. LocalsOf(t) /\ FirstOf(t) /\ pc[t] \in {"w_try", "w_relock"}
  BY DEF Locals, Firsts, WriteTry
<1>4. /\ local[t].wlist = {} /\ local[t].ret = "out"
      /\ local[t].wstate # "NOT_FIRST" => list_first_entry(wait_list).task = t
  BY <1>1, <1>3 DEF LocalsOf, FirstOf, Marking, MarkPC
<1>5. /\ wait_lock \in {None, t} /\ wait_lock' = None
      /\ granted' = granted /\ wake_q' = wake_q /\ sig' = sig
  BY DEF WriteTry
<1>6. QueuedWriter(t) /\ ~QueuedReader(t)
  BY <1>3 DEF QueuedReader, QueuedWriter, Marking, MarkPC
<1>7. WriteWaiter(t) \in Linked(wait_list) /\ WriteWaiter(t).task = t /\ t \notin Given
  BY <1>6 DEF Queue, WriteWaiter
<1>8. Own(t) = 0 /\ t \notin Writing /\ t \notin Reading
  BY <1>3 DEF Own, One, Reading, Writing, BackingOut, Queueing, Granting, MarkPC
<1>9. pc[t] \notin LockedPC /\ \A u \in Tasks : pc[u] \notin LockedPC
  BY <1>3, <1>5, LockFree DEF LockedPC
<1>10. CASE takes_lock(count, local[t].wstate)
  <2>1. /\ count' = [count EXCEPT !.writer = 1, !.handoff = 0,
                                  !.waiters = IF Len(wait_list) = 1 THEN 0 ELSE @]
        /\ wait_list' = list_del(wait_list, WriteWaiter(t))
        /\ state' = [state EXCEPT ![t] = TASK_RUNNING]
        /\ Finish(t, "w_held")
    BY <1>10 DEF WriteTry, WriteWaiter
  <2>2. /\ pc'[t] = "w_held" /\ local'[t].wlist = {} /\ local'[t].ret = "out"
        /\ local'[t].bias = 0 /\ local'[t].wstate = "NOT_FIRST"
        /\ local'[t].wake_type = "ANY"
    BY <1>1, <2>1, FinishFields
  <2>3. Frame(t)
    BY <1>1, <2>1 DEF Finish, Goto, Frame
  <2>4. ~QueuedReader(t)' /\ ~QueuedWriter(t)' /\ pc'[t] \notin LockedPC
    BY <2>2 DEF QueuedReader, QueuedWriter, Marking, MarkPC, LockedPC
  <2>5. /\ Queue' /\ Given' = Given /\ wait_list' \in Seq(WaiterType)
        /\ wait_list # <<>>
        /\ Len(wait_list) = 1 <=> wait_list' = <<>>
        /\ \A u \in Tasks \ {t} : list_first_entry(wait_list).task = u =>
             list_first_entry(wait_list').task = u
    BY <1>2, <1>4, <1>5, <1>7, <1>9, <2>1, <2>2, <2>3, <2>4, LeaveQueue DEF LockedPC
  <2>6. /\ count' \in WordType /\ count'.writer = 1 /\ count'.readers = count.readers
        /\ count'.handoff = 0
        /\ count'.waiters = IF wait_list' = <<>> THEN 0 ELSE count.waiters
    <3> DEFINE x == 1
               y == 0
               z == IF wait_list' = <<>> THEN 0 ELSE count.waiters
    <3>1. x \in Int /\ y \in Int /\ z \in Int
      BY <1>1 DEF WordType
    <3>2. count' = [count EXCEPT !.writer = x, !.handoff = y, !.waiters = z]
      BY <2>1, <2>5
    <3> HIDE DEF x, y, z
    <3>3. /\ count' \in WordType /\ count'.writer = x /\ count'.readers = count.readers
          /\ count'.handoff = y /\ count'.waiters = z
      BY <1>1, <3>1, <3>2 DEF WordType
    <3>4. QED
      BY <3>3 DEF x, y, z
  <2>7. TypeOK'
    <3>1. pc' \in [Tasks -> PCs]
      BY <1>1, <2>1 DEF Finish, Goto, PCs
    <3>2. LocalChange(t)
      BY <2>1 DEF Finish, LocalChange
    <3>3. QED
      BY <1>1, <1>5, <2>1, <2>5, <2>6, <3>1, <3>2, Types, LocalChanges DEF TypeOK
  <2>8. \A u \in Tasks : pc'[u] \notin LockedPC
    BY <1>9, <2>3, <2>4, OthersSame
  <2>9. LockHeld' /\ WaitersBit'
    BY <1>9, <2>5, <2>6, <2>8 DEF LockHeld, WaitersBit, LockedPC
  <2>10. LocalsOf(t)' /\ FirstOf(t)' /\ ~AwaitsHandoff(t)'
    BY <2>2 DEF LocalsOf, FirstOf, AwaitsHandoff, Marking, MarkPC
  <2>11. HandoffBit'
    <3>1. ASSUME NEW u \in Tasks, AwaitsHandoff(u)' PROVE FALSE
      <4>1. u # t /\ AwaitsHandoff(u) /\ FirstOf(u)
        BY <2>3, <2>10, <3>1, OthersSame DEF Firsts
      <4>2. list_first_entry(wait_list).task = u
        BY <4>1 DEF FirstOf, AwaitsHandoff, Marking, MarkPC
      <4>3. count.handoff # 0
        BY <4>1 DEF HandoffBit
      <4>4. local[t].wstate # "NOT_FIRST"
        BY <1>10, <4>3 DEF takes_lock
      <4>5. QED
        BY <1>4, <4>1, <4>2, <4>4
    <3>2. QED
      BY <2>6, <3>1 DEF HandoffBit
  <2>12. Own(t)' = 0 /\ t \in Writing' /\ t \notin Reading'
    BY <2>2 DEF Own, One, Reading, Writing, BackingOut, Queueing, Granting, MarkPC
  <2>13. count.writer = 0 /\ count.readers = 0
    BY <1>10 DEF takes_lock, LockMask
  <2>14. /\ count'.readers = count.readers + Own(t)' - Own(t)
         /\ count'.writer = count.writer - One(t \in Writing) + One(t \in Writing')
    BY <1>8, <2>6, <2>12, <2>13 DEF One
  <2>15. Admitted(t)
    BY <2>12, <2>13 DEF Admitted
  <2>16. \A u \in Tasks \ {t} : state'[u] = state[u] /\ sig'[u] = sig[u]
    BY <1>5, <2>1 DEF TypeOK
  <2>17. pc'[t] \notin {"m_adjust", "r_sched"}
    BY <2>2
  <2>18. QED
    BY <1>5, <2>3, <2>5, <2>7, <2>9, <2>10, <2>11, <2>14, <2>15, <2>16, <2>17, StepInv
<1>11. CASE ~takes_lock(count, local[t].wstate)
  <2>1. /\ count' = IF sets_handoff(count, local[t].wstate)
                    THEN [count EXCEPT !.handoff = 1] ELSE count
        /\ state' = IF pc[t] = "w_try" THEN [state EXCEPT ![t] = local[t].mode] ELSE state
        /\ Goto(t, "w_fail") /\ wait_list' = wait_list /\ local' = local
    BY <1>11 DEF WriteTry
  <2>2. /\ pc'[t] = "w_fail" /\ Frame(t) /\ local'[t] = local[t]
        /\ pc' \in [Tasks -> PCs]
    BY <1>1, <2>1 DEF Goto, Frame, PCs, WritePC
  <2>3. /\ count' \in WordType /\ count'.writer = count.writer /\ count'.readers = count.readers
        /\ count'.waiters = count.waiters
        /\ count'.handoff = IF sets_handoff(count, local[t].wstate) THEN 1 ELSE count.handoff
    BY <1>1, <2>1 DEF WordType
  <2>4. TypeOK'
    <3>1. local[t].mode \in TaskStates
      BY <1>1, Types DEF LocalType
    <3>2. state' \in [Tasks -> TaskStates]
      BY <2>1, <3>1 DEF TypeOK
    <3>3. QED
      BY <1>1, <1>5, <2>1, <2>2, <2>3, <3>2 DEF TypeOK
  <2>5. QueuedWriter(t)' /\ ~QueuedReader(t)' /\ pc'[t] \notin LockedPC
    BY <2>2 DEF QueuedReader, QueuedWriter, Marking, MarkPC, LockedPC
  <2>6. Given' = Given
    BY <1>5, <2>2, QuietGiven
  <2>7. Queue' /\ LockHeld' /\ WaitersBit'
    <3>1. \A u \in Tasks : local'[u].wlist \cap granted' = {}
      BY <1>5, <2>1 DEF Queue
    <3>2. QED
      BY <1>5, <1>6, <1>9, <2>1, <2>2, <2>3, <2>5, <2>6, <3>1, SameQueue DEF LockedPC
  <2>8. LocalsOf(t)' /\ FirstOf(t)'
    BY <1>4, <2>1, <2>2, <2>5 DEF LocalsOf, FirstOf, Marking, MarkPC
  <2>9. HandoffBit'
    <3>1. AwaitsHandoff(t)' => count'.handoff = 1
      <4>1. AwaitsHandoff(t)' => local[t].wstate = "HANDOFF"
        BY <2>2 DEF AwaitsHandoff
      <4>2. count.handoff \in {0, 1}
        BY DEF HandoffBit
      <4>3. QED
        BY <1>11, <2>3, <4>1, <4>2 DEF takes_lock, sets_handoff
    <3>2. \A u \in Tasks \ {t} : AwaitsHandoff(u)' => count'.handoff = 1
      BY <2>2, <2>3, OthersSame DEF HandoffBit
    <3>3. count'.handoff \in {0, 1}
      BY <2>3 DEF HandoffBit
    <3>4. QED
      BY <3>1, <3>2, <3>3 DEF HandoffBit
  <2>10. Own(t)' = 0 /\ t \notin Writing' /\ t \notin Reading'
    BY <2>2 DEF Own, One, Reading, Writing, BackingOut, Queueing, Granting, MarkPC
  <2>11. /\ count'.readers = count.readers + Own(t)' - Own(t)
         /\ count'.writer = count.writer - One(t \in Writing) + One(t \in Writing')
    BY <1>1, <1>8, <2>3, <2>10 DEF WordType, One
  <2>12. Admitted(t)
    BY <2>10 DEF Admitted
  <2>13. \A u \in Tasks \ {t} : state'[u] = state[u] /\ sig'[u] = sig[u]
    BY <1>5, <2>1 DEF TypeOK
  <2>14. QED
    BY <1>5, <2>1, <2>2, <2>4, <2>6, <2>7, <2>8, <2>9, <2>11, <2>12, <2>13, StepInv
<1>12. QED
  BY <1>10, <1>11

\* A writer that gives up takes back the handoff it had asked for, which nobody
\* else has asked for, and leaves the queue.
LEMMA WriteNoLockInv ==
  ASSUME IInv, NEW t \in Tasks, WriteNoLock(t)
  PROVE  IInv' /\ Frame(t) /\ Admitted(t)
<1> USE DEF IInv
<1>1. pc \in [Tasks -> PCs] /\ local \in [Tasks -> LocalType] /\ count \in WordType
  BY StepTypes
<1>2. wait_list \in Seq(WaiterType)
  BY DEF TypeOK
<1>3. LocalsOf(t) /\ FirstOf(t) /\ pc[t] = "w_nolock"
  BY DEF Locals, Firsts, WriteNoLock
<1>4. /\ local[t].wlist = {} /\ local[t].ret = "out"
      /\ local[t].wstate # "NOT_FIRST" => list_first_entry(wait_list).task = t
  BY <1>1, <1>3 DEF LocalsOf, FirstOf, Marking, MarkPC
<1>5. /\ wait_lock = None /\ wait_lock' = t
      /\ granted' = granted /\ wake_q' = wake_q /\ sig' = sig
      /\ state' = [state EXCEPT ![t] = TASK_RUNNING]
      /\ wait_list' = list_del(wait_list, WriteWaiter(t))
      /\ count' = IF local[t].wstate = "HANDOFF"
                  THEN [count EXCEPT !.handoff = @ - 1] ELSE count
      /\ \/ wait_list' = <<>> /\ Goto(t, "w_empty") /\ local' = local
         \/ wait_list' # <<>> /\ mark_wake(t, "ANY", "out")
  BY DEF WriteNoLock, WriteWaiter, list_empty
<1>6. QueuedWriter(t) /\ ~QueuedReader(t)
  BY <1>3 DEF QueuedReader, QueuedWriter, Marking, MarkPC
<1>7. WriteWaiter(t) \in Linked(wait_list) /\ WriteWaiter(t).task = t /\ t \notin Given
  BY <1>6 DEF Queue, WriteWaiter
<1>8. \A u \in Tasks : pc[u] \notin LockedPC
  BY <1>3, <1>5, LockFree DEF LockedPC
<1>9. /\ \/ pc'[t] = "w_empty" /\ wait_list' = <<>> /\ local'[t].wake_type = local[t].wake_type
         \/ pc'[t] = "m_first" /\ wait_list' # <<>> /\ local'[t].wake_type = "ANY"
      /\ local'[t].wlist = {} /\ local'[t].ret = "out"
  <2>1. CASE wait_list' = <<>> /\ Goto(t, "w_empty") /\ local' = local
    BY <1>1, <1>4, <2>1 DEF Goto
  <2>2. CASE wait_list' # <<>> /\ mark_wake(t, "ANY", "out")
    BY <1>1, <1>4, <2>2, MarkWakeFields
  <2>3. QED
    BY <1>5, <2>1, <2>2
<1>10. LocalChange(t) /\ pc' \in [Tasks -> PCs]
  BY <1>1, <1>5 DEF LocalChange, Goto, mark_wake, PCs, WritePC, MarkPC, WakeTypes, Returns
<1>11. Frame(t)
  BY <1>1, <1>5, <1>10, LocalChanges DEF Frame, Goto, mark_wake
<1>12. ~QueuedReader(t)' /\ ~QueuedWriter(t)'
  BY <1>9 DEF QueuedReader, QueuedWriter, Marking, MarkPC
<1>13. /\ Queue' /\ Given' = Given /\ wait_list' \in Seq(WaiterType)
       /\ wait_list # <<>>
       /\ \A u \in Tasks \ {t} : list_first_entry(wait_list).task = u =>
            list_first_entry(wait_list').task = u
  <2>1. pc'[t] # "m_adjust" /\ (pc'[t] = "w_empty" => wait_list' = <<>>)
    BY <1>9
  <2>2. QED
    BY <1>2, <1>4, <1>5, <1>7, <1>8, <1>9, <1>11, <1>12, <2>1, LeaveQueue
<1>14. /\ count' \in WordType /\ count'.writer = count.writer /\ count'.readers = count.readers
       /\ count'.waiters = count.waiters
       /\ count'.handoff = IF local[t].wstate = "HANDOFF" THEN count.handoff - 1 ELSE count.handoff
  BY <1>1, <1>5 DEF WordType
<1>15. TypeOK'
  BY <1>1, <1>5, <1>10, <1>13, <1>14, Types, LocalChanges DEF TypeOK
<1>16. \A u \in Tasks \ {t} : pc'[u] \notin LockedPC
  BY <1>8, <1>11, OthersSame
<1>17. LockHeld'
  BY <1>5, <1>16 DEF LockHeld
<1>18. WaitersBit'
  <2>1. \A u \in Tasks : pc'[u] # "r_add"
    BY <1>9, <1>16 DEF LockedPC
  <2>2. count'.waiters = 1
    BY <1>8, <1>13, <1>14 DEF WaitersBit, LockedPC
  <2>3. wait_list' = <<>> => \E u \in Tasks : pc'[u] = "w_empty"
    BY <1>9
  <2>4. QED
    BY <2>1, <2>2, <2>3 DEF WaitersBit
<1>19. LocalsOf(t)' /\ FirstOf(t)' /\ ~AwaitsHandoff(t)'
  BY <1>9 DEF LocalsOf, FirstOf, AwaitsHandoff, Marking, MarkPC
<1>20. HandoffBit'
  <2>1. CASE local[t].wstate = "HANDOFF"
    <3>1. count.handoff = 1
      BY <1>3, <2>1 DEF HandoffBit, AwaitsHandoff
    <3>2. ASSUME NEW u \in Tasks, AwaitsHandoff(u)' PROVE FALSE
      <4>1. u # t /\ AwaitsHandoff(u) /\ FirstOf(u)
        BY <1>11, <1>19, <3>2, OthersSame DEF Firsts
      <4>2. list_first_entry(wait_list).task = u
        BY <4>1 DEF FirstOf, AwaitsHandoff, Marking, MarkPC
      <4>3. QED
        BY <1>4, <2>1, <4>1, <4>2
    <3>3. count'.handoff = 0
      BY <1>14, <2>1, <3>1
    <3>4. QED
      BY <3>2, <3>3 DEF HandoffBit
  <2>2. CASE local[t].wstate # "HANDOFF"
    BY <1>11, <1>14, <1>19, <2>2, HandoffStep
  <2>3. QED
    BY <2>1, <2>2
<1>21. /\ Own(t)' = 0 /\ Own(t) = 0 /\ t \notin Writing /\ t \notin Writing' /\ t \notin Reading'
  BY <1>3, <1>9 DEF Own, One, Reading, Writing, BackingOut, Queueing, Granting, MarkPC
<1>22. /\ count'.readers = count.readers + Own(t)' - Own(t)
       /\ count'.writer = count.writer - One(t \in Writing) + One(t \in Writing')
  BY <1>1, <1>14, <1>21 DEF WordType, One
<1>23. Admitted(t) /\ pc'[t] \notin {"m_adjust", "r_sched"}
  BY <1>9, <1>21 DEF Admitted
<1>24. \A u \in Tasks \ {t} : state'[u] = state[u] /\ sig'[u] = sig[u]
  BY <1>5 DEF TypeOK
<1>25. QED
  BY <1>5, <1>11, <1>13, <1>15, <1>17, <1>18, <1>19, <1>20, <1>22, <1>23, <1>24, StepInv

\* The last writer to give up clears the waiters bit of the empty queue.
LEMMA WriteEmptyInv ==
  ASSUME IInv, NEW t \in Tasks, WriteEmpty(t)
  PROVE  IInv' /\ Frame(t) /\ Admitted(t)
<1> USE DEF IInv
<1>1. pc \in [Tasks -> PCs] /\ local \in [Tasks -> LocalType] /\ count \in WordType
  BY StepTypes
<1>2. /\ pc[t] = "w_empty" /\ count' = [count EXCEPT !.waiters = 0] /\ wait_lock' = None
      /\ Finish(t, "out") /\ wait_list' = wait_list /\ granted' = granted
      /\ wake_q' = wake_q /\ state' = state /\ sig' = sig
  BY DEF WriteEmpty
<1>3. wait_lock = t /\ wait_list = <<>> /\ LocalsOf(t)
  BY <1>2 DEF LockHeld, LockedPC, Queue, Locals
<1>4. /\ pc'[t] = "out" /\ local'[t].wlist = {} /\ local'[t].ret = "out"
      /\ local'[t].bias = 0 /\ local'[t].wstate = "NOT_FIRST"
      /\ local'[t].wake_type = "ANY" /\ local[t].wlist = {}
  BY <1>1, <1>2, <1>3, FinishFields DEF LocalsOf
<1>5. Frame(t)
  BY <1>1, <1>2 DEF Finish, Goto, Frame
<1>6. /\ count' \in WordType /\ count'.writer = count.writer /\ count'.readers = count.readers
      /\ count'.handoff = count.handoff /\ count'.waiters = 0
  BY <1>1, <1>2 DEF WordType
<1>7. TypeOK'
  <2>1. pc' \in [Tasks -> PCs]
    BY <1>1, <1>2 DEF Finish, Goto, PCs
  <2>2. LocalChange(t)
    BY <1>2 DEF Finish, LocalChange
  <2>3. QED
    BY <1>1, <1>2, <1>6, <2>1, <2>2, LocalChanges DEF TypeOK
<1>8. \A u \in Tasks : pc'[u] \notin LockedPC
  BY <1>3, <1>4, <1>5, LockFree, OthersSame DEF LockedPC
<1>9. Given' = Given
  BY <1>2, <1>4, <1>5, QuietGiven
<1>10. Queue'
  <2>1. \A u \in Tasks : /\ QueuedReader(u)' <=> QueuedReader(u)
                         /\ QueuedWriter(u)' <=> QueuedWriter(u)
                         /\ local'[u].wlist = local[u].wlist
    <3>1. ~QueuedReader(t)' /\ ~QueuedWriter(t)' /\ ~QueuedReader(t) /\ ~QueuedWriter(t)
      BY <1>2, <1>4 DEF QueuedReader, QueuedWriter, Marking, MarkPC
    <3>2. QED
      BY <1>4, <1>5, <3>1, OthersSame
  <2>2. QED
    BY <1>2, <1>8, <1>9, <2>1 DEF Queue, ReadWaiter, WriteWaiter, LockedPC
<1>11. LockHeld' /\ WaitersBit'
  BY <1>2, <1>3, <1>6, <1>8 DEF LockHeld, WaitersBit, LockedPC
<1>12. LocalsOf(t)' /\ FirstOf(t)' /\ ~AwaitsHandoff(t)'
  BY <1>4 DEF LocalsOf, FirstOf, AwaitsHandoff, Marking, MarkPC
<1>13. HandoffBit'
  BY <1>5, <1>6, <1>12, HandoffStep
<1>14. /\ Own(t)' = 0 /\ Own(t) = 0 /\ t \notin Writing /\ t \notin Writing' /\ t \notin Reading'
  BY <1>2, <1>4 DEF Own, One, Reading, Writing, BackingOut, Queueing, Granting, MarkPC
<1>15. /\ count'.readers = count.readers + Own(t)' - Own(t)
       /\ count'.writer = count.writer - One(t \in Writing) + One(t \in Writing')
  BY <1>1, <1>6, <1>14 DEF WordType, One
<1>16. Admitted(t)
  BY <1>14 DEF Admitted
<1>17. QED
  BY <1>2, <1>4, <1>5, <1>7, <1>9, <1>10, <1>11, <1>12, <1>13, <1>15, <1>16, StepInv

\* Signals, which may wake a task up, and never put one to sleep.
LEMMA SignalInv ==
  ASSUME IInv, NEW t \in Tasks, SendSignal(t) \/ HandleSignal(t)
  PROVE  IInv' /\ Frame(t) /\ Admitted(t)
<1> USE DEF IInv
<1>1. UNCHANGED <<count, wait_list, wait_lock, pc, local, granted, wake_q>>
  BY DEF SendSignal, HandleSignal
<1>2. state \in [Tasks -> TaskStates] /\ sig \in [Tasks -> Signals]
  BY DEF TypeOK
<1>3. ASSUME NEW u \in Tasks, Asleep(u)'
      PROVE  Asleep(u)
  <2>1. CASE u # t
    <3>1. state'[u] = state[u] /\ sig'[u] = sig[u]
      BY <1>2, <2>1 DEF SendSignal, HandleSignal
    <3>2. QED
      BY <1>1, <1>3, <3>1 DEF Asleep
  <2>2. CASE u = t /\ SendSignal(t)
    <3>1. PICK s \in Kills : state' = [state EXCEPT ![t] = signal_wake_up_state(@, s)]
      BY <2>2 DEF SendSignal
    <3>2. s \in Signals
      BY RwsemAssumption
    <3>3. state'[t] \in {state[t], TASK_RUNNING} /\ sig[t] = "none"
      BY <1>2, <2>2, <3>1, <3>2, Types DEF SendSignal
    <3>4. state'[t] # TASK_RUNNING /\ pc[t] \in {"r_sched", "w_sched"}
      BY <1>1, <1>3, <2>2 DEF Asleep, schedule_returns
    <3>5. QED
      BY <2>2, <3>3, <3>4 DEF Asleep, schedule_returns, signal_pending_state
  <2>3. CASE u = t /\ HandleSignal(t)
    BY <1>1, <1>3, <2>3 DEF HandleSignal, Asleep
  <2>4. QED
    BY <2>1, <2>2, <2>3
<1>4. GrantedAreWoken'
  BY <1>1, <1>3 DEF GrantedAreWoken, TypeOK
<1>5. TypeOK'
  <2>1. state' \in [Tasks -> TaskStates] /\ sig' \in [Tasks -> Signals]
    <3>1. CASE SendSignal(t)
      <4>1. PICK s \in Kills : /\ sig' = [sig EXCEPT ![t] = s]
                               /\ state' = [state EXCEPT ![t] = signal_wake_up_state(@, s)]
        BY <3>1 DEF SendSignal
      <4>2. s \in Signals
        BY RwsemAssumption
      <4>3. signal_wake_up_state(state[t], s) \in TaskStates
        BY <1>2, <4>2, Types
      <4>4. QED
        BY <1>2, <4>1, <4>2, <4>3
    <3>2. CASE HandleSignal(t)
      BY <1>2, <3>2 DEF HandleSignal, Signals
    <3>3. QED
      BY <3>1, <3>2
  <2>2. QED
    BY <1>1, <2>1 DEF TypeOK
<1>6. Reading' = Reading /\ Writing' = Writing /\ Given' = Given /\ Frame(t)
  BY <1>1 DEF Reading, Writing, Given, Frame
<1>7. Locals' /\ Firsts' /\ LockHeld' /\ WaitersBit' /\ HandoffBit'
  BY <1>1 DEF Locals, LocalsOf, Firsts, FirstOf, QueuedWriter, Marking, LockHeld, WaitersBit,
     HandoffBit, AwaitsHandoff
<1>8. Queue'
  BY <1>1, <1>6 DEF Queue, QueuedReader, QueuedWriter, Marking
<1>9. Exclusion'
  BY <1>1, <1>6 DEF Exclusion
<1>10. Word'
  BY <1>1 DEF Word, Biased, Writing, Reading, granted_early
<1>11. Admitted(t)
  BY <1>6 DEF Admitted
<1>12. QED
  BY <1>4, <1>5, <1>6, <1>7, <1>8, <1>9, <1>10, <1>11

-----------------------------------------------------------------------------
(* rwsem_mark_wake() and wake_up_q().                                       *)

\* What the end of rwsem_mark_wake() or of wake_up_q() leaves as it was: who
\* waits, and whether the task has the lock.
MarkDone(t) ==
  /\ Frame(t) /\ LocalChange(t) /\ pc' \in [Tasks -> PCs]
  /\ pc'[t] \in {"wake", "out", "r_held", "r_wait", "w_try"}
  /\ local'[t].wlist = {}
  /\ QueuedReader(t)' <=> QueuedReader(t)
  /\ QueuedWriter(t)' <=> QueuedWriter(t)
  /\ t \in Reading' <=> t \in Reading
  /\ LocalsOf(t)' /\ FirstOf(t)'

\* Back to where the wakeup was called from.
LEMMA ReturnDone ==
  ASSUME IInv, NEW t \in Tasks, Marking(t), Return(t), wait_list' = wait_list
  PROVE  MarkDone(t)
<1>1. pc \in [Tasks -> PCs] /\ local \in [Tasks -> LocalType]
  BY StepTypes DEF IInv
<1>2. LocalsOf(t) /\ FirstOf(t)
  BY DEF IInv, Locals, Firsts
<1>3. pc[t] \in {"m_first", "m_undo", "m_adjust", "m_grant", "wake"}
  BY DEF Marking, MarkPC
<1>4. local[t].ret \in {"out", "r_held", "r_wait", "w_try"}
  BY <1>1 DEF LocalType
<1>5. CASE local[t].ret \in {"out", "r_held"}
  <2>1. Finish(t, local[t].ret)
    BY <1>5 DEF Return
  <2>2. /\ pc'[t] = local[t].ret /\ local'[t].wlist = {} /\ local'[t].ret = "out"
        /\ local'[t].bias = 0 /\ local'[t].wstate = "NOT_FIRST" /\ local'[t].wake_type = "ANY"
    BY <1>1, <2>1, FinishFields
  <2>3. Frame(t) /\ LocalChange(t) /\ pc' \in [Tasks -> PCs]
    BY <1>1, <1>5, <2>1 DEF Finish, Goto, Frame, LocalChange, PCs
  <2>4. LocalsOf(t)' /\ FirstOf(t)'
    BY <1>5, <2>2 DEF LocalsOf, FirstOf, Marking, MarkPC
  <2>5. /\ QueuedReader(t)' <=> QueuedReader(t)
        /\ QueuedWriter(t)' <=> QueuedWriter(t)
        /\ t \in Reading' <=> t \in Reading
    BY <1>3, <1>5, <2>2 DEF QueuedReader, QueuedWriter, Reading, Marking
  <2>6. QED
    BY <1>5, <2>2, <2>3, <2>4, <2>5 DEF MarkDone
<1>6. CASE local[t].ret \in {"r_wait", "w_try"}
  <2>1. /\ Goto(t, local[t].ret)
        /\ local' = [local EXCEPT ![t].wake_type = "ANY", ![t].wlist = {}, ![t].ret = "out"]
    BY <1>6 DEF Return
  <2>2. /\ pc'[t] = local[t].ret /\ local'[t].wlist = {} /\ local'[t].ret = "out"
        /\ local'[t].wstate = local[t].wstate
    BY <1>1, <2>1 DEF Goto, LocalType
  <2>3. Frame(t) /\ LocalChange(t) /\ pc' \in [Tasks -> PCs]
    BY <1>1, <1>6, <2>1 DEF Goto, Frame, LocalChange, PCs, ReadPC, WritePC
  <2>4. /\ QueuedReader(t)' <=> QueuedReader(t)
        /\ QueuedWriter(t)' <=> QueuedWriter(t)
        /\ t \in Reading' <=> t \in Reading
    BY <1>3, <1>6, <2>2 DEF QueuedReader, QueuedWriter, Reading
  <2>5. LocalsOf(t)'
    BY <1>6, <2>2 DEF LocalsOf, Marking, MarkPC
  <2>6. FirstOf(t)'
    BY <1>2, <1>3, <1>6, <2>2, <2>4 DEF FirstOf
  <2>7. QED
    BY <1>6, <2>2, <2>3, <2>4, <2>5, <2>6 DEF MarkDone
<1>7. QED
  BY <1>4, <1>5, <1>6

\* The end of rwsem_mark_wake(): wait_lock is dropped, or kept by a writer that
\* woke nobody.
LEMMA MarkedDone ==
  ASSUME IInv, NEW t \in Tasks, pc[t] \in MarkPC, Marked(t), wait_list' = wait_list
  PROVE  MarkDone(t) /\ wait_lock' \in {None, t}
<1>1. pc \in [Tasks -> PCs] /\ local \in [Tasks -> LocalType]
  BY StepTypes DEF IInv
<1>2. LocalsOf(t) /\ FirstOf(t) /\ Marking(t)
  BY DEF IInv, Locals, Firsts, Marking
<1>3. CASE Return(t)
  BY <1>2, <1>3, ReturnDone DEF Marked
<1>4. CASE Goto(t, "wake") /\ local' = [local EXCEPT ![t].wlist = {}]
  <2>1. /\ pc'[t] = "wake" /\ local'[t].wlist = {} /\ local'[t].ret = local[t].ret
        /\ local'[t].wstate = local[t].wstate /\ local'[t].wake_type = local[t].wake_type
    BY <1>1, <1>4 DEF Goto, LocalType
  <2>2. Frame(t) /\ LocalChange(t) /\ pc' \in [Tasks -> PCs]
    BY <1>1, <1>4 DEF Goto, Frame, LocalChange, PCs
  <2>3. /\ QueuedReader(t)' <=> QueuedReader(t)
        /\ QueuedWriter(t)' <=> QueuedWriter(t)
        /\ t \in Reading' <=> t \in Reading
    BY <2>1 DEF QueuedReader, QueuedWriter, Reading, Marking, MarkPC
  <2>4. LocalsOf(t)'
    BY <1>2, <2>1 DEF LocalsOf, Marking, MarkPC
  <2>5. FirstOf(t)'
    BY <1>2, <2>1, <2>3 DEF FirstOf, Marking, MarkPC
  <2>6. QED
    BY <2>1, <2>2, <2>3, <2>4, <2>5 DEF MarkDone, Marked
<1>5. QED
  BY <1>3, <1>4 DEF Marked

\* Such a step admits nobody, and the task stands for a bias only if it reads.
LEMMA MarkDoneFacts ==
  ASSUME NEW t \in Tasks, Marking(t), MarkDone(t)
  PROVE  /\ pc'[t] \notin LockedPC /\ pc'[t] \notin {"r_sched", "w_sched"}
         /\ ~AwaitsHandoff(t)' /\ Admitted(t)
         /\ t \notin Writing /\ t \notin Writing'
         /\ Own(t)' = One(t \in Reading)
         /\ Own(t) = One(t \in Reading) + One(t \in Granting)
<1>1. /\ pc'[t] \in {"wake", "out", "r_held", "r_wait", "w_try"}
      /\ t \in Reading' <=> t \in Reading
  BY DEF MarkDone
<1>2. pc[t] \in {"m_first", "m_undo", "m_adjust", "m_grant", "wake"}
  BY DEF Marking, MarkPC
<1>3. /\ pc'[t] \notin LockedPC /\ pc'[t] \notin {"r_sched", "w_sched"}
      /\ ~AwaitsHandoff(t)' /\ t \notin Writing /\ t \notin Writing'
  BY <1>1, <1>2 DEF LockedPC, AwaitsHandoff, Writing
<1>4. Admitted(t)
  BY <1>1, <1>3 DEF Admitted
<1>5. Own(t)' = One(t \in Reading)
  BY <1>1 DEF Own, One, BackingOut, Queueing, Granting
<1>6. Own(t) = One(t \in Reading) + One(t \in Granting)
  BY <1>2 DEF Own, One, BackingOut, Queueing
<1>7. QED
  BY <1>3, <1>4, <1>5, <1>6

\* The first waiter is a writer that is woken, or a reader that is granted the
\* lock at once, or there is none.
LEMMA MarkFirstInv ==
  ASSUME IInv, NEW t \in Tasks, MarkFirst(t)
  PROVE  IInv' /\ Frame(t) /\ Admitted(t)
<1> USE DEF IInv
<1>1. pc \in [Tasks -> PCs] /\ local \in [Tasks -> LocalType] /\ count \in WordType
  BY StepTypes
<1>2. /\ pc[t] = "m_first" /\ wait_lock \in {None, t} /\ wait_list' = wait_list
      /\ granted' = granted /\ state' = state /\ sig' = sig
  BY DEF MarkFirst
<1>3. LocalsOf(t) /\ FirstOf(t) /\ Marking(t) /\ pc[t] \in MarkPC /\ local[t].wlist = {}
  BY <1>2 DEF Locals, LocalsOf, Firsts, Marking, MarkPC
<1>4. t \notin Granting
  BY <1>2 DEF Granting
<1>5. CASE list_empty(wait_list) \/ list_first_entry(wait_list).type = "write"
  <2>1. /\ wake_q' = IF ~list_empty(wait_list) /\ local[t].wake_type = "ANY"
                     THEN [wake_q EXCEPT ![t] = wake_q_add(t, {list_first_entry(wait_list).task})]
                     ELSE wake_q
        /\ Marked(t) /\ count' = count
    BY <1>5 DEF MarkFirst
  <2>2. MarkDone(t) /\ wait_lock' \in {None, t}
    BY <1>2, <1>3, <2>1, MarkedDone
  <2>3. /\ wake_q' \in [Tasks -> SUBSET Tasks]
        /\ \A u \in Tasks : wake_q[u] \subseteq wake_q'[u]
    <3>1. wake_q \in [Tasks -> SUBSET Tasks] /\ wait_list \in Seq(WaiterType)
      BY DEF TypeOK
    <3>2. CASE ~list_empty(wait_list) /\ local[t].wake_type = "ANY"
      <4>1. list_first_entry(wait_list) \in WaiterType
        BY <3>1, <3>2, ListFirst DEF list_empty
      <4>2. list_first_entry(wait_list).task \in Tasks
        BY <4>1 DEF WaiterType
      <4>3. wake_q[t] \subseteq wake_q_add(t, {list_first_entry(wait_list).task})
        BY DEF wake_q_add
      <4>4. wake_q_add(t, {list_first_entry(wait_list).task}) \subseteq Tasks
        BY <3>1, <4>2 DEF wake_q_add
      <4>5. QED
        BY <2>1, <3>1, <3>2, <4>3, <4>4
    <3>3. CASE ~(~list_empty(wait_list) /\ local[t].wake_type = "ANY")
      BY <2>1, <3>1, <3>3
    <3>4. QED
      BY <3>2, <3>3
  <2>4. TypeOK'
    BY <1>1, <1>2, <2>1, <2>2, <2>3, LocalChanges DEF TypeOK, MarkDone
  <2>5. Given' = Given
    BY <1>2, <1>3, <2>2, QuietGiven DEF MarkDone
  <2>6. /\ pc'[t] \notin LockedPC /\ pc'[t] \notin {"r_sched", "w_sched"}
        /\ ~AwaitsHandoff(t)' /\ Admitted(t)
        /\ t \notin Writing /\ t \notin Writing' /\ Frame(t)
    BY <1>3, <2>2, MarkDoneFacts DEF MarkDone
  <2>7. Queue' /\ LockHeld' /\ WaitersBit'
    <3>1. \A u \in Tasks : local'[u].wlist \cap granted' = {}
      BY <1>2, <1>3, <2>2, OthersSame DEF Queue, MarkDone
    <3>2. QED
      BY <1>2, <2>1, <2>2, <2>5, <2>6, <3>1, SameQueue DEF MarkDone, LockedPC
  <2>8. HandoffBit'
    BY <2>1, <2>6, HandoffStep
  <2>9. /\ count'.readers = count.readers + Own(t)' - Own(t)
        /\ count'.writer = count.writer - One(t \in Writing) + One(t \in Writing')
    <3>1. Own(t)' = Own(t) /\ Own(t) \in Int
      BY <1>3, <1>4, <2>2, MarkDoneFacts DEF One
    <3>2. QED
      BY <1>1, <2>1, <2>6, <3>1 DEF WordType, One
  <2>10. pc'[t] # "m_adjust" /\ LocalsOf(t)' /\ FirstOf(t)'
    BY <2>2, <2>6 DEF LockedPC, MarkDone
  <2>11. QED
    BY <1>2, <2>3, <2>4, <2>5, <2>6, <2>7, <2>8, <2>9, <2>10, StepInv
<1>6. CASE ~(list_empty(wait_list) \/ list_first_entry(wait_list).type = "write")
  <2>1. /\ wait_lock' = t /\ AddReaders(granted_early(t))
        /\ Goto(t, IF granted_early(t) = 1 /\ stolen(count) THEN "m_undo" ELSE "m_adjust")
        /\ local' = local /\ wake_q' = wake_q
    BY <1>6 DEF MarkFirst
  <2>2. /\ pc'[t] \in {"m_undo", "m_adjust"} /\ Frame(t) /\ pc' \in [Tasks -> PCs]
        /\ pc'[t] = "m_undo" => granted_early(t) = 1
        /\ pc'[t] = "m_adjust" => granted_early(t) # 1 \/ count.writer = 0
        /\ \A u \in Tasks : local'[u] = local[u]
    BY <1>1, <2>1 DEF Goto, Frame, PCs, MarkPC, stolen
  <2>3. granted_early(t) \in {0, 1} /\ granted_early(t)' = granted_early(t)
    BY <2>2 DEF granted_early
  <2>4. /\ count' \in WordType /\ count'.writer = count.writer /\ count'.waiters = count.waiters
        /\ count'.handoff = count.handoff /\ count'.readers = count.readers + granted_early(t)
    BY <1>1, <2>1, <2>3 DEF WordType, AddReaders
  <2>5. TypeOK'
    BY <1>1, <1>2, <2>1, <2>2, <2>4 DEF TypeOK
  <2>6. Given' = Given
    BY <1>2, <2>2 DEF Given
  <2>7. /\ QueuedReader(t)' <=> QueuedReader(t)
        /\ QueuedWriter(t)' <=> QueuedWriter(t)
        /\ t \in Reading' <=> t \in Reading
    BY <1>2, <2>2 DEF QueuedReader, QueuedWriter, Reading, Marking, MarkPC
  <2>8. wait_list # <<>> /\ list_first_entry(wait_list).type = "read"
    <3>1. wait_list \in Seq(WaiterType) /\ wait_list # <<>>
      BY <1>6 DEF TypeOK, list_empty
    <3>2. list_first_entry(wait_list) \in WaiterType
      BY <3>1, ListFirst
    <3>3. QED
      BY <1>6, <3>1, <3>2 DEF WaiterType
  <2>9. Queue' /\ LockHeld' /\ WaitersBit'
    <3>1. \A u \in Tasks : local'[u].wlist \cap granted' = {}
      BY <1>2, <2>2 DEF Queue
    <3>2. QED
      BY <1>2, <2>1, <2>2, <2>4, <2>6, <2>7, <2>8, <3>1, SameQueue
  <2>10. LocalsOf(t)' /\ FirstOf(t)' /\ ~AwaitsHandoff(t)'
    <3>1. pc'[t] = "m_undo" => local[t].wake_type # "READ_OWNED"
      BY <2>2 DEF granted_early
    <3>2. LocalsOf(t)'
      BY <1>2, <1>3, <2>2, <3>1 DEF LocalsOf, Marking, MarkPC
    <3>3. FirstOf(t)'
      BY <1>2, <1>3, <2>2, <2>7 DEF FirstOf, Marking, MarkPC
    <3>4. ~AwaitsHandoff(t)'
      BY <2>2 DEF AwaitsHandoff
    <3>5. QED
      BY <3>2, <3>3, <3>4
  <2>11. HandoffBit'
    BY <2>2, <2>4, <2>10, HandoffStep
  <2>12. /\ t \notin Writing /\ t \notin Writing'
         /\ Own(t)' = Own(t) + granted_early(t) /\ Own(t) \in Int
    <3>1. t \in Granting' <=> granted_early(t) = 1
      BY <2>2, <2>3 DEF Granting
    <3>2. QED
      BY <1>2, <1>4, <2>2, <2>3, <2>7, <3>1 DEF Own, One, Writing, BackingOut, Queueing
  <2>13. /\ count'.readers = count.readers + Own(t)' - Own(t)
         /\ count'.writer = count.writer - One(t \in Writing) + One(t \in Writing')
    BY <1>1, <2>3, <2>4, <2>12 DEF WordType, One
  <2>14. pc'[t] = "m_adjust" => count.writer = 0
    <3>1. ASSUME granted_early(t) # 1 PROVE count.writer = 0
      <4>1. local[t].ret = "r_held"
        BY <1>3, <3>1 DEF granted_early, LocalsOf
      <4>2. t \in Reading
        BY <1>3, <4>1 DEF Reading, Marking
      <4>3. Writing = {}
        BY <4>2 DEF Exclusion
      <4>4. QED
        BY <4>3, TasksFinite DEF Word
    <3>2. QED
      BY <2>2, <3>1
  <2>15. Admitted(t)
    BY <2>7, <2>12 DEF Admitted
  <2>16. QED
    BY <1>2, <2>1, <2>2, <2>5, <2>6, <2>9, <2>10, <2>11, <2>13, <2>14, <2>15, StepInv
<1>7. QED
  BY <1>5, <1>6

\* A grant that a writer got ahead of is undone, and the readers may ask for the
\* handoff.
LEMMA MarkUndoInv ==
  ASSUME IInv, NEW t \in Tasks, MarkUndo(t)
  PROVE  IInv' /\ Frame(t) /\ Admitted(t)
<1> USE DEF IInv
<1>1. pc \in [Tasks -> PCs] /\ local \in [Tasks -> LocalType] /\ count \in WordType
  BY StepTypes
<1>2. /\ pc[t] = "m_undo" /\ wait_list' = wait_list /\ granted' = granted
      /\ wake_q' = wake_q /\ state' = state /\ sig' = sig /\ Marked(t)
      /\ \/ AddReaders(-1)
         \/ count.handoff = 0 /\ count' = [count EXCEPT !.readers = @ - 1, !.handoff = 1]
  BY DEF MarkUndo
<1>3. /\ LocalsOf(t) /\ Marking(t) /\ pc[t] \in MarkPC /\ local[t].wlist = {}
      /\ local[t].wake_type # "READ_OWNED" /\ wait_lock = t
  BY <1>2 DEF Locals, LocalsOf, Marking, MarkPC, LockHeld, LockedPC
<1>4. t \in Granting
  BY <1>2, <1>3 DEF Granting, granted_early
<1>5. MarkDone(t) /\ wait_lock' \in {None, t}
  BY <1>2, <1>3, MarkedDone
<1>6. /\ count' \in WordType /\ count'.writer = count.writer /\ count'.waiters = count.waiters
      /\ count'.readers = count.readers - 1
      /\ \/ count'.handoff = count.handoff
         \/ count.handoff = 0 /\ count'.handoff = 1
  <2>1. CASE AddReaders(-1)
    <3> DEFINE x == count.readers - 1
    <3>1. x \in Int /\ count' = [count EXCEPT !.readers = x]
      BY <1>1, <2>1 DEF WordType, AddReaders
    <3> HIDE DEF x
    <3>2. /\ count' \in WordType /\ count'.writer = count.writer
          /\ count'.waiters = count.waiters /\ count'.readers = x
          /\ count'.handoff = count.handoff
      BY <1>1, <3>1 DEF WordType
    <3>3. QED
      BY <3>2 DEF x
  <2>2. CASE count.handoff = 0 /\ count' = [count EXCEPT !.readers = @ - 1, !.handoff = 1]
    <3> DEFINE x == count.readers - 1
               y == 1
    <3>1. x \in Int /\ y \in Int /\ count' = [count EXCEPT !.readers = x, !.handoff = y]
      BY <1>1, <2>2 DEF WordType
    <3> HIDE DEF x, y
    <3>2. /\ count' \in WordType /\ count'.writer = count.writer
          /\ count'.waiters = count.waiters /\ count'.readers = x /\ count'.handoff = y
      BY <1>1, <3>1 DEF WordType
    <3>3. QED
      BY <2>2, <3>2 DEF x, y
  <2>3. QED
    BY <1>2, <2>1, <2>2
<1>7. TypeOK'
  BY <1>1, <1>2, <1>5, <1>6, LocalChanges DEF TypeOK, MarkDone
<1>8. Given' = Given
  BY <1>2, <1>3, <1>5, QuietGiven DEF MarkDone
<1>9. /\ pc'[t] \notin LockedPC /\ pc'[t] \notin {"r_sched", "w_sched"}
      /\ ~AwaitsHandoff(t)' /\ Admitted(t)
      /\ t \notin Writing /\ t \notin Writing' /\ Frame(t)
  BY <1>3, <1>5, MarkDoneFacts DEF MarkDone
<1>10. Queue' /\ LockHeld' /\ WaitersBit'
  <2>1. \A u \in Tasks : local'[u].wlist \cap granted' = {}
    BY <1>2, <1>3, <1>5, OthersSame DEF Queue, MarkDone
  <2>2. QED
    BY <1>2, <1>3, <1>5, <1>6, <1>8, <1>9, <2>1, SameQueue DEF MarkDone, LockedPC
<1>11. HandoffBit'
  BY <1>6, <1>9, OthersSame DEF HandoffBit
<1>12. /\ count'.readers = count.readers + Own(t)' - Own(t)
       /\ count'.writer = count.writer - One(t \in Writing) + One(t \in Writing')
  <2>1. Own(t) = Own(t)' + 1 /\ Own(t)' \in Int
    BY <1>3, <1>4, <1>5, MarkDoneFacts DEF One
  <2>2. QED
    BY <1>1, <1>6, <1>9, <2>1 DEF WordType, One
<1>13. pc'[t] # "m_adjust" /\ LocalsOf(t)' /\ FirstOf(t)'
  BY <1>5, <1>9 DEF LockedPC, MarkDone
<1>14. QED
  BY <1>2, <1>7, <1>8, <1>9, <1>10, <1>11, <1>12, <1>13, StepInv

\* The readers that are woken are queued, and granted nothing yet.
LEMMA WokenReaders ==
  ASSUME IInv
  PROVE  /\ ReadersToWake \subseteq Linked(wait_list)
         /\ \A w \in ReadersToWake : w.task \in Tasks /\ w = ReadWaiter(w.task)
<1>1. ReadersToWake \subseteq {w \in Linked(wait_list) : w.type = "read"}
  BY DEF ReadersToWake, Linked, is_reader
<1>2. wait_list \in Seq(WaiterType)
  BY DEF IInv, TypeOK
<1>3. \A w \in Linked(wait_list) : w \in WaiterType
  BY <1>2 DEF Linked
<1>4. \A w \in WaiterType : w.type = "read" => w.task \in Tasks /\ w = ReadWaiter(w.task)
  BY DEF WaiterType, ReadWaiter
<1>5. QED
  BY <1>1, <1>3, <1>4

\* While a reader is the first on the queue, no writer is.
LEMMA ReaderFirst ==
  ASSUME IInv, wait_list # <<>>, list_first_entry(wait_list).type = "read"
  PROVE  \A u \in Tasks : QueuedWriter(u) => list_first_entry(wait_list).task # u
<1> DEFINE h == list_first_entry(wait_list)
<1>1. wait_list \in Seq(WaiterType)
  BY DEF IInv, TypeOK
<1>2. h \in Linked(wait_list) /\ h \in WaiterType
  BY <1>1, ListFirst
<1>3. h.task \in Tasks /\ h = ReadWaiter(h.task)
  BY <1>2 DEF WaiterType, ReadWaiter
<1>4. QueuedReader(h.task)
  BY <1>2, <1>3 DEF IInv, Queue
<1>5. \A u \in Tasks : ~(QueuedReader(u) /\ QueuedWriter(u))
  BY DEF QueuedReader, QueuedWriter, Marking, MarkPC
<1>6. QED
  BY <1>3, <1>4, <1>5

\* Queued readers leave the queue together, and are counted together.
LEMMA MarkAdjustInv ==
  ASSUME IInv, NEW t \in Tasks, MarkAdjust(t)
  PROVE  IInv' /\ Frame(t) /\ Admitted(t)
<1> DEFINE woken == {w.task : w \in ReadersToWake}
<1> USE DEF IInv
<1>1. pc \in [Tasks -> PCs] /\ local \in [Tasks -> LocalType] /\ count \in WordType
  BY StepTypes
<1>2. /\ pc[t] = "m_adjust" /\ wait_list' = list_del_all(wait_list, ReadersToWake)
      /\ local' = [local EXCEPT ![t].wlist = woken]
      /\ Goto(t, "m_grant") /\ wait_lock' = wait_lock /\ granted' = granted
      /\ wake_q' = wake_q /\ state' = state /\ sig' = sig
      /\ count' = [count EXCEPT !.readers = @ + adjustment(t, Cardinality(woken)),
                                !.waiters = IF list_empty(wait_list') THEN @ - 1 ELSE @,
                                !.handoff = IF woken # {} /\ @ # 0 THEN @ - 1 ELSE @]
  BY DEF MarkAdjust
<1>3. /\ LocalsOf(t) /\ FirstOf(t) /\ Marking(t) /\ local[t].wlist = {} /\ wait_lock = t
      /\ wait_list # <<>> /\ list_first_entry(wait_list).type = "read"
  BY <1>2 DEF Locals, LocalsOf, Firsts, Marking, MarkPC, LockHeld, LockedPC, Queue
<1>4. /\ woken \subseteq Tasks
      /\ \A u \in Tasks : u \in woken <=> ReadWaiter(u) \in ReadersToWake
      /\ \A u \in Tasks : WriteWaiter(u) \notin ReadersToWake
      /\ \A u \in woken : ReadWaiter(u) \in Linked(wait_list)
  BY WokenReaders DEF ReadWaiter, WriteWaiter
<1>5. /\ wait_list' \in Seq(WaiterType) /\ NoDup(wait_list')
      /\ Linked(wait_list') = Linked(wait_list) \ ReadersToWake
  <2>1. wait_list \in Seq(WaiterType) /\ NoDup(wait_list)
    BY DEF TypeOK, Queue
  <2>2. QED
    BY <1>2, <2>1, ListDelAll
<1> HIDE DEF woken
<1>6. Cardinality(woken) \in Nat /\ granted_early(t) \in {0, 1}
  BY <1>4, TasksFinite DEF granted_early
<1>7. /\ count' \in WordType /\ count'.writer = count.writer
      /\ count'.readers = count.readers + (Cardinality(woken) - granted_early(t))
      /\ count'.waiters = IF wait_list' = <<>> THEN count.waiters - 1 ELSE count.waiters
      /\ count'.handoff \in {count.handoff, 0}
  <2> DEFINE x == count.readers + (Cardinality(woken) - granted_early(t))
             y == IF wait_list' = <<>> THEN count.waiters - 1 ELSE count.waiters
             z == IF woken # {} /\ count.handoff # 0 THEN count.handoff - 1 ELSE count.handoff
  <2>1. x \in Int /\ y \in Int /\ z \in Int
    BY <1>1, <1>6 DEF WordType
  <2>2. count' = [count EXCEPT !.readers = x, !.waiters = y, !.handoff = z]
    BY <1>2 DEF adjustment, list_empty
  <2>3. z \in {count.handoff, 0}
    BY DEF HandoffBit
  <2> HIDE DEF x, y, z
  <2>4. /\ count' \in WordType /\ count'.writer = count.writer /\ count'.readers = x
        /\ count'.waiters = y /\ count'.handoff = z
    BY <1>1, <2>1, <2>2 DEF WordType
  <2>5. QED
    BY <2>3, <2>4 DEF x, y
<1>8. /\ pc'[t] = "m_grant" /\ pc' \in [Tasks -> PCs] /\ local'[t].wlist = woken
      /\ local'[t].ret = local[t].ret /\ local'[t].wstate = local[t].wstate
      /\ local'[t].wake_type = local[t].wake_type
  BY <1>1, <1>2 DEF Goto, PCs, MarkPC, LocalType
<1>9. LocalChange(t)
  BY <1>2, <1>4 DEF LocalChange
<1>10. TypeOK'
  BY <1>1, <1>2, <1>5, <1>7, <1>8, <1>9, LocalChanges DEF TypeOK
<1>11. Frame(t)
  BY <1>1, <1>2, <1>9, LocalChanges DEF Goto, Frame
<1>12. \A u \in Tasks \ {t} : pc[u] \notin LockedPC /\ pc'[u] = pc[u] /\ local'[u] = local[u]
  BY <1>3, <1>11, LockFree, OthersSame
<1>13. woken \cap Given = {} /\ Given' = Given \cup woken
  <2>1. woken \cap Given = {}
    BY <1>4 DEF Queue
  <2>2. \A u \in Tasks \ {t} : local'[u].wlist = local[u].wlist
    BY <1>12
  <2>3. QED
    BY <1>2, <1>3, <1>4, <1>8, <2>1, <2>2 DEF Given
<1>14. \A u \in Tasks : /\ QueuedReader(u)' <=> QueuedReader(u)
                        /\ QueuedWriter(u)' <=> QueuedWriter(u)
                        /\ u \in Reading' <=> u \in Reading
                        /\ u \in Writing' <=> u \in Writing
  <2>1. /\ QueuedReader(t)' <=> QueuedReader(t)
        /\ QueuedWriter(t)' <=> QueuedWriter(t)
        /\ t \in Reading' <=> t \in Reading
        /\ t \in Writing' <=> t \in Writing
    BY <1>2, <1>8 DEF QueuedReader, QueuedWriter, Marking, MarkPC, Reading, Writing
  <2>2. QED
    BY <1>11, <2>1, OthersSame
<1>15. Queue'
  <2>1. ASSUME NEW u \in Tasks
        PROVE  /\ ReadWaiter(u) \in Linked(wait_list') <=> QueuedReader(u)' /\ u \notin Given'
               /\ WriteWaiter(u) \in Linked(wait_list') <=> QueuedWriter(u)'
    BY <1>4, <1>5, <1>13, <1>14 DEF Queue
  <2>2. ASSUME NEW u \in Tasks, u \in Given'
        PROVE  QueuedReader(u)' /\ pc'[u] # "r_add"
    <3>1. QueuedReader(u)
      BY <1>4, <1>13, <2>2 DEF Queue
    <3>2. QED
      BY <1>8, <1>12, <1>14, <3>1 DEF LockedPC
  <2>3. \A u \in Tasks : pc'[u] \notin {"w_empty", "m_adjust"}
    BY <1>8, <1>12 DEF LockedPC
  <2>4. ASSUME NEW u \in Tasks PROVE local'[u].wlist \cap granted' = {}
    <3>1. CASE u = t
      BY <1>2, <1>4, <1>8, <1>13, <3>1 DEF Given
    <3>2. CASE u # t
      BY <1>2, <1>12, <3>2 DEF Queue
    <3>3. QED
      BY <3>1, <3>2
  <2>5. QED
    BY <1>5, <2>1, <2>2, <2>3, <2>4 DEF Queue, ReadWaiter, WriteWaiter
<1>16. LockHeld'
  BY <1>2, <1>3, <1>12 DEF LockHeld
<1>17. WaitersBit'
  <2>1. \A u \in Tasks : /\ pc[u] \notin {"r_add", "w_empty"}
                         /\ pc'[u] \notin {"r_add", "w_empty"}
    BY <1>2, <1>8, <1>12 DEF LockedPC
  <2>2. count.waiters = 1
    BY <1>3, <2>1 DEF WaitersBit
  <2>3. QED
    BY <1>7, <2>1, <2>2 DEF WaitersBit
<1>18. \A u \in Tasks : QueuedWriter(u) => list_first_entry(wait_list).task # u
  BY <1>3, ReaderFirst
<1>19. Locals' /\ Firsts'
  <2>1. LocalsOf(t)'
    BY <1>3, <1>8 DEF LocalsOf, Marking, MarkPC
  <2>2. FirstOf(t)'
    BY <1>2, <1>3, <1>8, <1>18 DEF FirstOf, Marking, MarkPC
  <2>3. QED
    BY <1>11, <1>18, <2>1, <2>2, LocalsStep, FirstsStep
<1>20. HandoffBit'
  <2>1. ASSUME NEW u \in Tasks, AwaitsHandoff(u)' PROVE FALSE
    <3>1. u # t
      BY <1>8, <2>1 DEF AwaitsHandoff
    <3>2. AwaitsHandoff(u) /\ FirstOf(u)
      BY <1>11, <2>1, <3>1, OthersSame DEF Firsts
    <3>3. QueuedWriter(u) /\ list_first_entry(wait_list).task = u
      BY <3>2 DEF FirstOf, AwaitsHandoff, Marking, MarkPC
    <3>4. QED
      BY <1>18, <3>3
  <2>2. QED
    BY <1>7, <2>1 DEF HandoffBit
<1>21. Writing = {} /\ Writing' = {}
  <2>1. Writing = {}
    BY <1>2 DEF Exclusion
  <2>2. QED
    BY <1>14, <2>1 DEF Writing
<1>22. Word'
  <2>1. Own(t)' = Own(t) - granted_early(t) /\ Own(t) \in Int
    <3>1. t \in Granting <=> granted_early(t) = 1
      BY <1>2 DEF Granting
    <3>2. QED
      BY <1>2, <1>6, <1>8, <1>14, <3>1 DEF Own, One, BackingOut, Queueing, Granting
  <2>2. /\ Cardinality(Given') = Cardinality(Given) + Cardinality(woken)
        /\ Cardinality(Given) \in Nat
    <3>1. Given \subseteq Tasks
      BY DEF Given
    <3>2. IsFiniteSet(Given) /\ IsFiniteSet(woken) /\ Cardinality(Given) \in Nat
      BY <1>4, <3>1, TasksFinite
    <3>3. Cardinality(Given \cup woken)
            = Cardinality(Given) + Cardinality(woken) - Cardinality(Given \cap woken)
      BY <3>2, FS_Union
    <3>4. Given \cap woken = {} /\ Cardinality({}) = 0
      BY <1>13, FS_EmptySet
    <3> DEFINE a == Cardinality(Given)
               b == Cardinality(woken)
               c == Cardinality(Given')
    <3>5. a \in Nat /\ b \in Nat /\ c = a + b - 0
      BY <1>6, <1>13, <3>2, <3>3, <3>4
    <3> HIDE DEF a, b, c
    <3>6. c = a + b
      BY <3>5
    <3>7. QED
      BY <3>5, <3>6 DEF a, b, c
  <2>3. count'.readers = count.readers + Own(t)' - Own(t) + Cardinality(Given') - Cardinality(Given)
    <3> DEFINE a == Cardinality(Given)
               b == Cardinality(woken)
               c == Cardinality(Given')
    <3>1. /\ a \in Nat /\ b \in Nat /\ c = a + b /\ count.readers \in Int
          /\ count'.readers = count.readers + (b - granted_early(t))
      BY <1>1, <1>6, <1>7, <2>2 DEF WordType
    <3> HIDE DEF a, b, c
    <3>2. count'.readers = count.readers + Own(t)' - Own(t) + c - a
      BY <1>6, <2>1, <3>1
    <3>3. QED
      BY <3>2 DEF a, c
  <2>4. count'.readers = Biased'
    BY <1>11, <2>3, OwnMove
  <2>5. QED
    BY <1>7, <1>21, <2>4 DEF Word
<1>23. Exclusion'
  BY <1>21 DEF Exclusion
<1>24. GrantedAreWoken'
  <2>1. ~Asleep(t)'
    BY <1>8 DEF Asleep
  <2>2. QED
    BY <1>2, <1>11, <2>1, WokenStep
<1>25. Admitted(t)
  BY <1>14 DEF Admitted
<1>26. QED
  BY <1>10, <1>11, <1>15, <1>16, <1>17, <1>19, <1>20, <1>22, <1>23, <1>24, <1>25

\* Every reader that is granted the lock is put on a wake_q, or is on one.
LEMMA MarkGrantInv ==
  ASSUME IInv, NEW t \in Tasks, MarkGrant(t)
  PROVE  IInv' /\ Frame(t) /\ Admitted(t)
<1> USE DEF IInv
<1>1. pc \in [Tasks -> PCs] /\ local \in [Tasks -> LocalType] /\ count \in WordType
  BY StepTypes
<1>2. /\ pc[t] = "m_grant" /\ granted' = granted \cup local[t].wlist
      /\ wake_q' = [wake_q EXCEPT ![t] = wake_q_add(t, local[t].wlist)]
      /\ Marked(t) /\ count' = count /\ wait_list' = wait_list /\ state' = state /\ sig' = sig
  BY DEF MarkGrant
<1>3. Marking(t) /\ pc[t] \in MarkPC /\ wait_lock = t /\ local[t].wlist \subseteq Tasks
  BY <1>1, <1>2 DEF Marking, MarkPC, LockHeld, LockedPC, LocalType
<1>4. MarkDone(t) /\ wait_lock' \in {None, t}
  BY <1>2, <1>3, MarkedDone
<1>5. /\ pc'[t] \notin LockedPC /\ pc'[t] \notin {"r_sched", "w_sched"}
      /\ ~AwaitsHandoff(t)' /\ Admitted(t)
      /\ t \notin Writing /\ t \notin Writing' /\ Frame(t) /\ local'[t].wlist = {}
      /\ LocalsOf(t)' /\ FirstOf(t)'
  BY <1>3, <1>4, MarkDoneFacts DEF MarkDone
<1>6. wake_q \in [Tasks -> SUBSET Tasks] /\ granted \subseteq Tasks
  BY DEF TypeOK
<1>7. /\ wake_q' \in [Tasks -> SUBSET Tasks]
      /\ \A u \in Tasks : wake_q[u] \subseteq wake_q'[u]
      /\ \A u \in local[t].wlist : \E v \in Tasks : u \in wake_q'[v]
  <2>1. wake_q_add(t, local[t].wlist) \subseteq Tasks
    BY <1>3, <1>6 DEF wake_q_add
  <2>2. /\ \A u \in Tasks \ {t} : wake_q'[u] = wake_q[u]
        /\ wake_q'[t] = wake_q_add(t, local[t].wlist)
    BY <1>2, <1>6
  <2>3. wake_q[t] \subseteq wake_q_add(t, local[t].wlist)
    BY DEF wake_q_add
  <2>4. \A u \in Tasks : wake_q[u] \subseteq wake_q'[u]
    BY <2>2, <2>3
  <2>5. ASSUME NEW u \in local[t].wlist PROVE \E v \in Tasks : u \in wake_q'[v]
    <3>1. CASE \E v \in Tasks : u \in wake_q[v]
      BY <2>4, <3>1
    <3>2. CASE \A v \in Tasks : u \notin wake_q[v]
      BY <2>2, <3>2 DEF wake_q_add
    <3>3. QED
      BY <3>1, <3>2
  <2>6. QED
    BY <1>2, <1>6, <2>1, <2>4, <2>5
<1>8. TypeOK'
  BY <1>1, <1>2, <1>3, <1>4, <1>6, <1>7, LocalChanges DEF TypeOK, MarkDone
<1>9. \A u \in Tasks : local'[u].wlist = {}
  <2>1. \A u \in Tasks \ {t} : pc[u] # "m_grant" /\ local'[u] = local[u]
    BY <1>3, <1>5, LockFree, OthersSame DEF LockedPC
  <2>2. QED
    BY <1>5, <2>1 DEF Locals, LocalsOf
<1>10. Given' = Given
  <2>1. \A u \in Tasks \ {t} : local[u].wlist = {}
    BY <1>5, <1>9, OthersSame
  <2>2. Given = granted \cup local[t].wlist
    BY <1>3, <1>6, <2>1 DEF Given
  <2>3. QED
    BY <1>2, <1>3, <1>6, <1>9, <2>2 DEF Given
<1>11. Queue' /\ LockHeld' /\ WaitersBit'
  BY <1>2, <1>3, <1>4, <1>5, <1>9, <1>10, SameQueue DEF MarkDone, LockedPC
<1>12. Locals' /\ Firsts' /\ HandoffBit'
  BY <1>2, <1>5, LocalsStep, FirstsStep, HandoffStep
<1>13. Word'
  <2>1. t \notin Granting
    BY <1>2 DEF Granting
  <2>2. Own(t)' = Own(t) /\ Own(t) \in Int
    BY <1>3, <1>4, <2>1, MarkDoneFacts DEF One
  <2>3. /\ count'.readers = count.readers + Own(t)' - Own(t)
        /\ count'.writer = count.writer - One(t \in Writing) + One(t \in Writing')
    BY <1>1, <1>2, <1>5, <2>2 DEF WordType, One
  <2>4. QED
    BY <1>5, <1>10, <2>3, WordStep
<1>14. Exclusion'
  BY <1>5, <1>10, ExclusionStep DEF LockedPC
<1>15. GrantedAreWoken'
  <2>1. ASSUME NEW u \in granted', Asleep(u)' PROVE \E v \in Tasks : u \in wake_q'[v]
    <3>1. CASE u \in local[t].wlist
      BY <1>7, <3>1
    <3>2. CASE u \in granted
      <4>1. u # t /\ u \in Tasks
        BY <1>5, <1>6, <2>1, <3>2 DEF Asleep
      <4>2. Asleep(u)
        BY <1>2, <1>5, <2>1, <4>1, OthersSame DEF Asleep
      <4>3. QED
        BY <1>7, <3>2, <4>2 DEF GrantedAreWoken
    <3>3. QED
      BY <1>2, <3>1, <3>2
  <2>2. QED
    BY <2>1 DEF GrantedAreWoken
<1>16. QED
  BY <1>5, <1>8, <1>11, <1>12, <1>13, <1>14, <1>15

\* Who is taken off the wake_q runs.
LEMMA WakeUpQInv ==
  ASSUME IInv, NEW t \in Tasks, WakeUpQ(t)
  PROVE  IInv' /\ Frame(t) /\ Admitted(t)
<1> USE DEF IInv
<1>1. pc \in [Tasks -> PCs] /\ local \in [Tasks -> LocalType] /\ count \in WordType
  BY StepTypes
<1>2. /\ pc[t] = "wake" /\ count' = count /\ wait_list' = wait_list /\ wait_lock' = wait_lock
      /\ granted' = granted /\ sig' = sig
      /\ \/ Return(t)
         \/ pc' = pc /\ local' = local
  BY DEF WakeUpQ
<1>3. PICK w \in wake_q[t] : /\ wake_q' = [wake_q EXCEPT ![t] = @ \ {w}]
                             /\ state' = [state EXCEPT ![w] = wake_up_process(@)]
  BY DEF WakeUpQ
<1>4. /\ wake_q \in [Tasks -> SUBSET Tasks] /\ granted \subseteq Tasks
      /\ state \in [Tasks -> TaskStates]
  BY DEF TypeOK
<1>5. w \in Tasks /\ state' = [state EXCEPT ![w] = TASK_RUNNING]
  BY <1>3, <1>4, Types
<1>6. LocalsOf(t) /\ FirstOf(t) /\ Marking(t) /\ local[t].wlist = {}
  BY <1>2 DEF Locals, LocalsOf, Firsts, Marking
<1>7. MarkDone(t)
  <2>1. CASE Return(t)
    BY <1>2, <1>6, <2>1, ReturnDone
  <2>2. CASE pc' = pc /\ local' = local
    <3>1. Frame(t) /\ LocalChange(t)
      BY <2>2 DEF Frame, LocalChange
    <3>2. LocalsOf(t)' /\ FirstOf(t)'
      BY <1>2, <1>6, <2>2 DEF LocalsOf, FirstOf, QueuedReader, QueuedWriter, Marking
    <3>3. /\ QueuedWriter(t)' <=> QueuedWriter(t)
          /\ QueuedReader(t)' <=> QueuedReader(t)
          /\ t \in Reading' <=> t \in Reading
      BY <2>2 DEF QueuedReader, QueuedWriter, Marking, Reading
    <3>4. QED
      BY <1>1, <1>2, <1>6, <2>2, <3>1, <3>2, <3>3 DEF MarkDone
  <2>3. QED
    BY <1>2, <2>1, <2>2
<1>8. /\ pc'[t] \notin LockedPC /\ pc'[t] \notin {"r_sched", "w_sched"}
      /\ ~AwaitsHandoff(t)' /\ Admitted(t)
      /\ t \notin Writing /\ t \notin Writing' /\ Frame(t) /\ local'[t].wlist = {}
      /\ LocalsOf(t)' /\ FirstOf(t)'
  BY <1>6, <1>7, MarkDoneFacts DEF MarkDone
<1>9. TypeOK'
  <2>1. wake_q' \in [Tasks -> SUBSET Tasks] /\ state' \in [Tasks -> TaskStates]
    BY <1>3, <1>4, <1>5, Types
  <2>2. QED
    BY <1>1, <1>2, <1>7, <2>1, LocalChanges DEF TypeOK, MarkDone
<1>10. Given' = Given
  BY <1>2, <1>6, <1>8, QuietGiven
<1>11. Queue' /\ LockHeld' /\ WaitersBit'
  <2>1. Quiet(t)
    BY <1>2, <1>6, <1>7, <1>8 DEF Quiet, MarkDone, LockedPC
  <2>2. QED
    BY <1>8, <2>1, QuietStep
<1>12. Locals' /\ Firsts' /\ HandoffBit'
  BY <1>2, <1>8, LocalsStep, FirstsStep, HandoffStep
<1>13. Word'
  <2>1. t \notin Granting
    BY <1>2 DEF Granting
  <2>2. Own(t)' = Own(t) /\ Own(t) \in Int
    BY <1>6, <1>7, <2>1, MarkDoneFacts DEF One
  <2>3. /\ count'.readers = count.readers + Own(t)' - Own(t)
        /\ count'.writer = count.writer - One(t \in Writing) + One(t \in Writing')
    BY <1>1, <1>2, <1>8, <2>2 DEF WordType, One
  <2>4. QED
    BY <1>8, <1>10, <2>3, WordStep
<1>14. Exclusion'
  BY <1>8, <1>10, ExclusionStep DEF LockedPC
<1>15. GrantedAreWoken'
  <2>1. ASSUME NEW u \in granted, Asleep(u)' PROVE \E v \in Tasks : u \in wake_q'[v]
    <3>1. u # t /\ u \in Tasks
      BY <1>4, <1>8, <2>1 DEF Asleep
    <3>2. u # w
      BY <1>4, <1>5, <2>1 DEF Asleep, schedule_returns
    <3>3. Asleep(u)
      BY <1>2, <1>4, <1>5, <1>8, <2>1, <3>1, <3>2, OthersSame DEF Asleep
    <3>4. PICK v \in Tasks : u \in wake_q[v]
      BY <3>3 DEF GrantedAreWoken
    <3>5. u \in wake_q'[v]
      BY <1>3, <1>4, <3>2, <3>4
    <3>6. QED
      BY <3>5
  <2>2. QED
    BY <1>2, <2>1 DEF GrantedAreWoken
<1>16. QED
  BY <1>8, <1>9, <1>11, <1>12, <1>13, <1>14, <1>15

-----------------------------------------------------------------------------
(* The invariant and what follows from it.                                  *)

\* An unused semaphore satisfies the invariant.
LEMMA InitInv == Init => IInv
<1> SUFFICES ASSUME Init PROVE IInv
  OBVIOUS
<1>1. \A t \in Tasks : pc[t] = "out" /\ local[t] = Idle /\ local[t].wlist = {}
  BY DEF Init, Idle
<1>2. granted = {} /\ wait_list = <<>> /\ count = Unlocked
  BY DEF Init
<1>3. TypeOK
  <2>1. Unlocked \in WordType
    BY DEF Unlocked, WordType
  <2>2. pc \in [Tasks -> PCs] /\ local \in [Tasks -> LocalType]
    BY Types DEF Init, PCs
  <2>3. state \in [Tasks -> TaskStates] /\ sig \in [Tasks -> Signals]
    BY Types DEF Init, Signals
  <2>4. wait_list \in Seq(WaiterType)
    BY <1>2
  <2>5. QED
    BY <1>2, <2>1, <2>2, <2>3, <2>4 DEF Init, TypeOK
<1>4. Given = {} /\ Reading = {} /\ Writing = {} /\ BackingOut = {} /\ Queueing = {} /\ Granting = {}
  BY <1>1, <1>2 DEF Given, Reading, Writing, BackingOut, Queueing, Granting, MarkPC
<1>5. Locals /\ Firsts /\ LockHeld /\ HandoffBit
  BY <1>1, <1>2 DEF Locals, LocalsOf, Firsts, FirstOf, LockHeld, LockedPC, HandoffBit,
     AwaitsHandoff, Idle, Unlocked, Marking, MarkPC
<1>6. Queue
  <2>1. Linked(wait_list) = {} /\ NoDup(wait_list)
    BY <1>2 DEF Linked, NoDup
  <2>2. \A t \in Tasks : ~QueuedReader(t) /\ ~QueuedWriter(t)
    BY <1>1 DEF QueuedReader, QueuedWriter, Marking, MarkPC
  <2>3. QED
    BY <1>1, <1>4, <2>1, <2>2 DEF Queue
<1>7. WaitersBit
  BY <1>1, <1>2 DEF WaitersBit, Unlocked
<1>8. Word
  <2>1. Cardinality({}) = 0
    BY FS_EmptySet
  <2>2. Biased = Cardinality(Reading) + Cardinality(BackingOut) + Cardinality(Queueing)
                   + Cardinality(Granting) + Cardinality(Given)
    BY DEF Biased, BackingOut, Queueing, Granting, Given
  <2>3. Biased = 0
    BY <1>4, <2>1, <2>2
  <2>4. QED
    BY <1>2, <1>4, <2>1, <2>3 DEF Word, Unlocked
<1>9. Exclusion /\ GrantedAreWoken
  BY <1>2, <1>4 DEF Exclusion, GrantedAreWoken
<1>10. QED
  BY <1>3, <1>5, <1>6, <1>7, <1>8, <1>9 DEF IInv

\* Every step of a task keeps the invariant, moves no other task, and takes the
\* lock only when those that exclude it do not have it.
LEMMA TaskFrame ==
  ASSUME IInv, NEW t \in Tasks,
         \/ Call(t) \/ RunStep(t) \/ WaitLockStep(t) \/ DowngradeWrite(t)
         \/ SendSignal(t) \/ HandleSignal(t)
  PROVE  IInv' /\ Frame(t) /\ Admitted(t)
<1>1. CASE Call(t)
  BY <1>1, DownReadInv, DownReadTrylockInv, DownWriteInv, DownWriteTrylockInv DEF Call
<1>2. CASE RunStep(t)
  BY <1>2, ReadSlowInv, ReadOsqInv, ReadLookInv, ReadTryInv, ReadBackOutInv,
     ReadSpunInv, ReadAddInv, ReadWaitInv, ReadScheduleInv, WriteSlowInv, WriteSpinInv,
     WriteFailInv, WriteScheduleInv, WriteFirstInv, WriteCountInv, WriteEmptyInv,
     MarkUndoInv, MarkAdjustInv, MarkGrantInv, WakeUpQInv, UpReadInv, UpWriteInv DEF RunStep
<1>3. CASE WaitLockStep(t)
  BY <1>3, ReadLockInv, ReadSignalInv, WriteLockInv, WriteTryInv, WriteNoLockInv,
     MarkFirstInv DEF WaitLockStep
<1>4. CASE DowngradeWrite(t)
  BY <1>4, DowngradeWriteInv
<1>5. CASE SendSignal(t) \/ HandleSignal(t)
  BY <1>5, SignalInv
<1>6. QED
  BY <1>1, <1>2, <1>3, <1>4, <1>5

\* So does every step of the system, for the task that takes it.
LEMMA TaskStep ==
  ASSUME IInv, Next
  PROVE  IInv' /\ \E t \in Tasks : Frame(t) /\ Admitted(t)
BY TaskFrame DEF Next

\* A stuttering step keeps the invariant.
LEMMA StutterInv ==
  ASSUME IInv, UNCHANGED vars
  PROVE  IInv'
<1>1. TypeOK' /\ GrantedAreWoken'
  BY DEF IInv, vars, TypeOK, GrantedAreWoken, Asleep
<1>2. Reading' = Reading /\ Writing' = Writing /\ Given' = Given
  BY DEF vars, Reading, Writing, Given
<1>3. Locals' /\ Firsts' /\ LockHeld' /\ WaitersBit' /\ HandoffBit'
  BY DEF IInv, vars, Locals, LocalsOf, Firsts, FirstOf, QueuedWriter, Marking, LockHeld,
     WaitersBit, HandoffBit, AwaitsHandoff
<1>4. Queue'
  BY <1>2 DEF IInv, vars, Queue, QueuedReader, QueuedWriter, Marking
<1>5. Word' /\ Exclusion'
  BY <1>2 DEF IInv, vars, Word, Biased, Reading, Writing, granted_early, Exclusion
<1>6. QED
  BY <1>1, <1>3, <1>4, <1>5 DEF IInv

\* The invariant holds in every state of every semaphore, whatever the number of
\* tasks and of readers woken at once, and whoever is killed.
THEOREM AlwaysIInv == Spec => []IInv
<1>1. IInv /\ [Next]_vars => IInv'
  BY TaskStep, StutterInv
<1>2. QED
  BY <1>1, InitInv, PTL DEF Spec

\* The type invariant of the model of kernel/locking/rwsem.c.
THEOREM TypeCorrect == Spec => []TypeOK
BY AlwaysIInv, PTL DEF IInv

\* sem->count is exact: one writer bit per writer, one reader bias per reader that
\* has, was granted, or tries the lock, and the waiters bit set, whenever wait_lock
\* is free, exactly while tasks are queued.
THEOREM WordIsExact == Spec => []WordExact
<1>1. IInv => WordExact
  <2> SUFFICES ASSUME IInv PROVE WordExact
    OBVIOUS
  <2>1. count.waiters \in {0, 1} /\ count.handoff \in {0, 1}
    BY DEF IInv, WaitersBit, HandoffBit
  <2>2. wait_lock = None => \A t \in Tasks : pc[t] \notin {"r_add", "w_empty"}
    BY RwsemAssumption DEF IInv, LockHeld, LockedPC
  <2>3. wait_lock = None => (count.waiters = 1 <=> wait_list # <<>>)
    BY <2>2 DEF IInv, WaitersBit
  <2>4. QED
    BY <2>1, <2>3 DEF IInv, Word, WordExact
<1>2. QED
  BY <1>1, AlwaysIInv, PTL

\* A reader that rwsem_mark_wake() granted the lock, and took off the queue, sleeps
\* only while some task still has it on its wake_q: the grant is never forgotten.
THEOREM GrantsAreDelivered == Spec => []GrantedAreWoken
BY AlwaysIInv, PTL DEF IInv

\* What a step does to who has the lock is a step of the abstract lock.
LEMMA LockStep ==
  ASSUME IInv, NEW t \in Tasks, Frame(t), Admitted(t)
  PROVE  RwLock!Next \/ UNCHANGED <<Reading, Writing>>
<1>1. /\ \A u \in Tasks \ {t} : u \in Reading' <=> u \in Reading
      /\ \A u \in Tasks \ {t} : u \in Writing' <=> u \in Writing
  BY OthersSame
<1>2. /\ Reading \subseteq Tasks /\ Reading' \subseteq Tasks
      /\ Writing \subseteq Tasks /\ Writing' \subseteq Tasks
  BY DEF Reading, Writing
<1>3. ~(t \in Reading /\ t \in Writing) /\ ~(t \in Reading' /\ t \in Writing')
  BY DEF Reading, Writing, MarkPC
<1>4. Word /\ Exclusion /\ Locals
  BY DEF IInv
<1>5. CASE t \in Writing /\ t \notin Writing'
  <2>1. Writing = {t} /\ Writing' = {} /\ Reading = {}
    BY <1>1, <1>2, <1>4, <1>5, OneWriter DEF Exclusion
  <2>2. CASE t \in Reading'
    <3>1. Reading' = {t}
      BY <1>1, <1>2, <2>1, <2>2
    <3>2. RwLock!Downgrade(t)
      BY <2>1, <3>1 DEF RwLock!Downgrade
    <3>3. QED
      BY <3>2 DEF RwLock!Next
  <2>3. CASE t \notin Reading'
    <3>1. Reading' = Reading
      BY <1>1, <1>2, <2>1, <2>3
    <3>2. RwLock!ReleaseWrite(t)
      BY <2>1, <3>1 DEF RwLock!ReleaseWrite
    <3>3. QED
      BY <3>2 DEF RwLock!Next
  <2>4. QED
    BY <2>2, <2>3
<1>6. CASE t \in Writing' /\ t \notin Writing
  <2>1. Writing = {} /\ Reading = {}
    BY <1>4, <1>6, NoWriter, NoReaders DEF Admitted
  <2>2. Writing' = {t} /\ Reading' = Reading
    BY <1>1, <1>2, <1>3, <1>6, <2>1
  <2>3. RwLock!AcquireWrite(t)
    BY <2>1, <2>2 DEF RwLock!AcquireWrite
  <2>4. QED
    BY <2>3 DEF RwLock!Next
<1>7. CASE t \in Writing' <=> t \in Writing
  <2>1. Writing' = Writing
    BY <1>1, <1>2, <1>7
  <2>2. CASE t \in Reading' /\ t \notin Reading
    <3>1. Reading' = Reading \cup {t}
      BY <1>1, <1>2, <2>2
    <3>2. Writing = {}
      BY <1>3, <1>4, <1>7, <2>2, NoWriter DEF Admitted
    <3>3. RwLock!AcquireRead(t)
      BY <2>1, <2>2, <3>1, <3>2 DEF RwLock!AcquireRead
    <3>4. QED
      BY <3>3 DEF RwLock!Next
  <2>3. CASE t \notin Reading' /\ t \in Reading
    <3>1. Reading' = Reading \ {t}
      BY <1>1, <1>2, <2>3
    <3>2. RwLock!ReleaseRead(t)
      BY <2>1, <2>3, <3>1 DEF RwLock!ReleaseRead
    <3>3. QED
      BY <3>2 DEF RwLock!Next
  <2>4. CASE t \in Reading' <=> t \in Reading
    BY <1>1, <1>2, <2>1, <2>4
  <2>5. QED
    BY <2>2, <2>3, <2>4
<1>8. QED
  BY <1>5, <1>6, <1>7

\* The semaphore implements the abstract reader-writer lock: no writer holds it
\* with anybody else, and downgrade_write() passes through no state without owner.
THEOREM ImplementsRwLock == Spec => LockSpec
<1>1. Init => RwLock!Init
  BY DEF Init, RwLock!Init, Reading, Writing, MarkPC
<1>2. IInv /\ [Next]_vars => [RwLock!Next]_<<Reading, Writing>>
  <2>1. ASSUME UNCHANGED vars PROVE UNCHANGED <<Reading, Writing>>
    BY <2>1 DEF vars, Reading, Writing
  <2>2. ASSUME IInv, Next PROVE RwLock!Next \/ UNCHANGED <<Reading, Writing>>
    BY <2>2, TaskStep, LockStep
  <2>3. QED
    BY <2>1, <2>2
<1>3. QED
  BY <1>1, <1>2, AlwaysIInv, PTL DEF Spec, LockSpec, RwLock!Spec

\* Where a call looks at the handoff bit before it takes the lock.
Barred == {"r_try", "r_ptry", "r_lock", "out"}

\* What the handoff bit allows to task t.
HandoffOf(t) ==
  /\ t \in Writing' \ Writing => list_first_entry(wait_list).task = t
  /\ pc[t] \in Barred => t \notin Reading'

\* The steps that do not start where the bit is looked at take the lock for
\* nobody but a reader that was granted it or has counted itself before.
LEMMA OtherSteps ==
  ASSUME IInv, NEW t \in Tasks,
         \/ DowngradeWrite(t) \/ UpRead(t) \/ UpWrite(t) \/ ReadSlow(t)
         \/ ReadOsq(t) \/ ReadLook(t) \/ ReadBackOut(t) \/ ReadSpun(t) \/ ReadAdd(t)
         \/ ReadWait(t) \/ ReadSchedule(t) \/ WriteSlow(t) \/ WriteFail(t)
         \/ WriteSchedule(t) \/ WriteFirst(t) \/ WriteCount(t) \/ WriteEmpty(t)
         \/ MarkAdjust(t) \/ ReadSignal(t) \/ WriteLock(t) \/ WriteNoLock(t)
         \/ MarkFirst(t) \/ MarkUndo(t) \/ MarkGrant(t) \/ WakeUpQ(t)
  PROVE  HandoffOf(t)
<1>1. pc \in [Tasks -> PCs] /\ local \in [Tasks -> LocalType]
  BY StepTypes DEF IInv
<1>2. local[t].ret # "w_held"
  BY <1>1 DEF LocalType
<1> SUFFICES pc'[t] # "w_held" /\ (pc[t] \in Barred => t \notin Reading')
  BY DEF HandoffOf, Writing
<1>3. CASE DowngradeWrite(t)
  BY <1>1, <1>3 DEF DowngradeWrite, mark_wake, Finish, Goto, Barred
<1>4. CASE UpRead(t)
  BY <1>1, <1>4 DEF UpRead, mark_wake, Finish, Goto, Barred
<1>5. CASE UpWrite(t)
  BY <1>1, <1>5 DEF UpWrite, mark_wake, Finish, Goto, Barred
<1>6. CASE ReadSlow(t)
  BY <1>1, <1>6 DEF ReadSlow, Goto, Barred
<1>7. CASE ReadOsq(t)
  BY <1>1, <1>7 DEF ReadOsq, Goto, Barred
<1>8. CASE ReadLook(t)
  BY <1>1, <1>8 DEF ReadLook, Goto, Barred, Reading, MarkPC, LocalType
<1>9. CASE ReadBackOut(t)
  BY <1>1, <1>9 DEF ReadBackOut, Goto, Barred
<1>10. CASE ReadSpun(t)
  BY <1>1, <1>10 DEF ReadSpun, mark_wake, Finish, Goto, Barred
<1>11. CASE ReadAdd(t)
  BY <1>1, <1>11 DEF ReadAdd, Goto, Barred
<1>12. CASE ReadWait(t)
  BY <1>1, <1>12 DEF ReadWait, Finish, Goto, Barred
<1>13. CASE ReadSchedule(t)
  BY <1>1, <1>13 DEF ReadSchedule, Goto, Barred
<1>14. CASE WriteSlow(t)
  BY <1>1, <1>14 DEF WriteSlow, Goto, Barred
<1>15. CASE WriteFail(t)
  BY <1>1, <1>15 DEF WriteFail, Goto, Barred
<1>16. CASE WriteSchedule(t)
  BY <1>1, <1>16 DEF WriteSchedule, Goto, Barred
<1>17. CASE WriteFirst(t)
  BY <1>1, <1>17 DEF WriteFirst, Goto, Barred
<1>18. CASE WriteCount(t)
  BY <1>1, <1>18 DEF WriteCount, Goto, Barred
<1>19. CASE WriteEmpty(t)
  BY <1>1, <1>19 DEF WriteEmpty, Finish, Goto, Barred
<1>20. CASE MarkAdjust(t)
  BY <1>1, <1>20 DEF MarkAdjust, Goto, Barred
<1>21. CASE ReadSignal(t)
  BY <1>1, <1>21 DEF ReadSignal, Finish, Goto, Barred
<1>22. CASE WriteLock(t)
  BY <1>1, <1>22 DEF WriteLock, mark_wake, Goto, Barred
<1>23. CASE WriteNoLock(t)
  BY <1>1, <1>23 DEF WriteNoLock, mark_wake, Goto, Barred
<1>24. CASE MarkFirst(t) \/ MarkUndo(t) \/ MarkGrant(t) \/ WakeUpQ(t)
  <2>1. pc[t] \in MarkPC \cup {"wake"}
    BY <1>24 DEF MarkFirst, MarkUndo, MarkGrant, WakeUpQ, MarkPC
  <2>2. \/ Marked(t) \/ Return(t) \/ pc' = pc
        \/ \E l \in {"m_undo", "m_adjust"} : Goto(t, l)
    BY <1>24 DEF MarkFirst, MarkUndo, MarkGrant, WakeUpQ
  <2>3. pc'[t] # "w_held"
    BY <1>1, <1>2, <2>1, <2>2 DEF Marked, Return, Finish, Goto, MarkPC
  <2>4. QED
    BY <2>1, <2>3 DEF Barred, MarkPC
<1>25. QED
  BY <1>3, <1>4, <1>5, <1>6, <1>7, <1>8, <1>9, <1>10, <1>11, <1>12, <1>13, <1>14, <1>15,
     <1>16, <1>17, <1>18, <1>19, <1>20, <1>21, <1>22, <1>23, <1>24

\* The steps that do: a queued writer takes a lock whose handoff was asked for
\* only if it asked for it as the first on the queue; the others find the bit.
LEMMA TakingSteps ==
  ASSUME IInv, NEW t \in Tasks, count.handoff # 0,
         \/ Call(t) \/ ReadTry(t) \/ ReadLock(t) \/ WriteSpin(t) \/ WriteTry(t)
  PROVE  HandoffOf(t)
<1>1. pc \in [Tasks -> PCs] /\ local \in [Tasks -> LocalType]
  BY StepTypes DEF IInv
<1>2. LocalsOf(t) /\ FirstOf(t)
  BY DEF IInv, Locals, Firsts
<1>3. ReadFailed(count) /\ HandoffMask(count) /\ ~may_steal(count) /\ count # Unlocked
  BY DEF ReadFailed, HandoffMask, may_steal, Unlocked
<1>4. CASE Call(t)
  <2>1. ~DownReadTrylock(t) /\ ~DownWriteTrylock(t)
    BY <1>3 DEF DownReadTrylock, DownWriteTrylock
  <2>2. pc'[t] \in {"r_slow", "w_slow"}
    BY <1>1, <1>3, <1>4, <2>1 DEF Call, DownRead, DownWrite, Goto
  <2>3. QED
    BY <2>2 DEF HandoffOf, Writing, Reading, MarkPC
<1>5. CASE ReadTry(t)
  <2>1. pc'[t] \in {"r_back", "r_pback"}
    BY <1>1, <1>3, <1>5 DEF ReadTry, Goto
  <2>2. QED
    BY <2>1 DEF HandoffOf, Writing, Reading, MarkPC
<1>6. CASE ReadLock(t)
  <2>1. pc'[t] = "r_add"
    BY <1>1, <1>3, <1>6 DEF ReadLock, Goto
  <2>2. QED
    BY <2>1 DEF HandoffOf, Writing, Reading, MarkPC
<1>7. CASE WriteSpin(t)
  <2>1. pc'[t] = "w_lock"
    BY <1>1, <1>3, <1>7 DEF WriteSpin, Goto
  <2>2. QED
    BY <2>1 DEF HandoffOf, Writing, Reading, MarkPC
<1>8. CASE WriteTry(t)
  <2>1. pc[t] \in {"w_try", "w_relock"}
    BY <1>8 DEF WriteTry
  <2>2. CASE takes_lock(count, local[t].wstate)
    <3>1. local[t].wstate # "NOT_FIRST"
      BY <2>2 DEF takes_lock
    <3>2. list_first_entry(wait_list).task = t
      BY <1>2, <2>1, <3>1 DEF FirstOf, Marking, MarkPC
    <3>3. QED
      BY <2>1, <3>2 DEF HandoffOf, Barred
  <2>3. CASE ~takes_lock(count, local[t].wstate)
    <3>1. pc'[t] = "w_fail"
      BY <1>1, <1>8, <2>3 DEF WriteTry, Goto
    <3>2. QED
      BY <3>1 DEF HandoffOf, Writing, Reading, MarkPC
  <2>4. QED
    BY <2>2, <2>3
<1>9. QED
  BY <1>4, <1>5, <1>6, <1>7, <1>8

\* Signals take no lock.
LEMMA SignalSteps ==
  ASSUME IInv, NEW t \in Tasks, pc' = pc, local' = local
  PROVE  HandoffOf(t)
<1>1. LocalsOf(t)
  BY DEF IInv, Locals
<1>2. QED
  BY <1>1 DEF HandoffOf, Writing, Reading, Barred, MarkPC

\* A task that waits outside of the lock does not get it by the steps of others.
LEMMA HandoffOthers ==
  ASSUME NEW t \in Tasks, Frame(t), NEW u \in Tasks, u # t
  PROVE  HandoffOf(u)
<1>1. (u \in Reading' <=> u \in Reading) /\ (u \in Writing' <=> u \in Writing)
  BY OthersSame
<1>2. pc[u] \in Barred => u \notin Reading
  BY DEF Barred, Reading, MarkPC
<1>3. QED
  BY <1>1, <1>2 DEF HandoffOf

\* Once a waiter has asked for the handoff, neither spinners, nor newcomers, nor
\* writers further back take the semaphore before the first waiter.
THEOREM HandoffGoesToHead == Spec => HandoffToHead
<1>1. ASSUME IInv, Next, count.handoff # 0 PROVE \A u \in Tasks : HandoffOf(u)
  <2>1. PICK t \in Tasks : \/ Call(t) \/ RunStep(t) \/ WaitLockStep(t) \/ DowngradeWrite(t)
                           \/ SendSignal(t) \/ HandleSignal(t)
    BY <1>1 DEF Next
  <2>2. HandoffOf(t)
    <3>1. CASE SendSignal(t) \/ HandleSignal(t)
      BY <1>1, <3>1, SignalSteps DEF SendSignal, HandleSignal
    <3>2. CASE Call(t)
      BY <1>1, <3>2, TakingSteps
    <3>3. CASE RunStep(t) \/ WaitLockStep(t) \/ DowngradeWrite(t)
      BY <1>1, <3>3, TakingSteps, OtherSteps DEF RunStep, WaitLockStep
    <3>4. QED
      BY <2>1, <3>1, <3>2, <3>3
  <2>3. Frame(t)
    BY <1>1, <2>1, TaskFrame
  <2>4. QED
    BY <2>2, <2>3, HandoffOthers
<1>2. ASSUME IInv, [Next]_vars
      PROVE  [count.handoff # 0 =>
                \A t \in Tasks :
                  /\ t \in Writing' \ Writing => list_first_entry(wait_list).task = t
                  /\ pc[t] \in {"r_try", "r_ptry", "r_lock", "out"} => t \notin Reading']_vars
  BY <1>1, <1>2 DEF HandoffOf, Barred
<1>3. QED
  BY <1>2, AlwaysIInv, PTL DEF Spec, HandoffToHead

=============================================================================
