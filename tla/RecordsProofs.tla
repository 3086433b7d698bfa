---------------------------- MODULE RecordsProofs ----------------------------
(***************************************************************************)
(* Theorems about Records, for any agents, keys, sessions, processes and   *)
(* calls: one inductive invariant for each component, and the properties   *)
(* that follow from it.  A step of the composite is a step of the          *)
(* component that `part` names (Split), so each is proved by itself.       *)
(***************************************************************************)
EXTENDS Records, FiniteSetTheorems, WellFoundedInduction, TLAPS

\* A step of the composite is a step of one component, and leaves the others alone.
LEMMA Split ==
  ASSUME [Next]_all
  PROVE  /\ part' = part
         /\ part = "attempts" => Attempts!Next \/ UNCHANGED attemptVars
         /\ part = "sessions" => Sessions!Next \/ UNCHANGED sessionVars
         /\ part = "once" => Once!Next \/ UNCHANGED onceVars
         /\ part = "memory" => Memory!Next \/ UNCHANGED memoryVars
         /\ part = "tree" => Tree!Next \/ UNCHANGED treeVars
         /\ part = "recovery" => Recovery!Next \/ UNCHANGED recoveryVars
  <1>1. CASE UNCHANGED all
    BY <1>1 DEF all
  <1>2. CASE NextMemory
    BY <1>2 DEF NextMemory, MemoryStep, Memory!Next
  <1>3. CASE NextAttempts
    BY <1>3 DEF NextAttempts, AttemptStep, Attempts!Next, Attempts!N
  <1>4. CASE NextSessions
    BY <1>4 DEF NextSessions, SessionStep, Sessions!Next, Sessions!Lease
  <1>5. CASE NextTree
    BY <1>5 DEF NextTree, TreeStep, Tree!Next
  <1>6. CASE NextOnce
    BY <1>6 DEF NextOnce, OnceStep, Once!Next
  <1>7. CASE NextRecovery
    BY <1>7 DEF NextRecovery, RecoveryStep, Recovery!Next, Recovery!ServerStep, Recovery!Gen
  <1> QED
    BY <1>1, <1>2, <1>3, <1>4, <1>5, <1>6, <1>7 DEF Next

-----------------------------------------------------------------------------
(* Notes.                                                                  *)

\* The module of the notes counts with the same Cardinality.
LEMMA SameCount == ASSUME NEW S PROVE Memory!Cardinality(S) = Cardinality(S)
  BY DEF Memory!Cardinality, Cardinality

\* A set of naturals has a least element.
LEMMA LeastNat == ASSUME NEW S, S \subseteq Nat, S # {} PROVE \E x \in S : \A y \in S : x <= y
  <1> DEFINE R == OpToRel(<, Nat)
  <1>1. IsWellFoundedOn(R, Nat)
    BY NatLessThanWellFounded
  <1> HIDE DEF R
  <1>2. PICK x \in S : \A y \in S : ~(<<y, x>> \in R)
    BY <1>1, WFMin
  <1>3. ASSUME NEW y \in S PROVE x <= y
    <2>1. ~(<<y, x>> \in R)
      BY <1>2
    <2>2. y < x => <<y, x>> \in R
      BY DEF R, OpToRel
    <2> QED
      BY <2>1, <2>2
  <1> QED
    BY <1>3

\* A bounded set of naturals has a greatest element.
LEMMA GreatestNat ==
  ASSUME NEW S, S \subseteq Nat, S # {}, NEW b \in Nat, \A x \in S : x <= b
  PROVE  \E x \in S : \A y \in S : y <= x
  <1> DEFINE D == {b - x : x \in S}
  <1>0. \A x \in S : b - x \in Nat
    OBVIOUS
  <1>1. D \subseteq Nat /\ D # {}
    BY <1>0
  <1>2. PICK d \in D : \A e \in D : d <= e
    BY <1>1, LeastNat
  <1>3. PICK x \in S : d = b - x
    OBVIOUS
  <1>4. ASSUME NEW y \in S PROVE y <= x
    <2>1. b - y \in D
      OBVIOUS
    <2>2. b - x <= b - y
      BY <1>2, <1>3, <2>1
    <2> QED
      BY <2>2
  <1> QED
    BY <1>4

\* Revisions of a key are numbered in the order they were written in, and each has all that
\* the ones before it have; one of them is the last.
Ordered ==
    /\ \A n, m \in notes : n.cursor = m.cursor => n = m
    /\ \A n, m \in notes : n.key = m.key /\ n.cursor < m.cursor => n.body \subseteq m.body /\ n.rev < m.rev
    /\ \A n \in notes : \E m \in notes : m.key = n.key /\ \A o \in notes : o.key = n.key => o.cursor <= m.cursor

\* The first revision with a contribution is the one its agent wrote, once.
First(n, a) == a \in n.body /\ \A m \in notes : m.key = n.key /\ m.cursor < n.cursor => a \notin m.body
WrittenOnce == \A a \in Agents, n \in notes : First(n, a) => cache[a] # None /\ cache[a].answer = n

\* What an agent will send is made of a revision there is, or of none.
Composed ==
    \A a \in Agents : request[a] # None =>
        \/ request[a].expected = 0 /\ request[a].body = {a}
        \/ \E m \in notes : /\ m.key = request[a].key /\ m.rev = request[a].expected
                            /\ request[a].body = m.body \cup {a}

\* A reader has what it has passed.
Passed ==
    /\ mirror.got = {n.cursor : n \in {m \in notes : m.cursor <= mirror.since}}
    /\ scan.got \cup scan.omitted = {n.cursor : n \in {m \in Memory!Active(scan.at) : m.key <= scan.after}}
    /\ scan.done => Memory!Rows = {}

MemoryInv == Memory!TypeOK /\ IsFiniteSet(notes) /\ Ordered /\ WrittenOnce /\ Composed /\ Passed

\* At first there is no note.
LEMMA MemoryInit == ASSUME Memory!Init PROVE MemoryInv
  <1> USE RecordsAssumption DEF Memory!Sane
  <1>1. Memory!TypeOK
    <2>1. notes = {} /\ head = 0 /\ 0 \in 0..MaxEvents /\ working \subseteq Agents /\ told \subseteq Agents
      BY DEF Memory!Init
    <2>2. /\ cache \in [Agents -> Memory!Written \cup {None}]
          /\ request \in [Agents -> Memory!Request \cup {None}]
      BY DEF Memory!Init
    <2>3. /\ mirror \in [got : SUBSET Nat, since : Nat, until : Nat]
          /\ mirror.since <= mirror.until /\ mirror.until <= head
      BY DEF Memory!Init
    <2>4. /\ scan \in [at : Nat, after : Nat, got : SUBSET Nat, omitted : SUBSET Nat, done : BOOLEAN]
          /\ scan.at <= head
      BY DEF Memory!Init
    <2> QED
      BY <2>1, <2>2, <2>3, <2>4 DEF Memory!TypeOK
  <1>2. IsFiniteSet(notes) /\ Ordered /\ WrittenOnce
    BY FS_EmptySet DEF Memory!Init, Ordered, WrittenOnce
  <1>3. Composed /\ Passed
    BY DEF Memory!Init, Composed, Passed, Memory!Active, Memory!Current
  <1> QED
    BY <1>1, <1>2, <1>3 DEF MemoryInv

\* The last revision of a key, if there is one.
LEMMA Latest ==
  ASSUME MemoryInv, NEW k \in Keys
  PROVE  LET n == Memory!LatestOf(k) IN
         \/ n = Memory!Nothing /\ \A m \in notes : m.key # k
         \/ n \in notes /\ n.key = k /\ \A m \in notes : m.key = k => m.cursor <= n.cursor /\ m.rev <= n.rev
  <1> DEFINE n == Memory!LatestOf(k)
  <1> USE DEF Memory!Note
  <1>0. /\ notes \subseteq Memory!Note /\ head \in Nat /\ \A m \in notes : m.cursor <= head
        /\ \A m \in notes : m.rev \in Nat /\ m.cursor \in Nat
    BY RecordsAssumption DEF MemoryInv, Memory!TypeOK, Memory!Sane
  <1>1. Memory!Of(k, head) = {m \in notes : m.key = k}
    BY <1>0 DEF Memory!Of
  <1>2. CASE Memory!Of(k, head) = {}
    BY <1>1, <1>2 DEF Memory!LatestOf
  <1>3. CASE Memory!Of(k, head) # {}
    <2>1. PICK l \in notes : l.key = k /\ \A o \in notes : o.key = k => o.cursor <= l.cursor
      BY <1>1, <1>3 DEF MemoryInv, Ordered
    <2>2. ASSUME NEW o \in notes, o.key = k PROVE o.rev <= l.rev
      <3>1. o.cursor <= l.cursor
        BY <2>1, <2>2
      <3>2. CASE o.cursor = l.cursor
        BY <1>0, <3>2 DEF MemoryInv, Ordered
      <3>3. CASE o.cursor < l.cursor
        BY <1>0, <2>1, <2>2, <3>3 DEF MemoryInv, Ordered
      <3> QED
        BY <1>0, <3>1, <3>2, <3>3
    <2>3. \E x \in Memory!Of(k, head) : \A m \in Memory!Of(k, head) : m.rev <= x.rev
      BY <1>1, <2>1, <2>2
    <2>4. n \in Memory!Of(k, head) /\ \A m \in Memory!Of(k, head) : m.rev <= n.rev
      BY <1>3, <2>3 DEF Memory!LatestOf
    <2> HIDE DEF n
    <2>5. n \in notes /\ n.key = k
      BY <1>1, <2>4
    <2>6. n = l
      <3>1. n.cursor <= l.cursor /\ l.rev <= n.rev
        BY <1>1, <2>1, <2>4, <2>5
      <3>2. n.cursor < l.cursor => n.rev < l.rev
        BY <2>1, <2>5 DEF MemoryInv, Ordered
      <3>3. n.cursor = l.cursor
        BY <1>0, <2>5, <3>1, <3>2
      <3> QED
        BY <2>5, <3>3 DEF MemoryInv, Ordered
    <2> QED
      BY <2>1, <2>2, <2>6 DEF n
  <1> QED
    BY <1>2, <1>3

\* The types of what the proofs speak of.
LEMMA MemoryTypes ==
  ASSUME MemoryInv
  PROVE  /\ head \in Nat /\ notes \subseteq Memory!Note
         /\ \A n \in notes : /\ n.cursor \in Nat /\ n.rev \in Nat /\ n.cursor <= head /\ n.key \in Keys
                             /\ n.body \subseteq Agents /\ n.cursor # 0 /\ n.rev # 0
         /\ mirror.since \in Nat /\ mirror.until \in Nat /\ mirror.since <= mirror.until /\ mirror.until <= head
         /\ scan.at \in Nat /\ scan.after \in Nat /\ scan.at <= head
         /\ mirror.got \subseteq Nat /\ scan.got \subseteq Nat /\ scan.omitted \subseteq Nat
         /\ \A k \in Keys : k \in Nat /\ k # 0
  BY RecordsAssumption DEF MemoryInv, Memory!TypeOK, Memory!Note, Memory!Sane

\* What is current at a cursor that was passed does not change.
LEMMA Frozen ==
  ASSUME MemoryInv, NEW at \in Nat, at <= head, NEW r, r.cursor \in Nat, r.cursor > head,
         notes' = notes \/ notes' = notes \cup {r}
  PROVE  /\ Memory!Active(at)' = Memory!Active(at)
         /\ {m \in notes : m.cursor <= at}' = {m \in notes : m.cursor <= at}
  <1>1. head \in Nat /\ \A n \in notes : n.cursor \in Nat
    BY MemoryTypes
  <1>2. ~(r.cursor <= at)
    BY <1>1
  <1>3. {m \in notes' : m.cursor <= at} = {m \in notes : m.cursor <= at}
    BY <1>2
  <1>4. ASSUME NEW k PROVE Memory!Of(k, at)' = Memory!Of(k, at)
    BY <1>2 DEF Memory!Of
  <1>5. Memory!Current(at)' = Memory!Current(at)
    BY <1>2, <1>4 DEF Memory!Current
  <1> QED
    BY <1>3, <1>5 DEF Memory!Active

\* Steps that write no note.
LEMMA Unwritten ==
  ASSUME MemoryInv, UNCHANGED <<notes, head, cache>>, Memory!TypeOK', Composed', Passed'
  PROVE  MemoryInv'
  <1>1. Ordered' /\ WrittenOnce' /\ IsFiniteSet(notes)'
    BY DEF MemoryInv, Ordered, WrittenOnce, First
  <1> QED
    BY <1>1 DEF MemoryInv

\* Steps that leave the readers alone, and what was current at their cursors.
LEMMA ReadersAlone ==
  ASSUME MemoryInv, UNCHANGED <<mirror, scan>>, NEW r, r.cursor \in Nat, r.cursor > head,
         notes' = notes \/ notes' = notes \cup {r}
  PROVE  Passed'
  <1>1. /\ Memory!Active(scan.at)' = Memory!Active(scan.at)
        /\ {m \in notes : m.cursor <= mirror.since}' = {m \in notes : m.cursor <= mirror.since}
    <2>1. PICK at \in Nat : at = scan.at /\ at <= head
      BY MemoryTypes
    <2>2. PICK since \in Nat : since = mirror.since /\ since <= head
      BY MemoryTypes
    <2>3. Memory!Active(at)' = Memory!Active(at)
      BY <2>1, Frozen
    <2>4. {m \in notes : m.cursor <= since}' = {m \in notes : m.cursor <= since}
      BY <2>2, Frozen
    <2>5. scan'.at = at /\ mirror'.since = since
      BY <2>1, <2>2
    <2>6. Memory!Active(scan.at)' = Memory!Active(at)'
      BY <2>1, <2>5 DEF Memory!Active, Memory!Current, Memory!Of
    <2>7. Memory!Active(scan.at) = Memory!Active(at)
      BY <2>1
    <2> QED
      BY <2>2, <2>3, <2>4, <2>5, <2>6, <2>7
  <1>2. Memory!Rows' = Memory!Rows
    BY <1>1 DEF Memory!Rows
  <1> QED
    BY <1>1, <1>2 DEF MemoryInv, Passed

\* A composed note is made of the last revision there is.
LEMMA ComposeKeeps ==
  ASSUME MemoryInv, NEW a \in Agents, NEW k \in Keys, NEW life \in {"active", "archived"}, Memory!Compose(a, k, life)
  PROVE  MemoryInv'
  <1> DEFINE n == Memory!LatestOf(k)
             q == [key |-> k, expected |-> n.rev, body |-> n.body \cup {a}, life |-> life]
  <1>1. request' = [request EXCEPT ![a] = q] /\ UNCHANGED <<notes, head, cache, working, told, mirror, scan>>
    BY DEF Memory!Compose, Memory!writing, Memory!reading
  <1>2. \/ n = Memory!Nothing
        \/ n \in notes /\ n.key = k
    BY Latest
  <1>3. \/ n.rev = 0 /\ n.body = {}
        \/ n \in notes /\ n.key = k /\ n.rev \in Nat /\ n.body \subseteq Agents
    BY <1>2, MemoryTypes DEF Memory!Nothing
  <1> HIDE DEF n
  <1>4. q \in Memory!Request
    BY <1>3 DEF Memory!Request, Memory!Life
  <1>5. \/ q.expected = 0 /\ q.body = {a}
        \/ \E m \in notes : m.key = q.key /\ m.rev = q.expected /\ q.body = m.body \cup {a}
    BY <1>3
  <1> HIDE DEF q
  <1>6. /\ request'[a] = q /\ \A b \in Agents \ {a} : request'[b] = request[b]
        /\ request' \in [Agents -> Memory!Request \cup {None}]
    BY <1>1, <1>4 DEF MemoryInv, Memory!TypeOK
  <1>7. Memory!TypeOK'
    BY <1>1, <1>6 DEF MemoryInv, Memory!TypeOK
  <1>8. Composed'
    <2> SUFFICES ASSUME NEW b \in Agents, request'[b] # None
                 PROVE  \/ request'[b].expected = 0 /\ request'[b].body = {b}
                        \/ \E m \in notes : /\ m.key = request'[b].key /\ m.rev = request'[b].expected
                                            /\ request'[b].body = m.body \cup {b}
      BY <1>1 DEF Composed
    <2>1. CASE b = a
      BY <1>5, <1>6, <2>1
    <2>2. CASE b # a
      BY <1>6, <2>2 DEF MemoryInv, Composed
    <2> QED
      BY <2>1, <2>2
  <1>9. Passed'
    <2>1. [cursor |-> head + 1].cursor \in Nat /\ [cursor |-> head + 1].cursor > head
      BY MemoryTypes
    <2> QED
      BY <1>1, <2>1, ReadersAlone
  <1> QED
    BY <1>1, <1>7, <1>8, <1>9, Unwritten

\* Steps that forget a request or nothing, and write none.
LEMMA ForgetKeeps ==
  ASSUME MemoryInv, UNCHANGED <<notes, cache, mirror, scan>>, head' \in 0 .. MaxEvents, head <= head',
         working' \subseteq Agents, told' \subseteq Agents,
         request' = request \/ \E a \in Agents : request' = [request EXCEPT ![a] = None]
  PROVE  MemoryInv'
  <1> USE RecordsAssumption DEF Memory!Sane
  <1>1. /\ request' \in [Agents -> Memory!Request \cup {None}]
        /\ \A b \in Agents : request'[b] \in {None, request[b]}
    BY DEF MemoryInv, Memory!TypeOK
  <1>2. head \in Nat /\ mirror.until \in Nat /\ scan.at \in Nat /\ \A n \in notes : n.cursor \in Nat
    BY MemoryTypes
  <1>3. Memory!TypeOK'
    <2>1. /\ \A n \in notes' : n.cursor <= head'
          /\ mirror'.until <= head' /\ scan'.at <= head'
      BY <1>2 DEF MemoryInv, Memory!TypeOK
    <2> QED
      BY <1>1, <2>1 DEF MemoryInv, Memory!TypeOK
  <1>4. Composed'
    BY <1>1 DEF MemoryInv, Composed
  <1>5. Passed'
    <2>1. [cursor |-> head + 1].cursor \in Nat /\ [cursor |-> head + 1].cursor > head
      BY MemoryTypes
    <2> QED
      BY <2>1, ReadersAlone
  <1>6. Ordered' /\ WrittenOnce' /\ IsFiniteSet(notes)'
    BY DEF MemoryInv, Ordered, WrittenOnce, First
  <1> QED
    BY <1>3, <1>4, <1>5, <1>6 DEF MemoryInv

\* What is written is the next revision of its key: it has all that the last one has, and of the
\* contributions that are new in it only its agent's, who had written none.
LEMMA WriteKeeps ==
  ASSUME MemoryInv, NEW a \in Agents, request[a] # None, cache[a] = None, Memory!Expected(request[a]),
         head < MaxEvents, UNCHANGED <<working, mirror, scan>>, told' \subseteq Agents,
         notes' = notes \cup {Memory!Record(request[a])}, head' = head + 1,
         cache' = [cache EXCEPT ![a] = [request |-> request[a], answer |-> Memory!Record(request[a])]],
         request' = request \/ request' = [request EXCEPT ![a] = None]
  PROVE  MemoryInv'
  <1> USE RecordsAssumption DEF Memory!Sane
  <1>1. PICK q \in Memory!Request : q = request[a]
    BY DEF MemoryInv, Memory!TypeOK
  <1>2. PICK r : r = Memory!Record(q)
    OBVIOUS
  <1>3. /\ q.key \in Keys /\ q.expected \in Nat /\ q.body \subseteq Agents /\ q.life \in Memory!Life
        /\ head \in Nat
    BY MemoryTypes DEF Memory!Request
  <1>4. /\ r \in Memory!Note /\ r.key = q.key /\ r.rev = q.expected + 1 /\ r.body = q.body
        /\ r.cursor = head + 1
    BY <1>2, <1>3 DEF Memory!Record, Memory!Note
  <1>5. /\ notes' = notes \cup {r}
        /\ cache' = [cache EXCEPT ![a] = [request |-> q, answer |-> r]]
    BY <1>1, <1>2
  <1>6. \A n \in notes : /\ n.cursor \in Nat /\ n.rev \in Nat /\ n.cursor < r.cursor /\ n.cursor # r.cursor
                         /\ n.rev # 0
    BY <1>3, <1>4, MemoryTypes
  <1>7. r \notin notes
    BY <1>6
  \* The last revision is the one the request was made of.
  <1>8. \/ q.expected = 0 /\ q.body = {a} /\ \A m \in notes : m.key # q.key
        \/ \E l \in notes : /\ l.key = q.key /\ l.rev = q.expected /\ q.body = l.body \cup {a}
                            /\ \A m \in notes : m.key = q.key => m.cursor <= l.cursor /\ m.rev <= l.rev
    <2> DEFINE n == Memory!LatestOf(q.key)
    <2>1. n.rev = q.expected
      BY <1>1 DEF Memory!Expected
    <2>2. \/ n = Memory!Nothing /\ \A m \in notes : m.key # q.key
          \/ n \in notes /\ n.key = q.key /\ \A m \in notes : m.key = q.key => m.cursor <= n.cursor /\ m.rev <= n.rev
      BY <1>3, Latest
    <2> HIDE DEF n
    <2>3. \/ q.expected = 0 /\ q.body = {a}
          \/ \E m \in notes : m.key = q.key /\ m.rev = q.expected /\ q.body = m.body \cup {a}
      BY <1>1 DEF MemoryInv, Composed
    <2>4. CASE n = Memory!Nothing /\ \A m \in notes : m.key # q.key
      BY <2>3, <2>4
    <2>5. CASE n \in notes /\ n.key = q.key /\ \A m \in notes : m.key = q.key => m.cursor <= n.cursor /\ m.rev <= n.rev
      <3>1. n.rev # 0
        BY <1>6, <2>5
      <3>2. PICK m \in notes : m.key = q.key /\ m.rev = q.expected /\ q.body = m.body \cup {a}
        BY <2>1, <2>3, <3>1
      <3>3. ~(m.cursor < n.cursor)
        BY <1>6, <2>1, <2>5, <3>2 DEF MemoryInv, Ordered
      <3>4. m.cursor = n.cursor
        BY <1>6, <2>5, <3>2, <3>3
      <3>5. m = n
        BY <2>5, <3>4 DEF MemoryInv, Ordered
      <3> QED
        BY <2>5, <3>2, <3>5
    <2> QED
      BY <2>2, <2>4, <2>5
  <1>9. \A n \in notes : n.key = r.key => n.body \subseteq r.body /\ n.rev < r.rev
    <2> SUFFICES ASSUME NEW n \in notes, n.key = q.key PROVE n.body \subseteq q.body /\ n.rev < q.expected + 1
      BY <1>4
    <2>1. PICK l \in notes : /\ l.key = q.key /\ l.rev = q.expected /\ q.body = l.body \cup {a}
                             /\ \A m \in notes : m.key = q.key => m.cursor <= l.cursor /\ m.rev <= l.rev
      BY <1>8
    <2>2. n.cursor <= l.cursor /\ n.rev <= l.rev
      BY <2>1
    <2>3. n.body \subseteq l.body
      <3>1. CASE n.cursor = l.cursor
        BY <3>1 DEF MemoryInv, Ordered
      <3>2. CASE n.cursor < l.cursor
        BY <2>1, <3>2 DEF MemoryInv, Ordered
      <3> QED
        BY <1>6, <2>2, <3>1, <3>2
    <2> QED
      BY <1>3, <1>6, <2>1, <2>2, <2>3
  <1>10. Ordered'
    <2>1. \A n, m \in notes' : n.cursor = m.cursor => n = m
      BY <1>5, <1>6 DEF MemoryInv, Ordered
    <2>2. ASSUME NEW n \in notes', NEW m \in notes', n.key = m.key, n.cursor < m.cursor
          PROVE  n.body \subseteq m.body /\ n.rev < m.rev
      <3>1. n \in notes
        <4>1. CASE m = r
          BY <1>4, <1>5, <2>2, <4>1, <1>3
        <4>2. CASE m # r
          BY <1>3, <1>4, <1>5, <1>6, <2>2, <4>2
        <4> QED
          BY <4>1, <4>2
      <3> QED
        BY <1>5, <1>9, <2>2, <3>1 DEF MemoryInv, Ordered
    <2>3. ASSUME NEW n \in notes'
          PROVE  \E m \in notes' : m.key = n.key /\ \A o \in notes' : o.key = n.key => o.cursor <= m.cursor
      <3>1. CASE n.key = r.key
        BY <1>3, <1>4, <1>5, <1>6, <3>1
      <3>2. CASE n.key # r.key
        <4>1. n \in notes
          BY <1>5, <3>2
        <4>2. PICK m \in notes : m.key = n.key /\ \A o \in notes : o.key = n.key => o.cursor <= m.cursor
          BY <4>1 DEF MemoryInv, Ordered
        <4> QED
          BY <1>5, <3>2, <4>2
      <3> QED
        BY <3>1, <3>2
    <2> QED
      BY <2>1, <2>2, <2>3 DEF Ordered
  <1>11. cache'[a] = [request |-> q, answer |-> r] /\ \A b \in Agents \ {a} : cache'[b] = cache[b]
    BY <1>5 DEF MemoryInv, Memory!TypeOK
  <1>12. [request |-> q, answer |-> r] \in Memory!Written
    BY <1>4 DEF Memory!Written
  <1>13. WrittenOnce'
    <2> SUFFICES ASSUME NEW b \in Agents, NEW n \in notes', First(n, b)'
                 PROVE  cache'[b] # None /\ cache'[b].answer = n
      BY DEF WrittenOnce
    <2>1. b \in n.body /\ \A m \in notes' : m.key = n.key /\ m.cursor < n.cursor => b \notin m.body
      BY DEF First
    <2>2. CASE n = r
      <3>1. b = a
        <4>1. CASE q.expected = 0 /\ q.body = {a}
          BY <1>4, <2>1, <2>2, <4>1
        <4>2. CASE \E l \in notes : l.key = q.key /\ l.rev = q.expected /\ q.body = l.body \cup {a}
          <5>1. PICK l \in notes : l.key = q.key /\ q.body = l.body \cup {a}
            BY <4>2
          <5>2. b \notin l.body
            BY <1>4, <1>5, <1>6, <2>1, <2>2, <5>1
          <5> QED
            BY <1>4, <2>1, <2>2, <5>1, <5>2
        <4> QED
          BY <1>8, <4>1, <4>2
      <3> QED
        BY <1>11, <1>12, <2>2, <3>1
    <2>3. CASE n # r
      <3>1. n \in notes /\ First(n, b)
        BY <1>5, <2>1, <2>3 DEF First
      <3>2. cache[b] # None /\ cache[b].answer = n
        BY <3>1 DEF MemoryInv, WrittenOnce
      <3>3. b # a
        BY <3>2
      <3> QED
        BY <1>11, <3>2, <3>3
    <2> QED
      BY <2>2, <2>3
  <1>14. /\ request' \in [Agents -> Memory!Request \cup {None}]
         /\ \A b \in Agents : request'[b] \in {None, request[b]}
    BY DEF MemoryInv, Memory!TypeOK
  <1>15. Composed'
    BY <1>5, <1>14 DEF MemoryInv, Composed
  <1>16. Memory!TypeOK'
    <2>1. head' \in 0 .. MaxEvents
      BY <1>3
    <2>2. notes' \subseteq Memory!Note /\ \A n \in notes' : n.cursor <= head'
      BY <1>3, <1>4, <1>5, <1>6 DEF MemoryInv, Memory!TypeOK
    <2>3. cache' \in [Agents -> Memory!Written \cup {None}]
      BY <1>5, <1>12 DEF MemoryInv, Memory!TypeOK
    <2>4. mirror.until <= head + 1 /\ scan.at <= head + 1
      BY MemoryTypes
    <2> QED
      BY <1>14, <2>1, <2>2, <2>3, <2>4 DEF MemoryInv, Memory!TypeOK
  <1>17. IsFiniteSet(notes')
    BY <1>5, FS_AddElement DEF MemoryInv
  <1>18. Passed'
    <2>1. r.cursor \in Nat /\ r.cursor > head
      BY <1>3, <1>4
    <2> QED
      BY <1>5, <2>1, ReadersAlone
  <1> QED
    BY <1>10, <1>13, <1>15, <1>16, <1>17, <1>18 DEF MemoryInv

\* An upsert writes, or changes no note.
LEMMA UpsertKeeps ==
  ASSUME MemoryInv, NEW a \in Agents, NEW refused \in BOOLEAN, NEW lost \in BOOLEAN, Memory!Upsert(a, refused, lost)
  PROVE  MemoryInv'
  <1> USE RecordsAssumption DEF Memory!Sane
  <1> DEFINE outcome == IF refused /\ Memory!Outcome(a) = "written" THEN "conflict" ELSE Memory!Outcome(a)
  <1>1. /\ request[a] # None /\ UNCHANGED <<working, mirror, scan>>
        /\ request' = request \/ request' = [request EXCEPT ![a] = None]
    BY DEF Memory!Upsert, Memory!reading
  <1>2. told' \subseteq Agents
    BY DEF Memory!Upsert, MemoryInv, Memory!TypeOK
  <1>3. CASE outcome = "written"
    <2>1. Memory!Outcome(a) = "written"
      BY <1>3
    <2>2. cache[a] = None /\ Memory!Expected(request[a])
      BY <2>1 DEF Memory!Outcome, Memory!Cached
    <2>3. /\ head < MaxEvents /\ notes' = notes \cup {Memory!Record(request[a])} /\ head' = head + 1
          /\ cache' = [cache EXCEPT ![a] = [request |-> request[a], answer |-> Memory!Record(request[a])]]
      BY <1>3 DEF Memory!Upsert
    <2> QED
      BY <1>1, <1>2, <2>2, <2>3, WriteKeeps
  <1>4. CASE outcome # "written"
    <2>1. UNCHANGED <<notes, head, cache>>
      BY <1>4 DEF Memory!Upsert, Memory!writing
    <2>2. head' \in 0..MaxEvents /\ head <= head' /\ working' \subseteq Agents
      BY <1>1, <2>1, MemoryTypes DEF MemoryInv, Memory!TypeOK
    <2> QED
      BY <1>1, <1>2, <2>1, <2>2, ForgetKeeps
  <1> QED
    BY <1>3, <1>4

\* A set without what lies above one of its members counts less.
LEMMA Counts ==
  ASSUME NEW S, NEW T, T \subseteq S, IsFiniteSet(S)
  PROVE  Cardinality(T) \in Nat /\ Cardinality(S) \in Nat /\ Cardinality(T) <= Cardinality(S)
  BY FS_Subset, FS_CardinalityType

\* A page of changes leaves none out below its last one.
LEMMA ReadChangesKeeps ==
  ASSUME MemoryInv, NEW n \in 1..Limit, Memory!ReadChanges(n) PROVE MemoryInv'
  <1> USE RecordsAssumption DEF Memory!Sane
  <1>1. PICK page : page = Memory!FirstChanges(n)
    OBVIOUS
  <1>2. PICK since \in Nat : since = mirror.since
    BY MemoryTypes
  <1>3. PICK changes : changes = Memory!Changes
    OBVIOUS
  <1>4. /\ UNCHANGED <<notes, head, cache, working, request, told, scan>>
        /\ mirror' = [mirror EXCEPT !.got = @ \cup {c.cursor : c \in page}, !.since = Memory!PageCursor(page)]
    BY <1>1 DEF Memory!ReadChanges, Memory!writing
  <1>5. \A m \in notes : m.cursor \in Nat
    BY MemoryTypes
  <1>6. changes = {m \in notes : since < m.cursor /\ m.cursor <= mirror.until} /\ IsFiniteSet(changes)
    <2>1. changes = {m \in notes : since < m.cursor /\ m.cursor <= mirror.until}
      BY <1>2, <1>3 DEF Memory!Changes
    <2> QED
      BY <2>1, FS_Subset DEF MemoryInv
  <1>7. page = {c \in changes : Cardinality({d \in changes : d.cursor <= c.cursor}) <= n}
    BY <1>1, <1>3, SameCount DEF Memory!FirstChanges
  <1>8. \A c \in page : c \in notes /\ c.cursor \in Nat /\ since < c.cursor /\ c.cursor <= mirror.until
    BY <1>5, <1>6, <1>7
  <1>9. PICK last : last = Memory!PageCursor(page)
    OBVIOUS
  <1>10. \/ page = {} /\ last = since
         \/ \E c \in page : c.cursor = last /\ \A d \in page : d.cursor <= last
    <2>1. CASE page = {}
      BY <1>2, <1>9, <2>1 DEF Memory!PageCursor
    <2>2. CASE page # {}
      <3> DEFINE S == {c.cursor : c \in page}
      <3>1. S \subseteq Nat /\ S # {} /\ mirror.until \in Nat /\ \A x \in S : x <= mirror.until
        BY <1>8, <2>2, MemoryTypes
      <3>2. PICK x \in S : \A y \in S : y <= x
        <4> HIDE DEF S
        <4> QED
          BY <3>1, GreatestNat
      <3>3. PICK c \in page : c.cursor = x
        OBVIOUS
      <3>4. \A d \in page : d.cursor <= c.cursor
        BY <3>2, <3>3
      <3> DEFINE top == CHOOSE m \in page : \A d \in page : d.cursor <= m.cursor
      <3>5. top \in page /\ \A d \in page : d.cursor <= top.cursor
        BY <3>4
      <3>6. last = top.cursor
        BY <1>9, <2>2 DEF Memory!PageCursor
      <3> QED
        BY <3>5, <3>6
    <2> QED
      BY <2>1, <2>2
  <1>11. last \in Nat /\ since <= last /\ last <= mirror.until
    BY <1>2, <1>8, <1>10, MemoryTypes
  <1>12. {m \in notes : m.cursor <= last} = {m \in notes : m.cursor <= since} \cup page
    <2>1. CASE page = {} /\ last = since
      BY <2>1
    <2>2. CASE \E c \in page : c.cursor = last /\ \A d \in page : d.cursor <= last
      <3>1. PICK c \in page : c.cursor = last /\ \A d \in page : d.cursor <= last
        BY <2>2
      <3>2. ASSUME NEW m \in notes, m.cursor <= last, ~(m.cursor <= since) PROVE m \in page
        <4>1. m \in changes
          BY <1>2, <1>5, <1>6, <1>11, <3>2, MemoryTypes
        <4> DEFINE below == {d \in changes : d.cursor <= m.cursor}
                   upto == {d \in changes : d.cursor <= c.cursor}
        <4>2. below \subseteq upto /\ upto \subseteq changes
          BY <1>5, <1>6, <1>8, <3>1, <3>2
        <4>3. IsFiniteSet(upto)
          BY <1>6, <4>2, FS_Subset
        <4>4. Cardinality(upto) <= n
          BY <1>7
        <4>5. Cardinality(below) <= n
          <5> HIDE DEF below, upto
          <5> QED
            BY <4>2, <4>3, <4>4, Counts
        <4> QED
          BY <1>7, <4>1, <4>5
      <3>3. \A m \in notes : m.cursor <= since => m.cursor <= last
        BY <1>5, <1>11
      <3> QED
        BY <1>8, <3>1, <3>2, <3>3
    <2> QED
      BY <1>10, <2>1, <2>2
  <1>13. /\ mirror' \in [got : SUBSET Nat, since : Nat, until : Nat]
         /\ mirror'.got = mirror.got \cup {c.cursor : c \in page} /\ mirror'.since = last
         /\ mirror'.until = mirror.until
    <2>1. mirror \in [got : SUBSET Nat, since : Nat, until : Nat]
      BY DEF MemoryInv, Memory!TypeOK
    <2>2. {c.cursor : c \in page} \subseteq Nat
      BY <1>8
    <2> QED
      BY <1>4, <1>9, <1>11, <2>1, <2>2
  <1>14. Memory!TypeOK'
    BY <1>4, <1>11, <1>13 DEF MemoryInv, Memory!TypeOK
  <1>15. Composed'
    BY <1>4 DEF MemoryInv, Composed
  <1>16. mirror'.got = {m.cursor : m \in {o \in notes : o.cursor <= last}}
    <2>1. mirror.got = {m.cursor : m \in {o \in notes : o.cursor <= since}}
      BY <1>2 DEF MemoryInv, Passed
    <2> QED
      BY <1>12, <1>13, <2>1
  <1>17. Passed'
    <2>1. Memory!Active(scan.at)' = Memory!Active(scan.at) /\ Memory!Rows' = Memory!Rows
      BY <1>4 DEF Memory!Active, Memory!Current, Memory!Of, Memory!Rows
    <2> QED
      BY <1>4, <1>13, <1>16, <2>1 DEF MemoryInv, Passed
  <1> QED
    BY <1>4, <1>14, <1>15, <1>17, Unwritten

\* Of one key one note is current.
LEMMA OneCurrent ==
  ASSUME MemoryInv, NEW at, NEW n \in Memory!Active(at), NEW m \in Memory!Active(at), n.key = m.key PROVE n = m
  <1>1. n \in notes /\ m \in notes /\ n.rev <= m.rev /\ m.rev <= n.rev
    BY DEF Memory!Active, Memory!Current, Memory!Of
  <1>2. n.rev \in Nat /\ m.rev \in Nat /\ n.cursor \in Nat /\ m.cursor \in Nat
    BY <1>1, MemoryTypes
  <1>3. ~(n.cursor < m.cursor) /\ ~(m.cursor < n.cursor)
    BY <1>1, <1>2 DEF MemoryInv, Ordered
  <1> QED
    BY <1>1, <1>2, <1>3 DEF MemoryInv, Ordered

\* Of finitely many rows one has the greatest key.
LEMMA GreatestKey ==
  ASSUME NEW S, IsFiniteSet(S), S # {}, \A r \in S : r.key \in Nat
  PROVE  \E r \in S : \A s \in S : s.key <= r.key
  <1> DEFINE Above(r) == {s \in S : s.key > r.key}
             C == {Cardinality(Above(r)) : r \in S}
  <1>1. \A r \in S : Above(r) \subseteq S
    OBVIOUS
  <1>2. \A r \in S : IsFiniteSet(Above(r)) /\ Cardinality(Above(r)) \in Nat
    <2> SUFFICES ASSUME NEW r \in S PROVE IsFiniteSet(Above(r)) /\ Cardinality(Above(r)) \in Nat
      OBVIOUS
    <2>1. IsFiniteSet(Above(r))
      BY <1>1, FS_Subset
    <2> HIDE DEF Above
    <2> QED
      BY <2>1, FS_CardinalityType
  <1>3. C \subseteq Nat /\ C # {}
    <2> HIDE DEF Above
    <2> QED
      BY <1>2
  <1>4. PICK c \in C : \A d \in C : c <= d
    <2> HIDE DEF C
    <2> QED
      BY <1>3, LeastNat
  <1>5. PICK r \in S : c = Cardinality(Above(r))
    OBVIOUS
  <1>6. ASSUME NEW s \in S, ~(s.key <= r.key) PROVE FALSE
    <2>1. Above(s) \subseteq Above(r) /\ s \in Above(r) /\ s \notin Above(s)
      BY <1>6
    <2>2. Cardinality(Above(s)) < Cardinality(Above(r))
      <3>1. Above(s) # Above(r)
        BY <2>1
      <3>2. IsFiniteSet(Above(r))
        BY <1>2
      <3>3. Cardinality(Above(s)) \in Nat /\ Cardinality(Above(r)) \in Nat
        BY <1>2
      <3>4. /\ Cardinality(Above(s)) <= Cardinality(Above(r))
            /\ Cardinality(Above(r)) = Cardinality(Above(s)) => Above(r) = Above(s)
        <4>1. Above(s) \in SUBSET Above(r)
          BY <2>1
        <4> HIDE DEF Above
        <4> QED
          BY <4>1, <3>2, FS_Subset
      <3> HIDE DEF Above
      <3> QED
        BY <3>1, <3>3, <3>4
    <2>3. Cardinality(Above(r)) <= Cardinality(Above(s))
      <3>1. Cardinality(Above(s)) \in C
        OBVIOUS
      <3> QED
        BY <1>4, <1>5, <3>1
    <2>4. Cardinality(Above(s)) \in Nat /\ Cardinality(Above(r)) \in Nat
      BY <1>2
    <2> HIDE DEF Above
    <2> QED
      BY <2>2, <2>3, <2>4
  <1> QED
    BY <1>6

\* A page of a scan holds a row, and leaves none out below its last one.
LEMMA ReadContextKeeps ==
  ASSUME MemoryInv, NEW n \in 1..Limit, Memory!ReadContext(n) PROVE MemoryInv'
  <1> USE RecordsAssumption DEF Memory!Sane
  <1>1. PICK page : page = Memory!FirstRows(n)
    OBVIOUS
  <1>2. PICK after \in Nat : after = scan.after
    BY MemoryTypes
  <1>3. PICK at \in Nat : at = scan.at
    BY MemoryTypes
  <1>4. PICK rows1 : rows1 = Memory!Rows
    OBVIOUS
  <1>5. PICK large : large = {r \in page : r.key \in Big}
    OBVIOUS
  <1>6. PICK last : last = (CHOOSE r \in page : \A s \in page : s.key <= r.key).key
    OBVIOUS
  <1>7. /\ UNCHANGED <<notes, head, cache, working, request, told, mirror>>
        /\ rows1 # {} /\ ~scan.done
        /\ scan' = [scan EXCEPT !.got = @ \cup {r.cursor : r \in page \ large},
                                !.omitted = @ \cup {r.cursor : r \in large}, !.after = last]
    BY <1>1, <1>4, <1>5, <1>6 DEF Memory!ReadContext, Memory!writing
  <1>8. /\ rows1 = {r \in Memory!Active(at) : r.key > after}
        /\ Memory!Active(at) \subseteq notes
    BY <1>2, <1>3, <1>4 DEF Memory!Rows, Memory!Active, Memory!Current
  <1>9. \A r \in notes : r.key \in Nat /\ r.key # 0 /\ r.key \in Keys /\ r.cursor \in Nat
    BY MemoryTypes
  <1>10. IsFiniteSet(rows1)
    <2>1. rows1 \subseteq notes
      BY <1>8
    <2> QED
      BY <2>1, FS_Subset DEF MemoryInv
  <1>11. page = {r \in rows1 : Cardinality({s \in rows1 : s.key <= r.key}) <= n}
    BY <1>1, <1>4, SameCount DEF Memory!FirstRows
  <1>12. page # {}
    <2> DEFINE K == {r.key : r \in rows1}
    <2>1. K \subseteq Nat /\ K # {}
      BY <1>7, <1>8, <1>9
    <2>2. PICK k \in K : \A l \in K : k <= l
      <3> HIDE DEF K
      <3> QED
        BY <2>1, LeastNat
    <2>3. PICK r \in rows1 : r.key = k
      OBVIOUS
    <2>4. \A s \in rows1 : s.key <= r.key => s = r
      <3> SUFFICES ASSUME NEW s \in rows1, s.key <= r.key PROVE s = r
        OBVIOUS
      <3>1. s.key = r.key
        <4>1. s.key \in K
          OBVIOUS
        <4>2. r.key <= s.key
          BY <2>2, <2>3, <4>1
        <4>3. s.key \in Nat /\ r.key \in Nat
          BY <1>8, <1>9
        <4> HIDE DEF K
        <4> QED
          BY <4>2, <4>3
      <3>2. s \in Memory!Active(at) /\ r \in Memory!Active(at)
        BY <1>8
      <3> QED
        BY <3>1, <3>2, OneCurrent
    <2>5. r.key <= r.key
      BY <1>8, <1>9
    <2>6. {s \in rows1 : s.key <= r.key} = {r}
      BY <2>4, <2>5
    <2>7. Cardinality({s \in rows1 : s.key <= r.key}) <= n
      <3>1. Cardinality({r}) = 1
        BY FS_Singleton
      <3> QED
        BY <2>6, <3>1
    <2> QED
      BY <1>11, <2>7
  <1>13. \E r \in page : r.key = last /\ \A s \in page : s.key <= last
    <2>1. page \subseteq rows1 /\ rows1 \subseteq notes
      BY <1>8, <1>11
    <2>2. IsFiniteSet(page)
      BY <1>10, <2>1, FS_Subset
    <2> DEFINE top == CHOOSE r \in page : \A s \in page : s.key <= r.key
    <2>3. \E r \in page : \A s \in page : s.key <= r.key
      BY <1>9, <1>12, <2>1, <2>2, GreatestKey
    <2>4. top \in page /\ \A s \in page : s.key <= top.key
      BY <2>3
    <2> QED
      BY <1>6, <2>4
  <1>14. last \in Nat /\ after < last
    BY <1>8, <1>9, <1>11, <1>13
  <1>15. {r \in Memory!Active(at) : r.key <= last} = {r \in Memory!Active(at) : r.key <= after} \cup page
    <2>1. PICK top \in page : top.key = last /\ \A s \in page : s.key <= last
      BY <1>13
    <2>2. ASSUME NEW r \in Memory!Active(at), r.key <= last, ~(r.key <= after) PROVE r \in page
      <3>1. r \in rows1
        BY <1>8, <1>9, <2>2
      <3> DEFINE below == {s \in rows1 : s.key <= r.key}
                 upto == {s \in rows1 : s.key <= top.key}
      <3>2. below \subseteq upto /\ upto \subseteq rows1
        BY <1>8, <1>9, <1>14, <2>1, <2>2
      <3>3. IsFiniteSet(upto)
        BY <1>10, <3>2, FS_Subset
      <3>4. Cardinality(upto) <= n
        BY <1>11
      <3>5. Cardinality(below) <= n
        <4> HIDE DEF below, upto
        <4> QED
          BY <3>2, <3>3, <3>4, Counts
      <3> QED
        BY <1>11, <3>1, <3>5
    <2>3. \A r \in Memory!Active(at) : r.key <= after => r.key <= last
      BY <1>8, <1>9, <1>14
    <2>4. \A r \in page : r \in Memory!Active(at) /\ r.key <= last
      BY <1>8, <1>11, <2>1
    <2> QED
      BY <2>2, <2>3, <2>4
  <1>16. page \subseteq notes /\ large \subseteq page
    BY <1>5, <1>8, <1>11
  <1>17. /\ scan' \in [at : Nat, after : Nat, got : SUBSET Nat, omitted : SUBSET Nat, done : BOOLEAN]
         /\ scan'.at = at /\ scan'.after = last /\ ~scan'.done
         /\ scan'.got \cup scan'.omitted = scan.got \cup scan.omitted \cup {r.cursor : r \in page}
    <2>1. scan \in [at : Nat, after : Nat, got : SUBSET Nat, omitted : SUBSET Nat, done : BOOLEAN]
      BY DEF MemoryInv, Memory!TypeOK
    <2>2. {r.cursor : r \in page \ large} \subseteq Nat /\ {r.cursor : r \in large} \subseteq Nat
      BY <1>9, <1>16
    <2>3. {r.cursor : r \in page \ large} \cup {r.cursor : r \in large} = {r.cursor : r \in page}
      BY <1>16
    <2>4. /\ scan'.got = scan.got \cup {r.cursor : r \in page \ large}
          /\ scan'.omitted = scan.omitted \cup {r.cursor : r \in large}
          /\ scan'.at = at /\ scan'.after = last /\ scan'.done = scan.done
      BY <1>3, <1>7, <2>1
    <2>5. scan' \in [at : Nat, after : Nat, got : SUBSET Nat, omitted : SUBSET Nat, done : BOOLEAN]
      BY <1>7, <1>14, <2>1, <2>2
    <2> QED
      BY <1>7, <2>3, <2>4, <2>5
  <1>18. Memory!TypeOK'
    BY <1>3, <1>7, <1>17 DEF MemoryInv, Memory!TypeOK
  <1>19. Composed'
    BY <1>7 DEF MemoryInv, Composed
  <1>20. Passed'
    <2>1. Memory!Active(scan.at)' = Memory!Active(at)
      BY <1>7, <1>17 DEF Memory!Active, Memory!Current, Memory!Of
    <2>2. scan.got \cup scan.omitted = {r.cursor : r \in {m \in Memory!Active(at) : m.key <= after}}
      BY <1>2, <1>3 DEF MemoryInv, Passed
    <2>3. scan'.got \cup scan'.omitted = {r.cursor : r \in {m \in Memory!Active(at) : m.key <= last}}
      BY <1>15, <1>17, <2>2
    <2>4. (scan.got \cup scan.omitted = {r.cursor : r \in {m \in Memory!Active(scan.at) : m.key <= scan.after}})'
      BY <1>17, <2>1, <2>3
    <2>5. (mirror.got = {m.cursor : m \in {o \in notes : o.cursor <= mirror.since}})'
      BY <1>7 DEF MemoryInv, Passed
    <2> QED
      BY <1>17, <2>4, <2>5 DEF Passed
  <1> QED
    BY <1>7, <1>18, <1>19, <1>20, Unwritten

\* A scan of changes is frozen anew.
LEMMA FreezeChangesKeeps == ASSUME MemoryInv, Memory!FreezeChanges PROVE MemoryInv'
  <1> USE RecordsAssumption DEF Memory!Sane
  <1>1. /\ UNCHANGED <<notes, head, cache, working, request, told, scan>>
        /\ mirror' = [mirror EXCEPT !.until = head]
    BY DEF Memory!FreezeChanges, Memory!writing
  <1>2. /\ mirror' \in [got : SUBSET Nat, since : Nat, until : Nat]
        /\ mirror'.got = mirror.got /\ mirror'.since = mirror.since /\ mirror'.until = head
    <2>1. mirror \in [got : SUBSET Nat, since : Nat, until : Nat] /\ head \in Nat
      BY MemoryTypes DEF MemoryInv, Memory!TypeOK
    <2> QED
      BY <1>1, <2>1
  <1>3. mirror'.since <= mirror'.until /\ mirror'.until <= head
    BY <1>2, MemoryTypes
  <1>4. Memory!TypeOK'
    BY <1>1, <1>2, <1>3 DEF MemoryInv, Memory!TypeOK
  <1>5. Composed'
    BY <1>1 DEF MemoryInv, Composed
  <1>6. Passed'
    <2>1. Memory!Active(scan.at)' = Memory!Active(scan.at) /\ Memory!Rows' = Memory!Rows
      BY <1>1 DEF Memory!Active, Memory!Current, Memory!Of, Memory!Rows
    <2> QED
      BY <1>1, <1>2, <2>1 DEF MemoryInv, Passed
  <1> QED
    BY <1>1, <1>4, <1>5, <1>6, Unwritten

\* A scan of notes is frozen anew: it has passed nothing, and has nothing.
LEMMA FreezeContextKeeps == ASSUME MemoryInv, Memory!FreezeContext PROVE MemoryInv'
  <1> USE RecordsAssumption DEF Memory!Sane
  <1>1. /\ UNCHANGED <<notes, head, cache, working, request, told, mirror>>
        /\ scan' = [at |-> head, after |-> 0, got |-> {}, omitted |-> {}, done |-> FALSE]
    BY DEF Memory!FreezeContext, Memory!writing
  <1>2. Memory!TypeOK'
    <2>0. head \in Nat
      BY MemoryTypes
    <2>1. scan' \in [at : Nat, after : Nat, got : SUBSET Nat, omitted : SUBSET Nat, done : BOOLEAN] /\ scan'.at <= head
      BY <1>1, <2>0
    <2> QED
      BY <1>1, <2>1 DEF MemoryInv, Memory!TypeOK
  <1>3. Composed'
    BY <1>1 DEF MemoryInv, Composed
  <1>4. Passed'
    <2>1. \A m \in notes' : ~(m.key <= 0)
      <3>1. \A m \in notes : m.key \in Nat /\ m.key # 0
        BY MemoryTypes
      <3> QED
        BY <1>1, <3>1
    <2>2. (Memory!Active(scan.at) \subseteq notes)'
      BY DEF Memory!Active, Memory!Current
    <2>3. (scan.got \cup scan.omitted = {r.cursor : r \in {m \in Memory!Active(scan.at) : m.key <= scan.after}})'
      BY <1>1, <2>1, <2>2
    <2>4. (mirror.got = {m.cursor : m \in {o \in notes : o.cursor <= mirror.since}})'
      BY <1>1 DEF MemoryInv, Passed
    <2> QED
      BY <1>1, <2>3, <2>4 DEF Passed
  <1> QED
    BY <1>1, <1>2, <1>3, <1>4, Unwritten

\* A scan is over when no row is left.
LEMMA ContextReadKeeps == ASSUME MemoryInv, Memory!ContextRead PROVE MemoryInv'
  <1>1. /\ UNCHANGED <<notes, head, cache, working, request, told, mirror>>
        /\ Memory!Rows = {} /\ scan' = [scan EXCEPT !.done = TRUE]
    BY DEF Memory!ContextRead, Memory!writing
  <1>2. /\ scan' \in [at : Nat, after : Nat, got : SUBSET Nat, omitted : SUBSET Nat, done : BOOLEAN]
        /\ scan'.at = scan.at /\ scan'.after = scan.after /\ scan'.got = scan.got /\ scan'.omitted = scan.omitted
    <2>1. scan \in [at : Nat, after : Nat, got : SUBSET Nat, omitted : SUBSET Nat, done : BOOLEAN]
      BY DEF MemoryInv, Memory!TypeOK
    <2> QED
      BY <1>1, <2>1
  <1>3. Memory!TypeOK'
    BY <1>1, <1>2 DEF MemoryInv, Memory!TypeOK
  <1>4. Composed'
    BY <1>1 DEF MemoryInv, Composed
  <1>5. Passed'
    <2>1. Memory!Active(scan.at)' = Memory!Active(scan.at)
      BY <1>1, <1>2 DEF Memory!Active, Memory!Current, Memory!Of
    <2>2. Memory!Rows' = {}
      BY <1>1, <1>2, <2>1 DEF Memory!Rows
    <2> QED
      BY <1>1, <1>2, <2>1, <2>2 DEF MemoryInv, Passed
  <1> QED
    BY <1>1, <1>3, <1>4, <1>5, Unwritten

\* Every step of agents and readers keeps the invariant.
LEMMA MemoryStepKeeps ==
  ASSUME MemoryInv, Memory!Next \/ UNCHANGED memoryVars PROVE MemoryInv'
  <1> USE RecordsAssumption DEF Memory!Sane
  <1>0. head \in 0 .. MaxEvents /\ head \in Nat /\ working \subseteq Agents /\ told \subseteq Agents
    BY MemoryTypes DEF MemoryInv, Memory!TypeOK
  <1>1. CASE \E a \in Agents, k \in Keys, l \in {"active", "archived"} : Memory!Compose(a, k, l)
    BY <1>1, ComposeKeeps
  <1>2. CASE \E a \in Agents, refused, lost \in BOOLEAN : Memory!Upsert(a, refused, lost)
    BY <1>2, UpsertKeeps
  <1>3. CASE \E a \in Agents : Memory!GiveUp(a)
    <2>1. /\ UNCHANGED <<notes, head, cache, working, told, mirror, scan>>
          /\ \E a \in Agents : request' = [request EXCEPT ![a] = None]
      BY <1>3 DEF Memory!GiveUp, Memory!writing, Memory!reading
    <2>2. working' \subseteq Agents /\ told' \subseteq Agents /\ head <= head' /\ head' \in 0..MaxEvents
      BY <1>0, <2>1
    <2> QED
      BY <2>1, <2>2, ForgetKeeps
  <1>4. CASE \E a \in Agents : Memory!TaskEnds(a)
    <2>1. UNCHANGED <<notes, head, cache, request, told, mirror, scan>> /\ working' \subseteq working
      BY <1>4 DEF Memory!TaskEnds, Memory!writing, Memory!reading
    <2>2. working' \subseteq Agents /\ told' \subseteq Agents /\ head <= head' /\ head' \in 0..MaxEvents
      BY <1>0, <2>1
    <2> QED
      BY <2>1, <2>2, ForgetKeeps
  <1>5. CASE Memory!OtherEvent
    <2>1. UNCHANGED <<notes, cache, working, request, told, mirror, scan>> /\ head < MaxEvents /\ head' = head + 1
      BY <1>5 DEF Memory!OtherEvent, Memory!reading
    <2>2. working' \subseteq Agents /\ told' \subseteq Agents /\ head <= head' /\ head' \in 0..MaxEvents
      BY <1>0, <2>1
    <2> QED
      BY <2>1, <2>2, ForgetKeeps
  <1>6. CASE Memory!FreezeChanges \/ Memory!FreezeContext \/ Memory!ContextRead
    BY <1>6, FreezeChangesKeeps, FreezeContextKeeps, ContextReadKeeps
  <1>7. CASE \E n \in 1 .. Limit : Memory!ReadChanges(n) \/ Memory!ReadContext(n)
    BY <1>7, ReadChangesKeeps, ReadContextKeeps
  <1>8. CASE UNCHANGED memoryVars
    <2>1. UNCHANGED <<notes, head, cache, working, request, told, mirror, scan>>
      BY <1>8 DEF memoryVars
    <2>2. working' \subseteq Agents /\ told' \subseteq Agents /\ head <= head' /\ head' \in 0..MaxEvents
      BY <1>0, <2>1
    <2> QED
      BY <2>1, <2>2, ForgetKeeps
  <1> QED
    BY <1>1, <1>2, <1>3, <1>4, <1>5, <1>6, <1>7, <1>8 DEF Memory!Next

\* One contribution makes one revision, and later ones have all of the earlier ones.
LEMMA NothingIsLost == ASSUME MemoryInv PROVE Memory!NothingLost
  <1>1. ASSUME NEW a \in Agents
        PROVE  Memory!Cardinality({n \in notes : a \in n.body /\ \A m \in notes :
                         m.key = n.key /\ m.cursor < n.cursor => a \notin m.body}) <= 1
    <2> DEFINE S == {n \in notes : a \in n.body /\ \A m \in notes :
                         m.key = n.key /\ m.cursor < n.cursor => a \notin m.body}
    <2>1. \A n \in S : First(n, a)
      BY DEF First
    <2>2. \A n \in S : n = cache[a].answer
      BY <2>1 DEF MemoryInv, WrittenOnce
    <2>3. S = {} \/ S = {cache[a].answer}
      BY <2>2
    <2>4. Cardinality(S) \in {0, 1}
      <3> HIDE DEF S
      <3> QED
        BY <2>3, FS_EmptySet, FS_Singleton
    <2>5. Memory!Cardinality(S) \in {0, 1}
      <3> HIDE DEF S
      <3> QED
        BY <2>4, SameCount
    <2> QED
      BY <2>5
  <1> QED
    BY <1>1 DEF Memory!NothingLost, MemoryInv, Ordered

\* Of a finished scan no note is missing, and no other is there.
LEMMA PagesAreComplete == ASSUME MemoryInv PROVE Memory!PagesComplete
  <1>1. PICK at \in Nat : at = scan.at
    BY MemoryTypes
  <1> DEFINE S == {m \in notes : m.life = "active" /\ m.cursor <= at
                        /\ \A o \in notes : o.key = m.key /\ o.cursor <= at => o.cursor <= m.cursor}
  <1>2. ASSUME NEW m \in notes, NEW o \in notes, o.key = m.key
        PROVE  o.cursor <= m.cursor <=> o.rev <= m.rev
    <2>1. o.cursor \in Nat /\ m.cursor \in Nat /\ o.rev \in Nat /\ m.rev \in Nat
      BY MemoryTypes
    <2>2. /\ o.cursor < m.cursor => o.rev < m.rev
          /\ m.cursor < o.cursor => m.rev < o.rev
          /\ o.cursor = m.cursor => o = m
      BY <1>2 DEF MemoryInv, Ordered
    <2> QED
      BY <2>1, <2>2
  <1>3. Memory!Active(at) = S
    <2>1. ASSUME NEW m \in notes
          PROVE  (\A o \in Memory!Of(m.key, at) : o.rev <= m.rev)
                 <=> \A o \in notes : o.key = m.key /\ o.cursor <= at => o.cursor <= m.cursor
      BY <1>2 DEF Memory!Of
    <2> QED
      BY <2>1 DEF Memory!Active, Memory!Current
  <1>4. ASSUME scan.done PROVE scan.got \cup scan.omitted = {n.cursor : n \in S}
    <2>1. Memory!Rows = {} /\ scan.got \cup scan.omitted =
             {n.cursor : n \in {m \in Memory!Active(at) : m.key <= scan.after}}
      BY <1>1, <1>4 DEF MemoryInv, Passed
    <2>2. \A m \in Memory!Active(at) : ~(m.key > scan.after)
      BY <1>1, <2>1 DEF Memory!Rows
    <2>3. \A m \in Memory!Active(at) : m.key <= scan.after
      <3> SUFFICES ASSUME NEW m \in Memory!Active(at) PROVE m.key <= scan.after
        OBVIOUS
      <3>1. m \in notes
        BY DEF Memory!Active, Memory!Current
      <3>2. m.key \in Nat /\ scan.after \in Nat
        BY <3>1, MemoryTypes, RecordsAssumption DEF Memory!Sane
      <3> QED
        BY <2>2, <3>2
    <2>4. {m \in Memory!Active(at) : m.key <= scan.after} = Memory!Active(at)
      BY <2>3
    <2> QED
      BY <1>3, <2>1, <2>4
  <1> QED
    BY <1>1, <1>4 DEF Memory!PagesComplete, MemoryInv, Passed

-----------------------------------------------------------------------------
(* Recoveries.                                                             *)

\* The theorems of RecoveryRequests, about the recoveries of the composite.
Proved == INSTANCE RecoveryRequestsProofs WITH
    Key <- RecoveryKey, up <- rUp, lineage <- rLineage, task <- rTask, attempt <- rAttempt,
    att <- rAtt, row <- rRow, lease <- rLease, kept <- rKept, hand <- rHand,
    launches <- rLaunches, told <- rTold

\* What the composite calls a recovery is what those theorems are about.
LEMMA SameSane == Proved!Sane
  BY RecordsAssumption
     DEF Recovery!Sane, Proved!Sane, Recovery!Reservation, Proved!Reservation, Recovery!Execution,
         Proved!Execution, Recovery!Gen, Proved!Gen, Recovery!Answers, Proved!Answers, Recovery!Errors,
         Proved!Errors, Recovery!LaunchCodes, Proved!LaunchCodes, Recovery!Phases, Proved!Phases

\* They begin alike.
LEMMA RecoveryInit == ASSUME Recovery!Init PROVE Proved!IInv
  <1>1. Proved!Init
    BY DEF Recovery!Init, Proved!Init, Recovery!Gen, Proved!Gen, Recovery!NoRow, Proved!NoRow
  <1> QED
    BY <1>1, SameSane, Proved!InitRequests

\* They step alike.
LEMMA SameNext == ASSUME Recovery!Next PROVE Proved!Next
  BY DEF Recovery!stored, Proved!stored, Recovery!recoveryVars, Proved!recoveryVars, Recovery!Gen,
         Proved!Gen, Recovery!Terminal, Proved!Terminal, Recovery!Interruption, Proved!Interruption,
         Recovery!Kind, Proved!Kind, Recovery!Authorized, Proved!Authorized, Recovery!Asks, Proved!Asks,
         Recovery!Recoverable, Proved!Recoverable, Recovery!Live, Proved!Live, Recovery!Held,
         Proved!Held, Recovery!SetLease, Proved!SetLease, Recovery!Stopped, Proved!Stopped,
         Recovery!Current, Proved!Current, Recovery!Tell, Proved!Tell, Recovery!Store, Proved!Store,
         Recovery!Prepare, Proved!Prepare, Recovery!ReadRow, Proved!ReadRow, Recovery!Failed,
         Proved!Failed, Recovery!Admit, Proved!Admit, Recovery!Authorize, Proved!Authorize,
         Recovery!Abandon, Proved!Abandon, Recovery!Running, Proved!Running, Recovery!ReportStopped,
         Proved!ReportStopped, Recovery!RaiseBlocker, Proved!RaiseBlocker, Recovery!Settle,
         Proved!Settle, Recovery!Deliver, Proved!Deliver, Recovery!Fail, Proved!Fail, Recovery!Lose,
         Proved!Lose, Recovery!CommitThrows, Proved!CommitThrows, Recovery!DeadRow, Proved!DeadRow,
         Recovery!Reconciled, Proved!Reconciled, Recovery!Reconcile, Proved!Reconcile, Recovery!Known,
         Proved!Known, Recovery!ReplayFinished, Proved!ReplayFinished, Recovery!ReplayPreparing,
         Proved!ReplayPreparing, Recovery!ReplayAuthorized, Proved!ReplayAuthorized, Recovery!Cancel,
         Proved!Cancel, Recovery!Expire, Proved!Expire, Recovery!Die, Proved!Die, Recovery!ServerStep,
         Proved!ServerStep, Recovery!Next, Proved!Next

\* Every step of a recovery keeps their invariant.
LEMMA RecoveryStepKeeps == ASSUME Proved!IInv, Recovery!Next \/ UNCHANGED recoveryVars PROVE Proved!IInv'
  <1>1. [Proved!Next]_Proved!recoveryVars
    BY SameNext DEF recoveryVars, Proved!recoveryVars, Proved!stored
  <1> QED
    BY <1>1, SameSane, Proved!NextKeeps

\* The promises are the same.
LEMMA RecoveryPromises ==
  ASSUME Proved!IInv PROVE Recovery!NeverRelaunched /\ Recovery!OneVerdict /\ Recovery!AbandonedIsClosable
  <1>1. Proved!NeverRelaunched /\ Proved!OneVerdict /\ Proved!AbandonedIsClosable
    BY Proved!Promises
  <1> QED
    BY <1>1 DEF Recovery!NeverRelaunched, Proved!NeverRelaunched, Recovery!OneVerdict, Proved!OneVerdict,
         Recovery!LaunchCodes, Proved!LaunchCodes, Recovery!AbandonedIsClosable, Proved!AbandonedIsClosable

-----------------------------------------------------------------------------
(* Attempts and their receipts.                                            *)

\* What a receipt says of the row that was sealed: all of Attempts!ReceiptsTrue but the part on
\* further runs, and that what has no telemetry is rejected, so that a repair has nothing to seal.
Honest(r, s) ==
    /\ Attempts!Final(r) => s # None /\ r.telemetry = s
    /\ r.status = "COMPLETE" => s.usage
    /\ r.accepted => ~strict \/ r.status = "COMPLETE"
    /\ r.telemetry = None => r.status = "REJECTED"

\* What is at work on an ended attempt is a further run of it, and whatever has a receipt ended.
AttemptInv ==
    /\ Attempts!TypeOK
    /\ Attempts!AtWork => att[attempt] # None /\ (att[attempt].ended => attempt \in rerun)
    /\ \A n \in Attempts!N :
          /\ sealed[n] # None => receipt[n] # None /\ (Attempts!Final(receipt[n]) \/ n \in rerun)
          /\ receipt[n] # None => att[n] # None /\ att[n].ended /\ Honest(receipt[n], sealed[n])

\* Sealing keeps a receipt honest and a row that is there, and leaves alone what is final.
LEMMA SealHonest ==
  ASSUME NEW r \in Attempts!Receipt, NEW s \in Attempts!Telemetry \cup {None}, NEW fault \in BOOLEAN,
         strict \in BOOLEAN, Honest(r, s)
  PROVE  LET c == Attempts!Seal(r, s, fault) IN
         /\ c.receipt \in Attempts!Receipt /\ c.row \in Attempts!Telemetry \cup {None}
         /\ Honest(c.receipt, c.row)
         /\ s # None => c.row = s
         /\ Attempts!Final(r) => c.receipt = r
         /\ s = None /\ c.row # None => Attempts!Final(c.receipt)
  <1> DEFINE c == Attempts!Seal(r, s, fault)
  <1> USE RecordsAssumption DEF Attempts!Sane
  <1>1. CASE r.status \in {"REJECTED", "COMPLETE"} \/ r.category = "USAGE_UNAVAILABLE"
    <2>1. c.receipt = r /\ c.row = s
      BY <1>1 DEF Attempts!Seal
    <2> QED
      BY <2>1
  <1>2. CASE ~(r.status \in {"REJECTED", "COMPLETE"} \/ r.category = "USAGE_UNAVAILABLE")
    <2>1. r.telemetry \in Attempts!Telemetry /\ ~Attempts!Final(r)
      BY <1>2 DEF Attempts!Receipt, Honest, Attempts!Final
    <2>2. CASE fault \/ Attempts!Recorded(r, s) # r.telemetry
      <3>1. PICK status \in {"INCOMPLETE", "REJECTED"}, category \in {"STORAGE", "SCHEMA"} :
               c.receipt = [r EXCEPT !.status = status, !.category = category, !.accepted = ~strict]
        BY <1>2, <2>2 DEF Attempts!Seal
      <3>2. c.row = s
        BY <1>2, <2>2 DEF Attempts!Seal
      <3>3. /\ c.receipt.status = status /\ c.receipt.category = category /\ c.receipt.accepted = ~strict
            /\ c.receipt.telemetry = r.telemetry /\ c.receipt \in Attempts!Receipt
        BY <3>1 DEF Attempts!Receipt, Attempts!Category
      <3>4. ~Attempts!Final(c.receipt)
        BY <3>3 DEF Attempts!Final
      <3> QED
        BY <2>1, <3>2, <3>3, <3>4 DEF Honest, Attempts!Final
    <2>3. CASE ~fault /\ Attempts!Recorded(r, s) = r.telemetry
      <3>1. /\ c.row = r.telemetry
            /\ c.receipt = [r EXCEPT !.status = IF r.telemetry.usage THEN "COMPLETE" ELSE "INCOMPLETE",
                                     !.category = IF r.telemetry.usage THEN None ELSE "USAGE_UNAVAILABLE",
                                     !.accepted = ~strict \/ r.telemetry.usage]
            /\ s # None => r.telemetry = s
        BY <1>2, <2>3 DEF Attempts!Seal, Attempts!Recorded
      <3>2. r.telemetry.usage \in BOOLEAN
        BY <2>1 DEF Attempts!Telemetry
      <3>3. CASE r.telemetry.usage
        BY <1>2, <2>1, <3>1, <3>3 DEF Attempts!Receipt, Attempts!Category, Attempts!Final, Honest
      <3>4. CASE ~r.telemetry.usage
        BY <1>2, <2>1, <3>1, <3>4 DEF Attempts!Receipt, Attempts!Category, Attempts!Final, Honest
      <3> QED
        BY <3>2, <3>3, <3>4
    <2> QED
      BY <2>2, <2>3
  <1> QED
    BY <1>1, <1>2

\* At first nothing is recorded.
LEMMA AttemptInit == ASSUME Attempts!Init PROVE AttemptInv
  <1>1. Attempts!TypeOK
    <2>1. 0 \in Attempts!N
      BY RecordsAssumption DEF Attempts!Sane, Attempts!N
    <2> QED
      BY <2>1 DEF Attempts!Init, Attempts!TypeOK
  <1> QED
    BY <1>1 DEF Attempts!Init, AttemptInv, Attempts!AtWork

\* Steps that change attempts only, and an ended one in a further run only.
LEMMA AttemptsAlone ==
  ASSUME AttemptInv, UNCHANGED <<strict, receipt, sealed>>, prepared' \in BOOLEAN, attempt' \in Attempts!N,
         runner' \in {"none", "unstopped", "delegation", "recovery"}, rerun \subseteq rerun',
         rerun' \subseteq Attempts!N, att' \in [Attempts!N -> Attempts!Attempt \cup {None}],
         Attempts!AtWork' => att'[attempt'] # None /\ (att'[attempt'].ended => attempt' \in rerun'),
         \A n \in Attempts!N : Attempts!Ended(n) =>
             att'[n] # None /\ att'[n].ended /\ (n \notin rerun' => att'[n] = att[n])
  PROVE  AttemptInv' /\ Attempts!Unrewritten
  <1>1. Attempts!TypeOK'
    BY DEF AttemptInv, Attempts!TypeOK
  <1>2. ASSUME NEW n \in Attempts!N
        PROVE  /\ sealed'[n] # None => receipt'[n] # None /\ (Attempts!Final(receipt'[n]) \/ n \in rerun')
               /\ receipt'[n] # None => att'[n] # None /\ att'[n].ended /\ Honest(receipt[n], sealed[n])'
    <2>1. CASE receipt[n] = None
      BY <2>1 DEF AttemptInv
    <2>2. CASE receipt[n] # None
      <3>1. Attempts!Ended(n) /\ Honest(receipt[n], sealed[n])'
        BY <2>2 DEF AttemptInv, Honest, Attempts!Ended
      <3> QED
        BY <2>2, <3>1 DEF AttemptInv
    <2> QED
      BY <2>1, <2>2
  <1>3. Attempts!Unrewritten
    BY DEF Attempts!Unrewritten
  <1> QED
    BY <1>1, <1>2, <1>3 DEF AttemptInv, Attempts!Final

\* A receipt that is sealed, or sealed again, for an attempt that is over: the one that is there,
\* or a fresh one where there is none, or in a further run.
LEMMA SealedAlone ==
  ASSUME AttemptInv, UNCHANGED <<attempt, strict, prepared, rerun>>, NEW m \in Attempts!N,
         runner' \in {"none", "unstopped", "delegation", "recovery"},
         runner' # runner => ~Attempts!AtWork',
         NEW r \in Attempts!Receipt, Honest(r, sealed[m]), NEW fault \in BOOLEAN,
         sealed[m] # None => r = receipt[m] \/ m \in rerun,
         receipt' = [receipt EXCEPT ![m] = Attempts!Seal(r, sealed[m], fault).receipt],
         sealed' = [sealed EXCEPT ![m] = Attempts!Seal(r, sealed[m], fault).row],
         att' \in [Attempts!N -> Attempts!Attempt \cup {None}],
         att'[m] # None /\ att'[m].ended,
         \A n \in Attempts!N \ {m} : att'[n] = att[n],
         Attempts!Ended(m) => att'[m] = att[m],
         runner' = runner => att' = att
  PROVE  AttemptInv' /\ Attempts!Unrewritten
  <1> DEFINE c == Attempts!Seal(r, sealed[m], fault)
  <1> USE RecordsAssumption DEF Attempts!Sane
  <1>1. sealed[m] \in Attempts!Telemetry \cup {None} /\ strict \in BOOLEAN
    BY DEF AttemptInv, Attempts!TypeOK
  <1>2. /\ c.receipt \in Attempts!Receipt /\ c.row \in Attempts!Telemetry \cup {None}
        /\ Honest(c.receipt, c.row)
        /\ sealed[m] # None => c.row = sealed[m]
        /\ Attempts!Final(r) => c.receipt = r
        /\ sealed[m] = None /\ c.row # None => Attempts!Final(c.receipt)
    BY <1>1, SealHonest
  <1> HIDE DEF c
  <1>3. receipt' = [receipt EXCEPT ![m] = c.receipt] /\ sealed' = [sealed EXCEPT ![m] = c.row]
    BY DEF c
  <1>4. receipt'[m] = c.receipt /\ sealed'[m] = c.row
    BY <1>3 DEF AttemptInv, Attempts!TypeOK
  <1>5. \A n \in Attempts!N \ {m} : receipt'[n] = receipt[n] /\ sealed'[n] = sealed[n]
    BY <1>3 DEF AttemptInv, Attempts!TypeOK
  <1>6. Attempts!TypeOK'
    BY <1>2, <1>3 DEF AttemptInv, Attempts!TypeOK
  <1>7. c.receipt # None
    BY <1>2
  <1>8. sealed[m] # None /\ m \notin rerun => c.receipt = receipt[m] /\ Attempts!Final(receipt[m])
    BY <1>2 DEF AttemptInv
  <1>9. ASSUME NEW n \in Attempts!N
        PROVE  /\ sealed'[n] # None => receipt'[n] # None /\ (Attempts!Final(receipt'[n]) \/ n \in rerun')
               /\ receipt'[n] # None => att'[n] # None /\ att'[n].ended /\ Honest(receipt[n], sealed[n])'
    <2>1. CASE n = m
      BY <1>2, <1>4, <1>7, <1>8, <2>1 DEF Honest
    <2>2. CASE n # m
      BY <1>5, <2>2 DEF AttemptInv, Honest
    <2> QED
      BY <2>1, <2>2
  <1>10. Attempts!Unrewritten
    BY <1>2, <1>4, <1>5, <1>8 DEF Attempts!Unrewritten, Attempts!Ended
  <1>11. Attempts!AtWork' => att'[attempt'] # None /\ (att'[attempt'].ended => attempt' \in rerun')
    BY DEF AttemptInv, Attempts!AtWork
  <1> QED
    BY <1>6, <1>9, <1>10, <1>11 DEF AttemptInv, Attempts!Final

\* Every step keeps receipts honest, and rewrites what is over in a further run only.
LEMMA AttemptStepKeeps ==
  ASSUME AttemptInv, Attempts!Next \/ UNCHANGED attemptVars
  PROVE  AttemptInv' /\ Attempts!Unrewritten
  <1> USE RecordsAssumption DEF Attempts!Sane, Attempts!N, Attempts!Ended, Attempts!AtWork
  <1>0. Attempts!TypeOK /\ att[attempt] \in Attempts!Attempt \cup {None} /\ attempt \in Attempts!N
    BY DEF AttemptInv, Attempts!TypeOK
  <1>00. Attempts!AtWork => att[attempt] \in Attempts!Attempt /\ (att[attempt].ended => attempt \in rerun)
    BY <1>0 DEF AttemptInv
  <1>1. CASE UNCHANGED attemptVars
    BY <1>0, <1>00, <1>1, AttemptsAlone DEF attemptVars, Attempts!TypeOK
  <1>2. CASE Attempts!Start
    <2>1. Attempts!Row(None, None) \in Attempts!Attempt /\ ~Attempts!Row(None, None).ended
      BY DEF Attempts!Row, Attempts!Attempt
    <2>2. /\ att' \in [Attempts!N -> Attempts!Attempt \cup {None}]
          /\ \A n \in Attempts!N : Attempts!Ended(n) => att'[n] = att[n]
          /\ att'[attempt] # None
          /\ att'[attempt].ended => Attempts!Ended(attempt)
      BY <1>0, <1>2, <2>1 DEF Attempts!Start, Attempts!TypeOK
    <2>3. /\ UNCHANGED <<attempt, strict, receipt, sealed>> /\ prepared' = FALSE /\ runner' = "delegation"
          /\ rerun' = rerun \cup {n \in {attempt} : Attempts!Ended(n)}
      BY <1>2 DEF Attempts!Start
    <2>4. rerun \subseteq rerun' /\ rerun' \subseteq Attempts!N /\ (Attempts!Ended(attempt) => attempt \in rerun')
      BY <1>0, <2>3 DEF Attempts!TypeOK
    <2> QED
      BY <1>0, <2>2, <2>3, <2>4, AttemptsAlone
  <1>3. CASE Attempts!Retry
    BY <1>0, <1>3, AttemptsAlone DEF Attempts!Retry, Attempts!TypeOK
  <1>4. CASE Attempts!Resume
    <2>1. /\ att[attempt] \in Attempts!Attempt /\ attempt + 1 \in Attempts!N
          /\ [att[attempt] EXCEPT !.ended = TRUE] \in Attempts!Attempt
          /\ Attempts!Row(att[attempt].handle, attempt) \in Attempts!Attempt
          /\ ~Attempts!Row(att[attempt].handle, attempt).ended
      <3>1. att[attempt] \in Attempts!Attempt /\ attempt \in Attempts!N /\ attempt + 1 \in Attempts!N
        BY <1>0, <1>4 DEF Attempts!Resume, Attempts!TypeOK
      <3>2. [att[attempt] EXCEPT !.ended = TRUE] \in Attempts!Attempt
        BY <3>1 DEF Attempts!Attempt
      <3>3. /\ Attempts!Row(att[attempt].handle, attempt) \in Attempts!Attempt
            /\ ~Attempts!Row(att[attempt].handle, attempt).ended
        BY <3>1 DEF Attempts!Row, Attempts!Attempt
      <3> QED
        BY <3>1, <3>2, <3>3
    <2>2. att' \in [Attempts!N -> Attempts!Attempt \cup {None}]
      BY <1>0, <1>4, <2>1 DEF Attempts!Resume, Attempts!TypeOK
    <2>3. att[attempt].ended => [att[attempt] EXCEPT !.ended = TRUE] = att[attempt]
      BY <2>1 DEF Attempts!Attempt
    <2>4. /\ \A n \in Attempts!N : Attempts!Ended(n) => att'[n] = att[n]
          /\ att'[attempt + 1] # None /\ ~att'[attempt + 1].ended
      <3>1. att' = [att EXCEPT ![attempt].ended = TRUE, ![attempt + 1] = Attempts!Row(att[attempt].handle, attempt)]
        BY <1>4 DEF Attempts!Resume
      <3>2. att[attempt + 1] = None /\ attempt + 1 # attempt
        BY <1>0, <1>4 DEF Attempts!Resume
      <3> QED
        BY <1>0, <2>1, <2>3, <3>1, <3>2 DEF Attempts!TypeOK
    <2>5. /\ UNCHANGED <<strict, prepared, receipt, sealed, rerun>>
          /\ attempt' = attempt + 1 /\ runner' = "recovery"
      BY <1>4 DEF Attempts!Resume
    <2> QED
      BY <1>0, <2>1, <2>2, <2>4, <2>5, AttemptsAlone DEF Attempts!TypeOK
  <1>5. ASSUME NEW h \in Handle, Attempts!SaveHandle(h) PROVE AttemptInv' /\ Attempts!Unrewritten
    <2>1. /\ att' = [att EXCEPT ![attempt].handle = h] /\ Attempts!AtWork /\ h \in Handle \ Unsafe
          /\ UNCHANGED <<attempt, strict, prepared, runner, receipt, sealed, rerun>>
      BY <1>5 DEF Attempts!SaveHandle, Attempts!Safe
    <2>2. [att[attempt] EXCEPT !.handle = h] \in Attempts!Attempt
      BY <1>00, <2>1 DEF Attempts!Attempt
    <2>3. [att[attempt] EXCEPT !.handle = h].ended = att[attempt].ended
      BY <1>00, <2>1 DEF Attempts!Attempt
    <2>4. /\ att' \in [Attempts!N -> Attempts!Attempt \cup {None}]
          /\ att'[attempt] # None /\ att'[attempt].ended = att[attempt].ended
          /\ \A n \in Attempts!N \ {attempt} : att'[n] = att[n]
      BY <1>0, <2>1, <2>2, <2>3 DEF Attempts!TypeOK
    <2> QED
      BY <1>0, <1>00, <2>1, <2>4, AttemptsAlone DEF Attempts!TypeOK
  <1>6. ASSUME NEW h \in Handle, Attempts!ToolSave(h) PROVE AttemptInv' /\ Attempts!Unrewritten
    <2>1. att' \in [Attempts!N -> Attempts!Attempt \cup {None}]
      BY <1>0, <1>6 DEF Attempts!ToolSave, Attempts!Safe, Attempts!TypeOK, Attempts!Attempt, Attempts!Row
    <2> QED
      BY <1>0, <1>6, <2>1, AttemptsAlone DEF Attempts!ToolSave, Attempts!TypeOK
  <1>7. CASE Attempts!Lose
    BY <1>0, <1>7, AttemptsAlone DEF Attempts!Lose, Attempts!TypeOK
  <1>8. ASSUME NEW t \in Attempts!Telemetry, NEW check \in Attempts!Check,
               NEW fault \in BOOLEAN, NEW stopped \in BOOLEAN, Attempts!Commit(t, check, fault, stopped)
        PROVE  AttemptInv' /\ Attempts!Unrewritten
    <2> DEFINE r == Attempts!Draft(t, check)
    <2>1. /\ Attempts!AtWork /\ att[attempt] \in Attempts!Attempt
          /\ ~att[attempt].ended \/ attempt \in rerun
      BY <1>00, <1>8 DEF Attempts!Commit
    <2>2. (receipt[attempt] = None /\ sealed[attempt] = None) \/ attempt \in rerun
      BY <1>0, <2>1 DEF AttemptInv
    <2>3. r \in Attempts!Receipt /\ Honest(r, sealed[attempt])
      <3>1. strict \in BOOLEAN
        BY <1>0 DEF Attempts!TypeOK
      <3>2. CASE check = "fine"
        BY <3>1, <3>2 DEF Attempts!Draft, Attempts!Receipt, Attempts!Category, Honest, Attempts!Final
      <3>3. CASE check \in {"PRIVACY", "SCHEMA"}
        BY <3>1, <3>3 DEF Attempts!Draft, Attempts!Receipt, Attempts!Category, Honest, Attempts!Final
      <3> QED
        BY <3>2, <3>3 DEF Attempts!Check
    <2>4. [att[attempt] EXCEPT !.ended = TRUE] \in Attempts!Attempt /\ [att[attempt] EXCEPT !.ended = TRUE].ended
      BY <2>1 DEF Attempts!Attempt
    <2>5. att[attempt].ended => [att[attempt] EXCEPT !.ended = TRUE] = att[attempt]
      BY <2>1 DEF Attempts!Attempt
    <2>6. /\ att' = [att EXCEPT ![attempt].ended = TRUE]
          /\ receipt' = [receipt EXCEPT ![attempt] = Attempts!Seal(r, sealed[attempt], fault).receipt]
          /\ sealed' = [sealed EXCEPT ![attempt] = Attempts!Seal(r, sealed[attempt], fault).row]
          /\ runner' \in {"none", "unstopped"} /\ UNCHANGED <<attempt, strict, prepared, rerun>>
      BY <1>8 DEF Attempts!Commit
    <2>7. /\ att' \in [Attempts!N -> Attempts!Attempt \cup {None}]
          /\ att'[attempt] # None /\ att'[attempt].ended
          /\ \A n \in Attempts!N \ {attempt} : att'[n] = att[n]
          /\ Attempts!Ended(attempt) => att'[attempt] = att[attempt]
      BY <1>0, <2>1, <2>4, <2>5, <2>6 DEF Attempts!TypeOK
    <2>8. ~Attempts!AtWork' /\ runner' # runner
      BY <2>1, <2>6
    <2> HIDE DEF r
    <2> QED
      BY <1>0, <2>1, <2>2, <2>3, <2>6, <2>7, <2>8, SealedAlone
  <1>9. ASSUME NEW n \in Attempts!N, NEW fault \in BOOLEAN, Attempts!Repair(n, fault)
        PROVE  AttemptInv' /\ Attempts!Unrewritten
    <2>1. receipt[n] \in Attempts!Receipt /\ Honest(receipt[n], sealed[n]) /\ att[n] # None /\ att[n].ended
      BY <1>0, <1>9 DEF Attempts!Repair, AttemptInv, Attempts!TypeOK
    <2>2. /\ receipt' = [receipt EXCEPT ![n] = Attempts!Seal(receipt[n], sealed[n], fault).receipt]
          /\ sealed' = [sealed EXCEPT ![n] = Attempts!Seal(receipt[n], sealed[n], fault).row]
          /\ UNCHANGED <<attempt, strict, prepared, runner, att, rerun>>
          /\ att' \in [Attempts!N -> Attempts!Attempt \cup {None}]
          /\ runner' \in {"none", "unstopped", "delegation", "recovery"}
      BY <1>0, <1>9 DEF Attempts!Repair, Attempts!TypeOK
    <2> QED
      BY <2>1, <2>2, SealedAlone
  <1>10. CASE \E usage, fault, stopped \in BOOLEAN, check \in Attempts!Check :
                 Attempts!Conclude(usage, check, fault, stopped)
    <2>1. PICK usage \in BOOLEAN, fault \in BOOLEAN, stopped \in BOOLEAN, check \in Attempts!Check :
             Attempts!Conclude(usage, check, fault, stopped)
      BY <1>10
    <2>2. PICK v \in {"as reported", "commit failed"} :
             Attempts!Commit(Attempts!Observed(usage, v), check, fault, stopped)
      BY <2>1 DEF Attempts!Conclude
    <2>3. Attempts!Observed(usage, v) \in Attempts!Telemetry
      BY DEF Attempts!Telemetry, Attempts!Observed
    <2> QED
      BY <1>8, <2>2, <2>3
  <1> QED
    BY <1>1, <1>2, <1>3, <1>4, <1>5, <1>6, <1>7, <1>9, <1>10 DEF Attempts!Next

\* Honest receipts are what ReceiptsTrue asks for.
LEMMA ReceiptsAreTrue == ASSUME AttemptInv PROVE Attempts!ReceiptsTrue
  BY DEF AttemptInv, Honest, Attempts!ReceiptsTrue, Attempts!Final

-----------------------------------------------------------------------------
(* Work sessions.                                                          *)

\* A lease that session s took for task t, live or not.
LeaseOf(l, s, t) ==
    l \in Sessions!Lease /\ lease[l] # None /\ lease[l].task = t /\ lease[l].holder = SessionAgent[s]

\* Of two live leases that overlap the second was the agent's own of the same task.
LeasesApart ==
    \A l, m \in Sessions!Lease :
        Sessions!Live(l) /\ Sessions!Live(m) /\ <<lease[l].task, lease[m].task>> \in Overlap =>
            lease[l].task = lease[m].task /\ lease[l].holder = lease[m].holder

\* What is started leaves PENDING and CLAIMED for good, and with them the only moves that
\* change the owner; a session that stands before Start has its lease already.
Underway(t) == state[t] \notin {"PENDING", "CLAIMED"}
StartedOnes ==
    \A s \in Session, t \in Task :
        held[s][t] # 0 => LeaseOf(held[s][t], s, t) /\ Sessions!Mine(s, t) /\ Underway(t)
Leased ==
    \A s \in Session : Sessions!At(s, "leased") => LeaseOf(begin[s].lease, s, begin[s].task)

SessionInv == Sessions!TypeOK /\ LeasesApart /\ StartedOnes /\ Leased

\* At first nothing is leased.
LEMMA SessionInit == ASSUME Sessions!Init PROVE SessionInv
  <1> USE RecordsAssumption DEF Sessions!Sane
  <1>1. Sessions!TypeOK
    <2>1. /\ state \in [Task -> Sessions!States] /\ owner \in [Task -> {SessionAgent[p] : p \in Session} \cup {None}]
          /\ up \subseteq Session
      BY DEF Sessions!Init, Sessions!States
    <2>2. /\ lease \in [Sessions!Lease -> Sessions!LeaseRow \cup {None}]
          /\ begin \in [Session -> Sessions!Beginning \cup {None}]
      BY DEF Sessions!Init
    <2>3. 0 \in 0..MaxLeases
      OBVIOUS
    <2>4. held \in [Session -> [Task -> 0..MaxLeases]]
      BY <2>3 DEF Sessions!Init
    <2> QED
      BY <2>1, <2>2, <2>4 DEF Sessions!TypeOK
  <1> QED
    BY <1>1 DEF Sessions!Init, SessionInv, LeasesApart, StartedOnes, Leased, Sessions!Live, Sessions!At

\* A lease that is taken stays what it is, live or not.
LeasesStay ==
    \A l \in Sessions!Lease : lease[l] # None =>
        lease'[l] # None /\ lease'[l].task = lease[l].task /\ lease'[l].holder = lease[l].holder
LeasesEnd ==
    \A l \in Sessions!Lease : Sessions!Live(l)' => Sessions!Live(l)
TasksStay == \A t \in Task : Underway(t) => Underway(t)' /\ owner'[t] = owner[t]

\* Steps that take no lease.
LEMMA LeasesApartKept == ASSUME SessionInv, LeasesStay, LeasesEnd PROVE LeasesApart'
  BY DEF SessionInv, LeasesApart, LeasesStay, LeasesEnd, Sessions!Live

\* Steps that start nothing.
LEMMA StartedKept ==
  ASSUME SessionInv, LeasesStay, TasksStay,
         \A s \in Session, t \in Task : held'[s][t] \in {0, held[s][t]}
  PROVE  StartedOnes'
  BY DEF SessionInv, StartedOnes, LeasesStay, TasksStay, LeaseOf, Sessions!Mine

\* Steps that bring nobody before Start.
LEMMA LeasedKept ==
  ASSUME SessionInv, LeasesStay,
         \A s \in Session : Sessions!At(s, "leased")' => begin'[s] = begin[s]
  PROVE  Leased'
  BY DEF SessionInv, Leased, LeasesStay, LeaseOf, Sessions!At

\* What claims and gives back a task leaves alone what is under way.
LEMMA Returns ==
  ASSUME SessionInv, NEW s \in Session, NEW t \in Task, Sessions!Returned(s, t)
  PROVE  /\ TasksStay /\ state' \in [Task -> Sessions!States]
         /\ owner' \in [Task -> {SessionAgent[p] : p \in Session} \cup {None}]
  BY DEF SessionInv, Sessions!TypeOK, Sessions!Returned, TasksStay, Underway, Sessions!States

\* The release of a lease a session holds.
LEMMA Frees ==
  ASSUME SessionInv, NEW s \in Session, NEW t \in Task, Sessions!Freed(s, t)
  PROVE  /\ LeasesStay /\ LeasesEnd
         /\ lease' \in [Sessions!Lease -> Sessions!LeaseRow \cup {None}]
         /\ held' \in [Session -> [Task -> 0..MaxLeases]]
         /\ \A p \in Session, u \in Task : held'[p][u] \in {0, held[p][u]}
  <1> USE RecordsAssumption DEF Sessions!Sane
  <1>1. /\ held' \in [Session -> [Task -> 0..MaxLeases]]
        /\ \A p \in Session, u \in Task : held'[p][u] \in {0, held[p][u]}
    BY DEF SessionInv, Sessions!TypeOK, Sessions!Freed
  <1>2. CASE held[s][t] = 0
    BY <1>1, <1>2 DEF SessionInv, Sessions!TypeOK, Sessions!Freed, LeasesStay, LeasesEnd, Sessions!Live
  <1>3. CASE held[s][t] # 0
    <2> DEFINE l == held[s][t]
    <2>1. l \in Sessions!Lease /\ lease[l] \in Sessions!LeaseRow
      BY <1>3 DEF SessionInv, Sessions!TypeOK, StartedOnes, LeaseOf
    <2>2. lease' = [lease EXCEPT ![l].live = FALSE]
      BY <1>3 DEF Sessions!Freed
    <2> HIDE DEF l
    <2>3. /\ [lease[l] EXCEPT !.live = FALSE] \in Sessions!LeaseRow
          /\ [lease[l] EXCEPT !.live = FALSE].task = lease[l].task
          /\ [lease[l] EXCEPT !.live = FALSE].holder = lease[l].holder
          /\ [lease[l] EXCEPT !.live = FALSE].live = FALSE
      BY <2>1 DEF Sessions!LeaseRow
    <2>4. /\ lease'[l] = [lease[l] EXCEPT !.live = FALSE]
          /\ \A m \in Sessions!Lease \ {l} : lease'[m] = lease[m]
          /\ lease' \in [Sessions!Lease -> Sessions!LeaseRow \cup {None}]
      BY <2>1, <2>2, <2>3 DEF SessionInv, Sessions!TypeOK
    <2>5. LeasesStay /\ LeasesEnd
      BY <2>1, <2>3, <2>4 DEF LeasesStay, LeasesEnd, Sessions!Live
    <2> QED
      BY <1>1, <2>4, <2>5
  <1> QED
    BY <1>2, <1>3

\* Every step of a session keeps the invariant, one action at a time.
LEMMA ClaimKeeps == ASSUME SessionInv, NEW s \in Session, NEW t \in Task, Sessions!Claim(s, t) PROVE SessionInv'
  <1> USE RecordsAssumption DEF Sessions!Sane
  <1>1. Sessions!TypeOK'
    <2>1. [task |-> t, step |-> "claimed", lease |-> 0] \in Sessions!Beginning
      BY DEF Sessions!Beginning
    <2>2. begin' \in [Session -> Sessions!Beginning \cup {None}]
      BY <2>1 DEF SessionInv, Sessions!TypeOK, Sessions!Claim
    <2>3. /\ state' \in [Task -> Sessions!States]
          /\ owner' \in [Task -> {SessionAgent[p] : p \in Session} \cup {None}]
      BY DEF SessionInv, Sessions!TypeOK, Sessions!Claim, Sessions!States
    <2> QED
      BY <2>2, <2>3 DEF SessionInv, Sessions!TypeOK, Sessions!Claim
  <1>2. TasksStay
    BY DEF SessionInv, Sessions!TypeOK, Sessions!Claim, TasksStay, Underway, Sessions!Mine
  <1>3. LeasesStay /\ LeasesEnd
    BY DEF Sessions!Claim, LeasesStay, LeasesEnd, Sessions!Live
  <1>4. LeasesApart'
    BY <1>3, LeasesApartKept
  <1>5. StartedOnes'
    BY <1>2, <1>3, StartedKept DEF Sessions!Claim
  <1>6. \A p \in Session : Sessions!At(p, "leased")' => begin'[p] = begin[p]
    BY DEF SessionInv, Sessions!TypeOK, Sessions!Claim, Sessions!At
  <1>7. Leased'
    BY <1>3, <1>6, LeasedKept
  <1> QED
    BY <1>1, <1>4, <1>5, <1>7 DEF SessionInv

\* A lease is taken over nothing that is live, but for the agent's own of the same task.
LEMMA AcquireKeeps == ASSUME SessionInv, NEW s \in Session, Sessions!Acquire(s) PROVE SessionInv'
  <1> USE RecordsAssumption DEF Sessions!Sane
  <1> DEFINE t == begin[s].task
  <1>1. begin[s] \in Sessions!Beginning /\ t \in Task
    BY DEF SessionInv, Sessions!TypeOK, Sessions!Acquire, Sessions!At, Sessions!Beginning
  <1>2. CASE Sessions!Conflict(s, t)
    <2>1. UNCHANGED <<state, owner, up, held, lease>> /\ begin' = [begin EXCEPT ![s].step = "refused"]
      BY <1>2 DEF Sessions!Acquire
    <2>2. begin' \in [Session -> Sessions!Beginning \cup {None}]
      <3>1. [begin[s] EXCEPT !.step = "refused"] \in Sessions!Beginning
        BY <1>1 DEF Sessions!Beginning
      <3> QED
        BY <2>1, <3>1 DEF SessionInv, Sessions!TypeOK
    <2>3. \A p \in Session : Sessions!At(p, "leased")' => begin'[p] = begin[p]
      <3>1. [begin[s] EXCEPT !.step = "refused"].step = "refused"
        BY <1>1 DEF Sessions!Beginning
      <3> QED
        BY <2>1, <3>1 DEF SessionInv, Sessions!TypeOK, Sessions!At
    <2>4. LeasesStay /\ LeasesEnd /\ TasksStay
      BY <2>1 DEF LeasesStay, LeasesEnd, TasksStay, Sessions!Live, Underway
    <2>5. LeasesApart' /\ StartedOnes' /\ Leased'
      BY <2>1, <2>3, <2>4, LeasesApartKept, StartedKept, LeasedKept
    <2> QED
      BY <2>1, <2>2, <2>5 DEF SessionInv, Sessions!TypeOK
  <1>3. CASE ~Sessions!Conflict(s, t)
    <2>1. PICK l \in Sessions!Lease :
             /\ lease[l] = None
             /\ lease' = [lease EXCEPT ![l] = [task |-> t, holder |-> SessionAgent[s], live |-> TRUE]]
             /\ begin' = [begin EXCEPT ![s].step = "leased", ![s].lease = l]
      BY <1>3 DEF Sessions!Acquire
    <2> DEFINE r == [task |-> t, holder |-> SessionAgent[s], live |-> TRUE]
    <2>2. UNCHANGED <<state, owner, up, held>>
      BY DEF Sessions!Acquire
    <2>3. r \in Sessions!LeaseRow /\ r # None
      <3>1. SessionAgent[s] \in {SessionAgent[p] : p \in Session}
        OBVIOUS
      <3>2. r \in Sessions!LeaseRow
        BY <1>1, <3>1 DEF Sessions!LeaseRow
      <3> QED
        BY <3>2
    <2>4. /\ lease'[l] = r
          /\ \A m \in Sessions!Lease \ {l} : lease'[m] = lease[m]
          /\ lease' \in [Sessions!Lease -> Sessions!LeaseRow \cup {None}]
      BY <2>1, <2>3 DEF SessionInv, Sessions!TypeOK
    <2>5. r.task = t /\ r.holder = SessionAgent[s]
      OBVIOUS
    <2> HIDE DEF r
    <2>6. /\ begin'[s] \in Sessions!Beginning
          /\ begin'[s].task = t /\ begin'[s].step = "leased" /\ begin'[s].lease = l
      <3>1. begin'[s] = [begin[s] EXCEPT !.step = "leased", !.lease = l]
        BY <2>1 DEF SessionInv, Sessions!TypeOK
      <3>2. l \in 0..MaxLeases
        BY DEF Sessions!Lease
      <3> QED
        BY <1>1, <3>1, <3>2 DEF Sessions!Beginning
    <2>7. \A p \in Session \ {s} : begin'[p] = begin[p]
      BY <2>1 DEF SessionInv, Sessions!TypeOK
    <2>8. begin' \in [Session -> Sessions!Beginning \cup {None}]
      BY <2>1, <2>6, <2>7 DEF SessionInv, Sessions!TypeOK
    <2>9. LeasesStay /\ TasksStay
      BY <2>1, <2>2, <2>4 DEF LeasesStay, TasksStay, Underway
    <2>10. StartedOnes'
      BY <2>2, <2>9, StartedKept
    <2>11. Leased'
      <3>1. ASSUME NEW p \in Session, Sessions!At(p, "leased")' PROVE LeaseOf(begin[p].lease, p, begin[p].task)'
        <4>1. CASE p = s
          BY <2>3, <2>4, <2>5, <2>6, <4>1 DEF LeaseOf
        <4>2. CASE p # s
          <5>1. Sessions!At(p, "leased") /\ begin'[p] = begin[p]
            BY <2>7, <3>1, <4>2 DEF Sessions!At
          <5> QED
            BY <2>9, <5>1 DEF SessionInv, Leased, LeaseOf, LeasesStay
        <4> QED
          BY <4>1, <4>2
      <3> QED
        BY <3>1 DEF Leased
    <2>12. \A m \in Sessions!Lease : Sessions!Live(m) /\ <<t, lease[m].task>> \in Overlap =>
              lease[m].task = t /\ lease[m].holder = SessionAgent[s]
      BY <1>3 DEF Sessions!Conflict
    <2>13. \A m \in Sessions!Lease : Sessions!Live(m) => lease[m].task \in Task
      BY DEF SessionInv, Sessions!TypeOK, Sessions!LeaseRow, Sessions!Live
    <2>14. \A m \in Sessions!Lease \ {l} :
              Sessions!Live(m)' => Sessions!Live(m) /\ lease'[m] = lease[m]
      BY <2>4 DEF Sessions!Live
    <2>15. LeasesApart'
      <3> SUFFICES ASSUME NEW m \in Sessions!Lease, NEW n \in Sessions!Lease,
                          Sessions!Live(m)', Sessions!Live(n)', <<lease'[m].task, lease'[n].task>> \in Overlap
                   PROVE  lease'[m].task = lease'[n].task /\ lease'[m].holder = lease'[n].holder
        BY DEF LeasesApart
      <3>1. CASE m = l /\ n = l
        BY <3>1
      <3>2. CASE m = l /\ n # l
        <4>1. Sessions!Live(n) /\ lease'[n] = lease[n] /\ <<t, lease[n].task>> \in Overlap
          BY <2>4, <2>5, <2>14, <3>2
        <4> QED
          BY <2>4, <2>5, <2>12, <3>2, <4>1
      <3>3. CASE m # l /\ n = l
        <4>1. Sessions!Live(m) /\ lease'[m] = lease[m] /\ <<lease[m].task, t>> \in Overlap
          BY <2>4, <2>5, <2>14, <3>3
        <4>2. <<t, lease[m].task>> \in Overlap
          BY <1>1, <2>13, <4>1
        <4> QED
          BY <2>4, <2>5, <2>12, <3>3, <4>1, <4>2
      <3>4. CASE m # l /\ n # l
        BY <2>14, <3>4 DEF SessionInv, LeasesApart
      <3> QED
        BY <3>1, <3>2, <3>3, <3>4
    <2> QED
      BY <2>2, <2>4, <2>8, <2>10, <2>11, <2>15 DEF SessionInv, Sessions!TypeOK
  <1> QED
    BY <1>2, <1>3

\* The way back from a refused lease.
LEMMA RollbackKeeps == ASSUME SessionInv, NEW s \in Session, Sessions!Rollback(s) PROVE SessionInv'
  <1>1. begin[s].task \in Task
    BY DEF SessionInv, Sessions!TypeOK, Sessions!Rollback, Sessions!At, Sessions!Beginning
  <1>2. /\ TasksStay /\ state' \in [Task -> Sessions!States]
        /\ owner' \in [Task -> {SessionAgent[p] : p \in Session} \cup {None}]
    BY <1>1, Returns DEF Sessions!Rollback
  <1>3. begin' = [begin EXCEPT ![s] = None] /\ UNCHANGED <<lease, up, held>>
    BY DEF Sessions!Rollback
  <1>4. begin' \in [Session -> Sessions!Beginning \cup {None}]
    BY <1>3 DEF SessionInv, Sessions!TypeOK
  <1>5. \A p \in Session : Sessions!At(p, "leased")' => begin'[p] = begin[p]
    BY <1>3 DEF SessionInv, Sessions!TypeOK, Sessions!At
  <1>6. LeasesStay /\ LeasesEnd
    BY <1>3 DEF LeasesStay, LeasesEnd, Sessions!Live
  <1>7. LeasesApart' /\ StartedOnes' /\ Leased'
    BY <1>2, <1>3, <1>5, <1>6, LeasesApartKept, StartedKept, LeasedKept
  <1> QED
    BY <1>2, <1>3, <1>4, <1>7 DEF SessionInv, Sessions!TypeOK

\* A start gives the session the lease it has taken, of a task its agent owns.
LEMMA StartKeeps == ASSUME SessionInv, NEW s \in Session, Sessions!Start(s) PROVE SessionInv'
  <1> USE RecordsAssumption DEF Sessions!Sane
  <1>0. begin[s].task \in Task /\ begin[s].lease \in 0..MaxLeases
    BY DEF SessionInv, Sessions!TypeOK, Sessions!Start, Sessions!At, Sessions!Beginning
  <1> PICK t \in Task, l \in 0..MaxLeases : t = begin[s].task /\ l = begin[s].lease
    BY <1>0
  <1>1. LeaseOf(l, s, t)
    BY DEF SessionInv, Sessions!Start, Leased
  <1>2. begin' = [begin EXCEPT ![s] = None] /\ UNCHANGED <<owner, lease, up>>
    BY DEF Sessions!Start
  <1>3. \/ UNCHANGED <<state, held>>
        \/ /\ Sessions!Mine(s, t) /\ state' = [state EXCEPT ![t] = "WORKING"]
           /\ held' = [held EXCEPT ![s][t] = l]
    BY DEF Sessions!Start
  <1>4. begin' \in [Session -> Sessions!Beginning \cup {None}]
    BY <1>2 DEF SessionInv, Sessions!TypeOK
  <1>5. \A p \in Session : Sessions!At(p, "leased")' => begin'[p] = begin[p]
    BY <1>2 DEF SessionInv, Sessions!TypeOK, Sessions!At
  <1>6. LeasesStay /\ LeasesEnd
    BY <1>2 DEF LeasesStay, LeasesEnd, Sessions!Live
  <1>7. LeasesApart' /\ Leased'
    BY <1>5, <1>6, LeasesApartKept, LeasedKept
  <1>8. CASE UNCHANGED <<state, held>>
    <2>1. StartedOnes'
      BY <1>2, <1>6, <1>8, StartedKept DEF TasksStay, Underway
    <2> QED
      BY <1>2, <1>4, <1>7, <1>8, <2>1 DEF SessionInv, Sessions!TypeOK
  <1>9. CASE /\ Sessions!Mine(s, t) /\ state' = [state EXCEPT ![t] = "WORKING"]
             /\ held' = [held EXCEPT ![s][t] = l]
    <2>1. /\ \A p \in Session, u \in Task : p # s \/ u # t => held'[p][u] = held[p][u]
          /\ held'[s][t] = l /\ held' \in [Session -> [Task -> 0..MaxLeases]]
      BY <1>1, <1>9 DEF SessionInv, Sessions!TypeOK
    <2>2. state' \in [Task -> Sessions!States] /\ TasksStay /\ Underway(t)'
      <3>1. /\ state' \in [Task -> Sessions!States] /\ state'[t] = "WORKING"
            /\ \A u \in Task \ {t} : state'[u] = state[u]
        BY <1>1, <1>9 DEF SessionInv, Sessions!TypeOK, Sessions!States
      <3> QED
        BY <1>1, <1>2, <3>1 DEF TasksStay, Underway
    <2>3. ASSUME NEW p \in Session, NEW u \in Task, held'[p][u] # 0
          PROVE  LeaseOf(held[p][u], p, u)' /\ Sessions!Mine(p, u)' /\ Underway(u)'
      <3>1. CASE p = s /\ u = t
        <4>1. held'[p][u] = l /\ LeaseOf(l, p, u) /\ Sessions!Mine(p, u)
          BY <1>1, <1>9, <2>1, <3>1
        <4> QED
          BY <1>2, <2>2, <3>1, <4>1 DEF LeaseOf, Sessions!Mine
      <3>2. CASE p # s \/ u # t
        <4>1. held[p][u] = held'[p][u] /\ held[p][u] # 0
          BY <2>1, <2>3, <3>2
        <4>2. LeaseOf(held[p][u], p, u) /\ Sessions!Mine(p, u) /\ Underway(u)
          BY <4>1 DEF SessionInv, StartedOnes
        <4> QED
          BY <1>2, <2>2, <4>1, <4>2 DEF LeaseOf, Sessions!Mine, TasksStay
      <3> QED
        BY <3>1, <3>2
    <2>4. StartedOnes'
      BY <2>3 DEF StartedOnes
    <2> QED
      BY <1>2, <1>4, <1>7, <2>1, <2>2, <2>4 DEF SessionInv, Sessions!TypeOK
  <1> QED
    BY <1>3, <1>8, <1>9

\* A deliverable, a block or an abandoned task.
LEMMA CompleteKeeps ==
  ASSUME SessionInv, NEW s \in Session, NEW t \in Task, NEW final \in {"DONE", "BLOCKED", "FAILED"},
         Sessions!Complete(s, t, final)
  PROVE  SessionInv'
  <1>1. /\ LeasesStay /\ LeasesEnd
        /\ lease' \in [Sessions!Lease -> Sessions!LeaseRow \cup {None}]
        /\ held' \in [Session -> [Task -> 0..MaxLeases]]
        /\ \A p \in Session, u \in Task : held'[p][u] \in {0, held[p][u]}
    BY Frees DEF Sessions!Complete
  <1>2. TasksStay /\ state' \in [Task -> Sessions!States]
    BY DEF SessionInv, Sessions!TypeOK, Sessions!Complete, TasksStay, Underway, Sessions!States
  <1>3. UNCHANGED <<owner, up, begin>>
    BY DEF Sessions!Complete
  <1>4. LeasesApart' /\ StartedOnes' /\ Leased'
    BY <1>1, <1>2, <1>3, LeasesApartKept, StartedKept, LeasedKept
  <1> QED
    BY <1>1, <1>2, <1>3, <1>4 DEF SessionInv, Sessions!TypeOK

\* A task is blocked by the session that has its lease.
LEMMA BlockKeeps == ASSUME SessionInv, NEW s \in Session, NEW t \in Task, Sessions!Block(s, t) PROVE SessionInv'
  <1>1. TasksStay /\ state' \in [Task -> Sessions!States]
    BY DEF SessionInv, Sessions!TypeOK, Sessions!Block, TasksStay, Underway, Sessions!States
  <1>2. UNCHANGED <<owner, lease, up, held, begin>>
    BY DEF Sessions!Block
  <1>3. LeasesStay /\ LeasesEnd
    BY <1>2 DEF LeasesStay, LeasesEnd, Sessions!Live
  <1>4. LeasesApart' /\ StartedOnes' /\ Leased'
    BY <1>1, <1>2, <1>3, LeasesApartKept, StartedKept, LeasedKept
  <1> QED
    BY <1>1, <1>2, <1>4 DEF SessionInv, Sessions!TypeOK

\* A claimed task is given back.
LEMMA AbandonKeeps == ASSUME SessionInv, NEW s \in Session, NEW t \in Task, Sessions!Abandon(s, t) PROVE SessionInv'
  <1>1. /\ LeasesStay /\ LeasesEnd
        /\ lease' \in [Sessions!Lease -> Sessions!LeaseRow \cup {None}]
        /\ held' \in [Session -> [Task -> 0..MaxLeases]]
        /\ \A p \in Session, u \in Task : held'[p][u] \in {0, held[p][u]}
    BY Frees DEF Sessions!Abandon
  <1>2. /\ TasksStay /\ state' \in [Task -> Sessions!States]
        /\ owner' \in [Task -> {SessionAgent[p] : p \in Session} \cup {None}]
    BY Returns DEF Sessions!Abandon
  <1>3. UNCHANGED <<up, begin>>
    BY DEF Sessions!Abandon
  <1>4. LeasesApart' /\ StartedOnes' /\ Leased'
    BY <1>1, <1>2, <1>3, LeasesApartKept, StartedKept, LeasedKept
  <1> QED
    BY <1>1, <1>2, <1>3, <1>4 DEF SessionInv, Sessions!TypeOK

\* The release of all leases of a session, its crash, and the expiry of a lease.
LEMMA EndsKeep ==
  ASSUME SessionInv,
         \/ \E s \in Session : Sessions!ReleaseAll(s) \/ Sessions!Crash(s)
         \/ \E l \in Sessions!Lease : Sessions!Expire(l)
  PROVE  SessionInv'
  <1> USE RecordsAssumption DEF Sessions!Sane
  <1>0. \A l \in Sessions!Lease : lease[l] # None =>
           /\ [lease[l] EXCEPT !.live = FALSE] \in Sessions!LeaseRow
           /\ [lease[l] EXCEPT !.live = FALSE].task = lease[l].task
           /\ [lease[l] EXCEPT !.live = FALSE].holder = lease[l].holder
           /\ [lease[l] EXCEPT !.live = FALSE].live = FALSE
    <2> SUFFICES ASSUME NEW l \in Sessions!Lease, lease[l] # None
                 PROVE  /\ [lease[l] EXCEPT !.live = FALSE] \in Sessions!LeaseRow
                        /\ [lease[l] EXCEPT !.live = FALSE].task = lease[l].task
                        /\ [lease[l] EXCEPT !.live = FALSE].holder = lease[l].holder
                        /\ [lease[l] EXCEPT !.live = FALSE].live = FALSE
      OBVIOUS
    <2>1. lease[l] \in Sessions!LeaseRow
      BY DEF SessionInv, Sessions!TypeOK
    <2> QED
      BY <2>1 DEF Sessions!LeaseRow
  <1>00. 0 \in 0..MaxLeases
    OBVIOUS
  <1>1. ASSUME NEW s \in Session, Sessions!ReleaseAll(s) PROVE SessionInv'
    <2>1. UNCHANGED <<state, owner, up, begin>> /\ held' = [held EXCEPT ![s] = [t \in Task |-> 0]]
      BY <1>1 DEF Sessions!ReleaseAll
    <2>2. /\ held' \in [Session -> [Task -> 0..MaxLeases]]
          /\ \A p \in Session, u \in Task : held'[p][u] \in {0, held[p][u]}
      BY <1>00, <2>1 DEF SessionInv, Sessions!TypeOK
    <2>3. \A l \in Sessions!Lease : (\E t \in Task : held[s][t] = l) => lease[l] # None
      <3> SUFFICES ASSUME NEW l \in Sessions!Lease, NEW t \in Task, held[s][t] = l PROVE lease[l] # None
        OBVIOUS
      <3>1. l # 0
        BY DEF Sessions!Lease
      <3> QED
        BY <3>1 DEF SessionInv, StartedOnes, LeaseOf
    <2>4. \A l \in Sessions!Lease :
             \/ lease'[l] = lease[l]
             \/ lease[l] # None /\ lease'[l] = [lease[l] EXCEPT !.live = FALSE]
      BY <1>1, <2>3 DEF Sessions!ReleaseAll
    <2>5. lease' \in [Sessions!Lease -> Sessions!LeaseRow \cup {None}]
      <3>1. \A l \in Sessions!Lease : lease'[l] \in Sessions!LeaseRow \cup {None}
        BY <1>0, <2>4 DEF SessionInv, Sessions!TypeOK
      <3>2. lease' = [l \in Sessions!Lease |-> lease'[l]]
        BY <1>1 DEF Sessions!ReleaseAll
      <3> QED
        BY <3>1, <3>2
    <2>6. LeasesStay /\ LeasesEnd /\ TasksStay
      <3>1. LeasesStay
        BY <1>0, <2>4 DEF LeasesStay
      <3>2. LeasesEnd
        BY <1>0, <2>4 DEF LeasesEnd, Sessions!Live
      <3> QED
        BY <2>1, <3>1, <3>2 DEF TasksStay, Underway
    <2>7. LeasesApart' /\ StartedOnes' /\ Leased'
      BY <2>1, <2>2, <2>6, LeasesApartKept, StartedKept, LeasedKept
    <2> QED
      BY <2>1, <2>2, <2>5, <2>7 DEF SessionInv, Sessions!TypeOK
  <1>2. ASSUME NEW s \in Session, Sessions!Crash(s) PROVE SessionInv'
    <2>1. /\ UNCHANGED <<state, owner, lease>> /\ held' = [held EXCEPT ![s] = [t \in Task |-> 0]]
          /\ up' \subseteq Session /\ begin' = [begin EXCEPT ![s] = None]
      BY <1>2 DEF Sessions!Crash, SessionInv, Sessions!TypeOK
    <2>2. /\ held' \in [Session -> [Task -> 0..MaxLeases]]
          /\ \A p \in Session, u \in Task : held'[p][u] \in {0, held[p][u]}
      BY <1>00, <2>1 DEF SessionInv, Sessions!TypeOK
    <2>3. begin' \in [Session -> Sessions!Beginning \cup {None}]
      BY <2>1 DEF SessionInv, Sessions!TypeOK
    <2>4. \A p \in Session : Sessions!At(p, "leased")' => begin'[p] = begin[p]
      BY <2>1 DEF SessionInv, Sessions!TypeOK, Sessions!At
    <2>5. LeasesStay /\ LeasesEnd /\ TasksStay
      BY <2>1 DEF LeasesStay, LeasesEnd, TasksStay, Underway, Sessions!Live
    <2>6. LeasesApart' /\ StartedOnes' /\ Leased'
      BY <2>2, <2>4, <2>5, LeasesApartKept, StartedKept, LeasedKept
    <2> QED
      BY <2>1, <2>2, <2>3, <2>6 DEF SessionInv, Sessions!TypeOK
  <1>3. ASSUME NEW l \in Sessions!Lease, Sessions!Expire(l) PROVE SessionInv'
    <2>1. /\ UNCHANGED <<state, owner, up, held, begin>>
          /\ lease[l] # None /\ lease' = [lease EXCEPT ![l].live = FALSE]
      BY <1>3 DEF Sessions!Expire, Sessions!Live
    <2>2. /\ lease'[l] = [lease[l] EXCEPT !.live = FALSE]
          /\ \A m \in Sessions!Lease \ {l} : lease'[m] = lease[m]
          /\ lease' \in [Sessions!Lease -> Sessions!LeaseRow \cup {None}]
      BY <1>0, <2>1 DEF SessionInv, Sessions!TypeOK
    <2>3. LeasesStay /\ LeasesEnd /\ TasksStay
      BY <1>0, <2>1, <2>2 DEF LeasesStay, LeasesEnd, TasksStay, Underway, Sessions!Live
    <2>4. LeasesApart' /\ StartedOnes' /\ Leased'
      BY <2>1, <2>3, LeasesApartKept, StartedKept, LeasedKept
    <2> QED
      BY <2>1, <2>2, <2>4 DEF SessionInv, Sessions!TypeOK
  <1> QED
    BY <1>1, <1>2, <1>3

\* Every step of the work sessions keeps the invariant.
LEMMA SessionStepKeeps ==
  ASSUME SessionInv, Sessions!Next \/ UNCHANGED sessionVars
  PROVE  SessionInv'
  <1>1. CASE UNCHANGED sessionVars
    BY <1>1 DEF sessionVars, SessionInv, Sessions!TypeOK, LeasesApart, StartedOnes, Leased, LeaseOf,
                Sessions!Live, Sessions!Mine, Sessions!At, Underway
  <1>2. CASE Sessions!Next
    BY <1>2, ClaimKeeps, AcquireKeeps, RollbackKeeps, StartKeeps, CompleteKeeps, BlockKeeps, AbandonKeeps,
       EndsKeep DEF Sessions!Next
  <1> QED
    BY <1>1, <1>2

\* What an agent has started and still leases is its own, and nobody else writes there.
LEMMA StartedAreKept == SessionInv => Sessions!StartedIsKept
  <1> SUFFICES ASSUME SessionInv, NEW s \in Session, NEW t \in Task,
                      held[s][t] # 0, Sessions!Live(held[s][t])
               PROVE  /\ Sessions!Mine(s, t) /\ state[t] \notin {"PENDING", "CLAIMED"}
                      /\ \A l \in Sessions!Lease : Sessions!Live(l) /\ <<t, lease[l].task>> \in Overlap =>
                            lease[l].task = t
    BY DEF Sessions!StartedIsKept
  <1>1. LeaseOf(held[s][t], s, t) /\ Sessions!Mine(s, t) /\ Underway(t)
    BY DEF SessionInv, StartedOnes
  <1> QED
    BY <1>1 DEF SessionInv, LeasesApart, LeaseOf, Underway

-----------------------------------------------------------------------------
(* Process trees.                                                          *)

\* What a process of the run was started by: the child, or another process of the run that is
\* still there and was started before.
Descended(p) ==
    \/ row[p].parent = Root
    \/ row[p].parent \in Tree!Ours /\ row[row[p].parent].born < row[p].born

\* The table lists a process that the child started before its close event.
Witness(p) ==
    /\ seen[p] # None /\ p # Root /\ seen[p].parent = Root
    /\ seen[p].born \in 1 .. clock /\ (closedAt # 0 => seen[p].born <= closedAt)

\* Processes of the run descend from the child; when that has exited its pid starts no more of
\* them, and all it started are older than its close event.  While some are alive, so it is with
\* one in a table without the child.
TreeInv ==
    /\ Tree!TypeOK
    /\ \A p \in Tree!Ours : row[p].born \in 1 .. clock /\ (p # Root => Descended(p))
    /\ rootSeen # "alive" => Root \notin Tree!Ours
    /\ closedAt # 0 => rootSeen = "closed" /\ \A p \in Tree!Ours : row[p].parent = Root => row[p].born <= closedAt
    /\ seen # None /\ ~Tree!ChildListed /\ Tree!Ours # {} => \E p \in Pids : Witness(p)
    /\ Tree!StopProofSound

\* Pids and who has them.
LEMMA TreeTypes ==
  ASSUME TreeInv
  PROVE  /\ Tree!Ours \subseteq Tree!Live /\ Tree!Live \subseteq Pids
         /\ \A p \in Tree!Live : row[p] # None /\ row[p] \in Tree!Processes
         /\ \A p \in Pids : p \in Tree!Live <=> row[p] # None
         /\ \A p \in Pids : p \in Tree!Ours <=> row[p] # None /\ row[p].ours
  BY DEF TreeInv, Tree!TypeOK, Tree!Ours, Tree!Live

\* At first the child is the only process of the run.
LEMMA TreeInit == ASSUME Tree!Init PROVE TreeInv
  <1> USE RecordsAssumption DEF Tree!Sane
  <1>1. PICK elder \in SUBSET (Pids \ {Root}) :
           row = [p \in Pids |-> CASE p = Root -> Tree!Process(None, Tree!Started, TRUE)
                                  [] p \in elder -> Tree!Process(Root, 0, FALSE)
                                  [] OTHER -> None]
    BY DEF Tree!Init
  <1>2. /\ Tree!Process(None, Tree!Started, TRUE) \in Tree!Processes
        /\ Tree!Process(Root, 0, FALSE) \in Tree!Processes
    BY DEF Tree!Process, Tree!Processes, Tree!Started
  <1>3. row \in [Pids -> Tree!Processes \cup {None}]
    BY <1>1, <1>2
  <1>0. /\ platform \in {"posix", "win32"} /\ clock = 1 /\ rootSeen = "alive" /\ closedAt = 0
        /\ seen = None /\ known = [p \in Pids |-> None] /\ targets = {}
        /\ verdict = "none" /\ struck = FALSE
    BY DEF Tree!Init, Tree!Started
  <1>4. Tree!TypeOK
    <2>1. known \in [Pids -> Nat \cup {None}] /\ targets \subseteq Pids
      BY <1>0
    <2>2. clock \in Nat \ {0} /\ closedAt \in 0 .. clock
      BY <1>0
    <2> QED
      BY <1>0, <1>3, <2>1, <2>2 DEF Tree!TypeOK
  <1>5. \A p \in Pids : row[p] # None /\ row[p].ours => p = Root /\ row[p].born = 1
    <2> SUFFICES ASSUME NEW p \in Pids, row[p] # None, row[p].ours PROVE p = Root /\ row[p].born = 1
      OBVIOUS
    <2>1. CASE p = Root
      BY <1>1, <2>1 DEF Tree!Process, Tree!Started
    <2>2. CASE p # Root /\ p \in elder
      <3>1. row[p] = Tree!Process(Root, 0, FALSE)
        BY <1>1, <2>2
      <3> QED
        BY <3>1 DEF Tree!Process
    <2>3. CASE p # Root /\ p \notin elder
      BY <1>1, <2>3
    <2> QED
      BY <2>1, <2>2, <2>3
  <1>6. \A p \in Tree!Ours : p = Root /\ row[p].born = 1
    BY <1>5 DEF Tree!Ours, Tree!Live
  <1> QED
    BY <1>0, <1>4, <1>6 DEF TreeInv, Tree!StopProofSound

\* Kills that take with each process what it started keep the others' descent, and are
\* all that a step does to processes that neither starts nor ends one.
LEMMA KilledKeeps ==
  ASSUME TreeInv, NEW K,
         \A p \in Tree!Ours \ K : p # Root /\ row[p].parent # Root => row[p].parent \notin K,
         row' = [p \in Pids |-> IF p \in K THEN None ELSE row[p]],
         UNCHANGED <<clock, rootSeen, closedAt>>, Tree!TypeOK',
         \/ UNCHANGED seen /\ (verdict' # "stopped" \/ verdict = "stopped")
         \/ seen' = None /\ verdict' # "stopped"
  PROVE  TreeInv'
  <1>1. \A p \in Pids : p \in Tree!Ours' <=> p \in Tree!Ours /\ p \notin K
    BY TreeTypes DEF Tree!Ours, Tree!Live
  <1>2. Tree!Ours' \subseteq Tree!Ours /\ \A p \in Tree!Ours' : p \notin K /\ row'[p] = row[p]
    BY <1>1, TreeTypes DEF Tree!Ours, Tree!Live
  <1>3. ASSUME NEW p \in Tree!Ours', p # Root PROVE Descended(p)'
    <2>1. p \in Tree!Ours /\ row'[p] = row[p] /\ Descended(p)
      BY <1>2, <1>3 DEF TreeInv
    <2>2. CASE row[p].parent # Root
      <3>1. PICK q : q = row[p].parent
        OBVIOUS
      <3>2. q \in Tree!Ours /\ row[q].born < row[p].born
        BY <2>1, <2>2, <3>1 DEF Descended
      <3>3. q \notin K
        BY <1>2, <1>3, <2>1, <2>2, <3>1
      <3>4. q \in Tree!Ours' /\ row'[q] = row[q]
        BY <1>1, <1>2, <3>2, <3>3, TreeTypes
      <3> QED
        BY <2>1, <3>1, <3>2, <3>4 DEF Descended
    <2> QED
      BY <2>1, <2>2 DEF Descended
  <1>4. seen' # None /\ ~Tree!ChildListed' /\ Tree!Ours' # {} => \E p \in Pids : Witness(p)'
    <2> SUFFICES ASSUME seen' # None, ~Tree!ChildListed', Tree!Ours' # {} PROVE \E p \in Pids : Witness(p)'
      OBVIOUS
    <2>1. PICK p \in Pids : Witness(p)
      BY <1>2 DEF TreeInv, Tree!ChildListed
    <2> QED
      BY <2>1 DEF Witness
  <1>5. Tree!StopProofSound'
    BY <1>2 DEF TreeInv, Tree!StopProofSound, Tree!ChildListed
  <1> QED
    BY <1>2, <1>3, <1>4, <1>5 DEF TreeInv

\* Whoever is killed by taskkill /T, what it started is killed too.
LEMMA BelowIsWhole ==
  ASSUME TreeInv, NEW p \in Tree!Live, NEW q \in Tree!Ours \ Tree!Below(p), q # Root, row[q].parent # Root
  PROVE  row[q].parent \notin Tree!Below(p)
  <1>1. PICK by : by = row[q].parent
    OBVIOUS
  <1>2. by \in Tree!Ours /\ row[by].born < row[q].born
    BY <1>1 DEF TreeInv, Descended
  <1>3. row[by].born \in Nat /\ row[q].born \in Nat
    BY <1>2 DEF TreeInv
  <1>4. q \in Tree!Live
    BY TreeTypes
  <1> SUFFICES ASSUME by \in Tree!Below(p) PROVE q \in Tree!Below(p)
    BY <1>1
  <1>5. ASSUME NEW S \in SUBSET Tree!Live, p \in S,
               \A r \in Tree!Live : \A u \in S \cap {row[r].parent} : row[r].born > row[u].born => r \in S
        PROVE  q \in S
    <2>1. by \in S
      BY <1>5 DEF Tree!Below
    <2>2. row[q].born > row[by].born
      BY <1>2, <1>3
    <2> QED
      BY <1>1, <1>4, <1>5, <2>1, <2>2
  <1> QED
    BY <1>4, <1>5 DEF Tree!Below

\* A process starts: one of the run is started by another of the run.
LEMMA BeginKeeps ==
  ASSUME TidyTools, TreeInv, NEW p \in Pids, NEW by, NEW ours \in BOOLEAN, Tree!Begin(p, by, ours),
         \/ by \in Tree!Live /\ ours = row[by].ours
         \/ by = None /\ ours = FALSE
  PROVE  TreeInv'
  <1> USE RecordsAssumption DEF Tree!Sane
  <1>1. PICK born \in Nat : born = clock + 1
    BY DEF TreeInv, Tree!TypeOK
  <1>2. PICK new : new = Tree!Process(by, born, ours)
    OBVIOUS
  <1>3. /\ new \in Tree!Processes /\ new # None /\ new.parent = by /\ new.born = born /\ new.ours = ours
    BY <1>2, TreeTypes DEF Tree!Process, Tree!Processes
  <1>4. /\ p \notin Tree!Live /\ (p # Root \/ rootSeen # "alive") /\ (ours => p # Root)
        /\ clock' = born /\ row' = [row EXCEPT ![p] = new]
        /\ UNCHANGED <<platform, rootSeen, closedAt, seen, known, targets, verdict, struck>>
    BY <1>1, <1>2 DEF Tree!Begin, Tree!Free
  <1>5. row[p] = None /\ row \in [Pids -> Tree!Processes \cup {None}] /\ clock \in Nat
    BY <1>4, TreeTypes DEF TreeInv, Tree!TypeOK
  <1>6. Tree!TypeOK'
    <2>1. row' \in [Pids -> Tree!Processes \cup {None}]
      BY <1>3, <1>4, <1>5
    <2>2. clock' \in Nat \ {0} /\ closedAt' \in 0 .. clock'
      BY <1>1, <1>4 DEF TreeInv, Tree!TypeOK
    <2> QED
      BY <1>4, <2>1, <2>2 DEF TreeInv, Tree!TypeOK
  <1>7. \A q \in Pids : q # p => row'[q] = row[q]
    BY <1>4, <1>5
  <1>8. row'[p] = new
    BY <1>4, <1>5
  <1>9. \A q \in Pids : q \in Tree!Ours' <=> (IF q = p THEN ours ELSE q \in Tree!Ours)
    BY <1>3, <1>7, <1>8, TreeTypes DEF Tree!Ours, Tree!Live
  <1>10. Tree!Ours' \subseteq Pids /\ p \notin Tree!Ours
    BY <1>4, TreeTypes DEF Tree!Ours, Tree!Live
  <1>11. ours => by \in Tree!Ours /\ by # p
    BY <1>10, TreeTypes
  <1>12. ASSUME NEW q \in Tree!Ours' PROVE row'[q].born \in 1 .. clock' /\ (q # Root => Descended(q)')
    <2>1. CASE q = p
      <3>1. ours /\ by \in Tree!Ours /\ by # p
        BY <1>9, <1>10, <1>11, <2>1
      <3>2. by \in Tree!Ours' /\ row'[by] = row[by] /\ row[by].born \in 1 .. clock
        BY <1>7, <1>9, <3>1, TreeTypes DEF TreeInv
      <3>3. row[by].born < born
        BY <1>1, <1>5, <3>2
      <3> QED
        BY <1>1, <1>3, <1>4, <1>5, <1>8, <2>1, <3>2, <3>3 DEF Descended
    <2>2. CASE q # p
      <3>1. q \in Tree!Ours /\ row'[q] = row[q] /\ row[q].born \in 1 .. clock /\ (q # Root => Descended(q))
        BY <1>7, <1>9, <1>10, <2>2 DEF TreeInv
      <3>2. row[q].parent \in Tree!Ours => row[q].parent \in Tree!Ours' /\ row'[row[q].parent] = row[row[q].parent]
        BY <1>7, <1>9, <1>10, TreeTypes
      <3>3. row'[q].born \in 1 .. clock'
        BY <1>1, <1>4, <1>5, <3>1
      <3> QED
        BY <3>1, <3>2, <3>3 DEF Descended
    <2> QED
      BY <2>1, <2>2
  <1>13. rootSeen' # "alive" => Root \notin Tree!Ours'
    BY <1>4, <1>9 DEF TreeInv
  <1>14. ASSUME closedAt' # 0
         PROVE  rootSeen' = "closed" /\ \A q \in Tree!Ours' : row'[q].parent = Root => row'[q].born <= closedAt'
    <2>1. rootSeen = "closed" /\ \A q \in Tree!Ours : row[q].parent = Root => row[q].born <= closedAt
      BY <1>4, <1>14 DEF TreeInv
    <2>2. Root \notin Tree!Ours
      BY <2>1 DEF TreeInv
    <2>3. ours => by # Root
      BY <1>11, <2>2
    <2> QED
      BY <1>3, <1>4, <1>7, <1>8, <1>9, <1>10, <2>1, <2>3
  <1>15. Tree!StopProofSound'
    <2> SUFFICES ASSUME verdict' = "stopped", ~Tree!ChildListed' PROVE Tree!Ours' = {}
      BY DEF Tree!StopProofSound
    <2>1. Tree!Ours = {}
      BY <1>4 DEF TreeInv, Tree!StopProofSound, Tree!ChildListed
    <2> QED
      BY <1>9, <1>10, <1>11, <2>1
  <1>16. seen' # None /\ ~Tree!ChildListed' /\ Tree!Ours' # {} => \E q \in Pids : Witness(q)'
    <2> SUFFICES ASSUME seen # None, ~Tree!ChildListed, Tree!Ours' # {} PROVE \E q \in Pids : Witness(q)'
      BY <1>4 DEF Tree!ChildListed
    <2>1. Tree!Ours # {}
      BY <1>9, <1>10, <1>11
    <2>2. PICK q \in Pids : Witness(q)
      BY <2>1 DEF TreeInv
    <2>3. seen[q].born \in 1 .. clock'
      BY <1>1, <1>4, <1>5, <2>2 DEF Witness
    <2> QED
      BY <1>4, <2>2, <2>3 DEF Witness
  <1> QED
    BY <1>6, <1>12, <1>13, <1>14, <1>15, <1>16 DEF TreeInv

\* The oldest process of the run, once the child is gone, is one that the child started.
LEMMA EldestIsSeen ==
  ASSUME TreeInv, Root \notin Tree!Ours, Tree!Ours # {}
  PROVE  \E p \in Tree!Ours : /\ p # Root /\ row[p].parent = Root /\ row[p].born \in 1 .. clock
                              /\ closedAt # 0 => row[p].born <= closedAt
  <1> USE RecordsAssumption DEF Tree!Sane
  <1> DEFINE B == {row[p].born : p \in Tree!Ours}
  <1>1. B \subseteq Nat /\ B # {}
    BY DEF TreeInv
  <1>2. PICK b \in B : \A c \in B : b <= c
    <2> HIDE DEF B
    <2> QED
      BY <1>1, LeastNat
  <1>3. PICK p \in Tree!Ours : row[p].born = b
    OBVIOUS
  <1>4. \A q \in Tree!Ours : row[q].born \in Nat /\ row[p].born <= row[q].born
    <2> SUFFICES ASSUME NEW q \in Tree!Ours PROVE row[q].born \in Nat /\ row[p].born <= row[q].born
      OBVIOUS
    <2>1. row[q].born \in B
      OBVIOUS
    <2> HIDE DEF B
    <2> QED
      BY <1>1, <1>2, <1>3, <2>1
  <1>5. p # Root /\ row[p].parent = Root
    <2>1. p # Root
      BY DEF TreeInv
    <2>2. Descended(p)
      BY <2>1 DEF TreeInv
    <2>3. ~(row[p].parent \in Tree!Ours /\ row[row[p].parent].born < row[p].born)
      BY <1>4
    <2> QED
      BY <2>1, <2>2, <2>3 DEF Descended
  <1> QED
    BY <1>5 DEF TreeInv

\* What the table witnesses is found, whenever it is judged.
LEMMA WitnessIsOwned ==
  ASSUME seen # None, NEW p \in Pids, Witness(p) PROVE p \in Tree!Owned
  <1>1. \A S : Tree!Belongs(p, S)
    <2>1. seen[p].born >= Tree!Started
      BY DEF Witness, Tree!Started
    <2> QED
      BY <2>1 DEF Witness, Tree!Belongs
  <1>2. p \in Tree!Listed
    BY DEF Witness, Tree!Listed
  <1> QED
    BY <1>1, <1>2 DEF Tree!Owned

\* Every step of processes and of the check keeps the invariant.
LEMMA TreeStepKeeps ==
  ASSUME TidyTools, TreeInv, Tree!Next \/ UNCHANGED treeVars PROVE TreeInv'
  <1> USE RecordsAssumption DEF Tree!Sane
  <1>0. Tree!TypeOK
    BY DEF TreeInv
  <1>1. CASE UNCHANGED treeVars
    BY <1>1 DEF treeVars, TreeInv, Tree!TypeOK, Descended, Witness, Tree!Ours, Tree!Live,
                Tree!StopProofSound, Tree!ChildListed
  <1>2. CASE \E p \in Pids : \E by \in Tree!Live : Tree!Begin(p, by, row[by].ours)
    <2>1. PICK p \in Pids, by \in Tree!Live : Tree!Begin(p, by, row[by].ours)
      BY <1>2
    <2>2. PICK ours \in BOOLEAN : ours = row[by].ours
      BY TreeTypes DEF Tree!Processes
    <2> QED
      BY <2>1, <2>2, BeginKeeps
  <1>3. CASE \E p \in Pids : Tree!Begin(p, None, FALSE)
    BY <1>3, BeginKeeps
  <1>4. CASE \E p \in Pids : Tree!End(p)
    <2>1. PICK p \in Pids : Tree!End(p)
      BY <1>4
    <2>2. row' = [q \in Pids |-> IF q \in {p} THEN None ELSE row[q]]
      BY <1>0, <2>1 DEF Tree!End, Tree!TypeOK
    <2>3. Tree!TypeOK'
      BY <1>0, <2>1 DEF Tree!End, Tree!TypeOK
    <2>4. \A q \in Tree!Ours \ {p} : q # Root /\ row[q].parent # Root => row[q].parent \notin {p}
      <3> SUFFICES ASSUME NEW q \in Tree!Ours, q # Root, row[q].parent = p, p # Root PROVE FALSE
        OBVIOUS
      <3>1. p \in Tree!Ours
        BY DEF TreeInv, Descended
      <3>2. row[p].ours
        BY <3>1 DEF Tree!Ours
      <3> QED
        BY <2>1, <3>2 DEF Tree!End
    <2>5. UNCHANGED <<clock, rootSeen, closedAt, seen, verdict>>
      BY <2>1 DEF Tree!End
    <2> QED
      BY <2>2, <2>3, <2>4, <2>5, KilledKeeps
  <1>5. CASE \E p \in Pids : Tree!Terminate(p)
    <2>1. PICK p \in Pids : Tree!Terminate(p)
      BY <1>5
    <2>2. PICK K \in {{}, IF p \in Tree!Live THEN Tree!Below(p) ELSE {}} :
             /\ row' = [q \in Pids |-> IF q \in K THEN None ELSE row[q]]
             /\ struck' = (struck \/ K \ Tree!Ours # {})
      BY <2>1 DEF Tree!Terminate
    <2>3. /\ targets' = targets \ {p}
          /\ UNCHANGED <<platform, clock, rootSeen, closedAt, seen, known, verdict>>
      BY <2>1 DEF Tree!Terminate
    <2>4. Tree!TypeOK'
      BY <1>0, <2>2, <2>3 DEF Tree!TypeOK
    <2>5. \A q \in Tree!Ours \ K : q # Root /\ row[q].parent # Root => row[q].parent \notin K
      BY <2>2, BelowIsWhole
    <2> QED
      BY <2>2, <2>3, <2>4, <2>5, KilledKeeps
  <1>6. CASE Tree!RootEvent
    <2>1. UNCHANGED <<platform, row, clock, seen, known, targets, verdict, struck>>
      BY <1>6 DEF Tree!RootEvent
    <2>2. /\ Tree!Ours' = Tree!Ours /\ \A p : Descended(p)' <=> Descended(p)
          /\ Tree!ChildListed' <=> Tree!ChildListed
      BY <2>1 DEF Tree!Ours, Tree!Live, Descended, Tree!ChildListed
    <2>3. CASE rootSeen = "alive" /\ row[Root] = None /\ rootSeen' = "exited" /\ UNCHANGED closedAt
      <3>1. Root \notin Tree!Ours
        BY <2>3 DEF Tree!Ours, Tree!Live
      <3>2. \A p : Witness(p)' <=> Witness(p)
        BY <2>1, <2>3 DEF Witness
      <3> QED
        BY <1>0, <2>1, <2>2, <2>3, <3>1, <3>2 DEF TreeInv, Tree!TypeOK, Tree!StopProofSound
    <2>4. CASE rootSeen = "exited" /\ rootSeen' = "closed" /\ closedAt' = clock
      <3>1. \A p : Witness(p) => Witness(p)'
        BY <2>1, <2>4 DEF Witness
      <3> QED
        BY <1>0, <2>1, <2>2, <2>4, <3>1 DEF TreeInv, Tree!TypeOK, Tree!StopProofSound
    <2> QED
      BY <1>6, <2>3, <2>4 DEF Tree!RootEvent
  <1>7. CASE Tree!ProbeGroup
    <2>1. UNCHANGED <<platform, row, clock, rootSeen, closedAt, seen, known, targets, struck>> /\ verdict' = "stopped"
      BY <1>7 DEF Tree!ProbeGroup
    <2>2. Tree!Ours' = Tree!Ours /\ (\A p : Descended(p)' <=> Descended(p)) /\ Tree!Ours = {}
      BY <1>7, <2>1 DEF Tree!Ours, Tree!Live, Descended, Tree!ProbeGroup
    <2> QED
      BY <1>0, <2>1, <2>2 DEF TreeInv, Tree!TypeOK, Tree!StopProofSound
  <1>8. CASE Tree!KillGroup
    <2>1. /\ row' = [q \in Pids |-> IF q \in Tree!Ours THEN None ELSE row[q]]
          /\ UNCHANGED <<platform, clock, rootSeen, closedAt, seen, known, targets, verdict, struck>>
      BY <1>8 DEF Tree!KillGroup
    <2>2. Tree!TypeOK'
      BY <1>0, <2>1 DEF Tree!TypeOK
    <2>3. \A q \in Tree!Ours \ Tree!Ours : row[q].parent \notin Tree!Ours
      OBVIOUS
    <2> QED
      BY <2>1, <2>2, <2>3, KilledKeeps
  <1>9. CASE Tree!Look
    <2>1. /\ UNCHANGED <<platform, row, clock, rootSeen, closedAt, known, targets, verdict, struck>>
          /\ seen' = row /\ verdict = "none"
      BY <1>9 DEF Tree!Look
    <2>2. Tree!Ours' = Tree!Ours /\ \A p : Descended(p)' <=> Descended(p)
      BY <2>1 DEF Tree!Ours, Tree!Live, Descended
    <2>3. seen' # None /\ ~Tree!ChildListed' /\ Tree!Ours # {} => \E p \in Pids : Witness(p)'
      <3> SUFFICES ASSUME seen' # None, ~Tree!ChildListed', Tree!Ours # {} PROVE \E p \in Pids : Witness(p)'
        OBVIOUS
      <3>1. Root \notin Tree!Ours
        BY <2>1, TreeTypes DEF Tree!ChildListed
      <3>2. PICK p \in Tree!Ours : /\ p # Root /\ row[p].parent = Root /\ row[p].born \in 1 .. clock
                                   /\ closedAt # 0 => row[p].born <= closedAt
        BY <3>1, EldestIsSeen
      <3>3. row[p] # None /\ p \in Pids
        BY <3>2, TreeTypes
      <3>4. Witness(p)'
        BY <2>1, <3>2, <3>3 DEF Witness
      <3> QED
        BY <3>3, <3>4
    <2> QED
      BY <1>0, <2>1, <2>2, <2>3 DEF TreeInv, Tree!TypeOK, Tree!StopProofSound
  <1>11. CASE Tree!Judge
    <2>1. /\ UNCHANGED <<platform, row, clock, rootSeen, closedAt, struck>> /\ verdict = "none" /\ seen # None
          /\ known' = [p \in Pids |-> IF p \in Tree!Owned THEN seen[p].born ELSE known[p]]
          /\ targets' = Tree!Owned
          /\ verdict' = IF Tree!Owned # {} THEN "none" ELSE IF rootSeen = "alive" THEN "unconfirmed" ELSE "stopped"
          /\ seen' = IF verdict' = "none" THEN None ELSE seen
      BY <1>11 DEF Tree!Judge
    <2>2. Tree!Ours' = Tree!Ours /\ \A p : Descended(p)' <=> Descended(p)
      BY <2>1 DEF Tree!Ours, Tree!Live, Descended
    <2>3. Tree!Owned \subseteq Pids /\ \A p \in Tree!Owned : seen[p] # None
      BY DEF Tree!Owned, Tree!Listed
    <2>4. known' \in [Pids -> Nat \cup {None}] /\ targets' \subseteq Pids
      <3>1. \A p \in Tree!Owned : seen[p].born \in Nat
        BY <1>0, <2>1, <2>3 DEF Tree!TypeOK, Tree!Processes
      <3>2. \A p \in Pids : known[p] \in Nat \cup {None}
        BY <1>0 DEF Tree!TypeOK
      <3> QED
        BY <2>1, <2>3, <3>1, <3>2
    <2>5. verdict' # "none" => /\ Tree!Owned = {} /\ seen' = seen
                               /\ Tree!ChildListed' <=> Tree!ChildListed
                               /\ \A p : Witness(p)' <=> Witness(p)
      BY <2>1 DEF Tree!ChildListed, Witness
    <2>6. verdict' # "none" /\ ~Tree!ChildListed => Tree!Ours = {}
      BY <2>1, <2>5, WitnessIsOwned DEF TreeInv
    <2>7. Tree!StopProofSound'
      BY <2>2, <2>5, <2>6 DEF Tree!StopProofSound
    <2>8. seen' # None => seen' = seen /\ verdict' # "none"
      BY <2>1
    <2>9. seen' # None /\ ~Tree!ChildListed' => Tree!Ours' = {}
      BY <2>2, <2>5, <2>6, <2>8
    <2>10. Tree!TypeOK'
      BY <1>0, <2>1, <2>4, <2>8 DEF Tree!TypeOK
    <2> QED
      BY <2>1, <2>2, <2>7, <2>9, <2>10 DEF TreeInv
  <1>10. CASE Tree!GiveUp
    <2>1. PICK K \in {{}, IF platform = "win32" /\ rootSeen = "alive" /\ Root \in Tree!Live
                          THEN Tree!Below(Root) ELSE {}} :
             /\ row' = [q \in Pids |-> IF q \in K THEN None ELSE row[q]]
             /\ struck' = (struck \/ K \ Tree!Ours # {})
      BY <1>10 DEF Tree!GiveUp
    <2>2. /\ verdict' = "unconfirmed" /\ targets' = {} /\ seen' = None
          /\ UNCHANGED <<platform, clock, rootSeen, closedAt, known>>
      BY <1>10 DEF Tree!GiveUp
    <2>3. Tree!TypeOK'
      BY <1>0, <2>1, <2>2 DEF Tree!TypeOK
    <2>4. \A q \in Tree!Ours \ K : q # Root /\ row[q].parent # Root => row[q].parent \notin K
      BY <2>1, BelowIsWhole
    <2> QED
      BY <2>1, <2>2, <2>3, <2>4, KilledKeeps
  <1> QED
    BY <1>1, <1>2, <1>3, <1>4, <1>5, <1>6, <1>7, <1>8, <1>9, <1>10, <1>11 DEF Tree!Next

-----------------------------------------------------------------------------
(* Idempotent mutations.                                                   *)

\* A recorded key names an applied call of that key, and every applied call is recorded:
\* this is what a second caller under the key finds inside its transaction.
AppliedCalls ==
    /\ \A k \in DOMAIN rows : rows[k] \in applied /\ KeyOf[rows[k]] = k
    /\ \A c \in applied : Once!Recorded(c) /\ Once!Winner(c) = c

OnceInv == Once!TypeOK /\ AppliedCalls /\ Once!AnswersTrue

\* A response is no error.
LEMMA AnswersDiffer ==
    \A c, d : /\ Once!Response(c) = Once!Response(d) => c = d
              /\ \A w : w # "response" => Once!Response(c) # Once!Failed(w)
  <1> TAKE c, d
  <1>1. Once!Response(c) = Once!Response(d) => Once!Response(c).of = Once!Response(d).of
    OBVIOUS
  <1>2. \A w : Once!Response(c) = Once!Failed(w) => Once!Response(c).kind = Once!Failed(w).kind
    OBVIOUS
  <1> QED BY <1>1, <1>2 DEF Once!Response, Once!Failed

\* Nothing is recorded, applied or answered at first.
LEMMA OnceInit == Once!Init => OnceInv
  <1> SUFFICES ASSUME Once!Init PROVE OnceInv OBVIOUS
  <1>1. Once!TypeOK BY DEF Once!Init, Once!TypeOK, Once!Answers
  <1>2. AppliedCalls BY DEF Once!Init, AppliedCalls
  <1>3. Once!AnswersTrue BY AnswersDiffer DEF Once!Init, Once!AnswersTrue
  <1> QED BY <1>1, <1>2, <1>3 DEF OnceInv

\* A call that returns a: what is left to show is that a is true.
LEMMA ReturnTrue ==
    ASSUME OnceInv, NEW c \in Calls, NEW a \in Once!Answers, Once!Return(c, a), applied \subseteq applied',
           \A d \in Calls : a = Once!Response(d) =>
               d \in applied' /\ KeyOf[d] = KeyOf[c] /\ RequestOf[d] = RequestOf[c]
    PROVE  Once!AnswersTrue' /\ pc' \in [Calls -> {"idle", "missed", "done"}] /\ answer' \in [Calls -> Once!Answers]
  <1>1. pc' \in [Calls -> {"idle", "missed", "done"}] /\ answer' \in [Calls -> Once!Answers]
    BY DEF OnceInv, Once!TypeOK, Once!Return
  <1>2. ASSUME NEW e \in Calls, NEW d \in Calls, answer'[e] = Once!Response(d)
        PROVE  d \in applied' /\ KeyOf[d] = KeyOf[e] /\ RequestOf[d] = RequestOf[e]
    <2>1. CASE e = c BY <1>2, <2>1 DEF OnceInv, Once!TypeOK, Once!Return
    <2>2. CASE e # c
      <3>1. answer[e] = Once!Response(d) BY <1>2, <2>2 DEF OnceInv, Once!TypeOK, Once!Return
      <3> QED BY <3>1 DEF OnceInv, Once!AnswersTrue
    <2> QED BY <2>1, <2>2
  <1> QED BY <1>1, <1>2 DEF Once!AnswersTrue, Once!Response

\* A recorded response is of the recorded call, which is applied under that key.
LEMMA ReplayKeeps == ASSUME OnceInv, NEW c \in Calls, Once!Replay(c) PROVE OnceInv'
  <1> DEFINE w == Once!Winner(c)
             a == IF RequestOf[w] = RequestOf[c] THEN Once!Response(w) ELSE Once!Failed("mismatch")
  <1>1. w \in applied /\ w \in Calls /\ KeyOf[w] = KeyOf[c]
    BY DEF OnceInv, AppliedCalls, Once!TypeOK, Once!Replay, Once!Recorded, Once!Winner
  <1>2. a \in Once!Answers BY <1>1 DEF Once!Answers
  <1>3. \A d \in Calls : a = Once!Response(d) =>
            d \in applied' /\ KeyOf[d] = KeyOf[c] /\ RequestOf[d] = RequestOf[c]
    <2> SUFFICES ASSUME NEW d \in Calls, a = Once!Response(d)
                 PROVE  d \in applied' /\ KeyOf[d] = KeyOf[c] /\ RequestOf[d] = RequestOf[c]
      OBVIOUS
    <2>1. RequestOf[w] = RequestOf[c] /\ d = w
      <3> HIDE DEF w
      <3> QED BY AnswersDiffer
    <2> QED BY <1>1, <2>1 DEF Once!Replay
  <1>4. Once!Return(c, a) BY DEF Once!Replay
  <1>5. Once!AnswersTrue' /\ pc' \in [Calls -> {"idle", "missed", "done"}] /\ answer' \in [Calls -> Once!Answers]
    <2> HIDE DEF a
    <2> QED BY <1>2, <1>3, <1>4, ReturnTrue DEF Once!Replay
  <1>6. AppliedCalls' /\ (DOMAIN rows \subseteq {KeyOf[d] : d \in Calls})'
           /\ (\A k \in DOMAIN rows : rows[k] \in Calls)' /\ (applied \subseteq Calls)'
    BY DEF OnceInv, AppliedCalls, Once!TypeOK, Once!Replay, Once!Recorded, Once!Winner
  <1> QED BY <1>5, <1>6 DEF OnceInv, Once!TypeOK, Once!Answers, Once!Response, Once!Failed

\* What is applied under a free key is recorded in the same transaction.
LEMMA ApplyKeeps == ASSUME OnceInv, NEW c \in Calls, ~Once!Recorded(c), Once!Apply(c) PROVE OnceInv'
  <1>1. \A d \in applied : KeyOf[d] # KeyOf[c]
    BY DEF OnceInv, AppliedCalls, Once!Recorded
  <1>2. AppliedCalls'
    <2>1. \A k \in DOMAIN rows' : rows'[k] \in applied' /\ KeyOf[rows'[k]] = k
      BY DEF OnceInv, AppliedCalls, Once!Apply
    <2>2. \A d \in applied' : KeyOf[d] \in DOMAIN rows' /\ rows'[KeyOf[d]] = d
      BY <1>1 DEF OnceInv, AppliedCalls, Once!Apply, Once!Recorded, Once!Winner
    <2> QED BY <2>1, <2>2 DEF AppliedCalls, Once!Recorded, Once!Winner
  <1>3. (DOMAIN rows \subseteq {KeyOf[d] : d \in Calls})' /\ (applied \subseteq Calls)'
           /\ (\A k \in DOMAIN rows : rows[k] \in Calls)'
    BY DEF OnceInv, Once!TypeOK, Once!Apply
  <1>4. Once!Response(c) \in Once!Answers /\ Once!Return(c, Once!Response(c)) /\ c \in applied' /\ applied \subseteq applied'
    BY DEF Once!Answers, Once!Apply
  <1>5. \A d \in Calls : Once!Response(c) = Once!Response(d) =>
            d \in applied' /\ KeyOf[d] = KeyOf[c] /\ RequestOf[d] = RequestOf[c]
    BY <1>4, AnswersDiffer
  <1>6. Once!AnswersTrue' /\ pc' \in [Calls -> {"idle", "missed", "done"}] /\ answer' \in [Calls -> Once!Answers]
    BY <1>4, <1>5, ReturnTrue
  <1> QED BY <1>2, <1>3, <1>6 DEF OnceInv, Once!TypeOK, Once!Answers, Once!Response, Once!Failed

\* A mutation that throws is rolled back and answered with an error.
LEMMA ThrowsKeeps == ASSUME OnceInv, NEW c \in Calls, Once!Throws(c) PROVE OnceInv'
  <1>1. Once!Failed("error") \in Once!Answers /\ \A d \in Calls : Once!Failed("error") # Once!Response(d)
    BY AnswersDiffer DEF Once!Answers
  <1>2. Once!AnswersTrue' /\ pc' \in [Calls -> {"idle", "missed", "done"}] /\ answer' \in [Calls -> Once!Answers]
    BY <1>1, ReturnTrue DEF Once!Throws
  <1>3. AppliedCalls' BY DEF OnceInv, AppliedCalls, Once!Throws, Once!Recorded, Once!Winner
  <1> QED BY <1>2, <1>3 DEF OnceInv, Once!TypeOK, Once!Throws, Once!Answers, Once!Response, Once!Failed

\* Every step keeps the invariant.
LEMMA OnceStepKeeps == OnceInv /\ (Once!Next \/ UNCHANGED onceVars) => OnceInv'
  <1> SUFFICES ASSUME OnceInv, (Once!Next \/ UNCHANGED onceVars) PROVE OnceInv' OBVIOUS
  <1>1. CASE UNCHANGED onceVars
    BY <1>1 DEF OnceInv, Once!TypeOK, AppliedCalls, Once!AnswersTrue, Once!Recorded, Once!Winner,
                Once!Answers, Once!Response, Once!Failed, onceVars
  <1>2. ASSUME NEW c \in Calls, Once!Lookup(c) PROVE OnceInv'
    <2>1. CASE Once!Replay(c) BY <2>1, ReplayKeeps
    <2>2. CASE pc' = [pc EXCEPT ![c] = "missed"] /\ UNCHANGED <<rows, applied, answer>>
      BY <2>2 DEF OnceInv, Once!TypeOK, AppliedCalls, Once!AnswersTrue, Once!Recorded, Once!Winner,
                  Once!Answers, Once!Response, Once!Failed
    <2> QED BY <1>2, <2>1, <2>2 DEF Once!Lookup
  <1>3. ASSUME NEW c \in Calls, Once!Commit(c) PROVE OnceInv'
    BY <1>3, ReplayKeeps, ApplyKeeps, ThrowsKeeps DEF Once!Commit
  <1>4. ASSUME NEW c \in Calls, Once!Repeat(c) PROVE OnceInv'
    <2>1. Once!Failed("none") \in Once!Answers /\ \A d \in Calls : Once!Failed("none") # Once!Response(d)
      BY AnswersDiffer DEF Once!Answers
    <2>2. pc' \in [Calls -> {"idle", "missed", "done"}] /\ answer' \in [Calls -> Once!Answers]
      BY <1>4, <2>1 DEF OnceInv, Once!TypeOK, Once!Repeat
    <2>3. Once!AnswersTrue'
      <3> SUFFICES ASSUME NEW e \in Calls, NEW d \in Calls, answer'[e] = Once!Response(d)
                   PROVE  d \in applied /\ KeyOf[d] = KeyOf[e] /\ RequestOf[d] = RequestOf[e]
        BY <1>4 DEF Once!AnswersTrue, Once!Repeat, Once!Response
      <3>1. answer[e] = Once!Response(d) BY <1>4, <2>1 DEF OnceInv, Once!TypeOK, Once!Repeat
      <3> QED BY <3>1 DEF OnceInv, Once!AnswersTrue
    <2>4. AppliedCalls' BY <1>4 DEF OnceInv, AppliedCalls, Once!Repeat, Once!Recorded, Once!Winner
    <2> QED BY <1>4, <2>2, <2>3, <2>4 DEF OnceInv, Once!TypeOK, Once!Repeat, Once!Answers, Once!Response,
                                          Once!Failed
  <1> QED BY <1>1, <1>2, <1>3, <1>4 DEF Once!Next

\* A key is applied once: its row names the call that was.
LEMMA OnceApplied == ASSUME OnceInv PROVE Once!AppliedOnce /\ Once!AnswersTrue
  BY DEF OnceInv, AppliedCalls, Once!AppliedOnce, Once!Winner

-----------------------------------------------------------------------------
(* The theorems.                                                           *)

\* Notes keep their order, and readers what they passed.
LEMMA MemoryAlways == Spec => [](part = "memory" => MemoryInv)
  <1> DEFINE I == part = "memory" => MemoryInv
  <1>1. Init => I
    BY MemoryInit DEF Init
  <1>2. I /\ [Next]_all => I'
    <2> SUFFICES ASSUME I, [Next]_all, part' = "memory" PROVE MemoryInv'
      OBVIOUS
    <2> QED
      BY Split, MemoryStepKeeps
  <1> QED
    BY <1>1, <1>2, PTL DEF Spec

\* NothingLost: no contribution merged into a note is lost or merged twice, however stale what its
\* agent had read and however often it repeats the upsert.
THEOREM NothingIsLostAlways == Spec => []NothingLost
  <1>1. (part = "memory" => MemoryInv) => NothingLost
    BY NothingIsLost DEF NothingLost
  <1> QED
    BY MemoryAlways, <1>1, PTL

\* PagesComplete: a reader of changes misses none, and a paged scan returns the notes of one cursor.
THEOREM PagesAreCompleteAlways == Spec => []PagesComplete
  <1>1. (part = "memory" => MemoryInv) => PagesComplete
    BY PagesAreComplete DEF PagesComplete
  <1> QED
    BY MemoryAlways, <1>1, PTL

\* Recoveries keep the invariant of RecoveryRequestsProofs.
LEMMA RecoveryAlways == Spec => [](part = "recovery" => Proved!IInv)
  <1> DEFINE I == part = "recovery" => Proved!IInv
  <1>1. Init => I
    BY RecoveryInit DEF Init
  <1>2. I /\ [Next]_all => I'
    <2> SUFFICES ASSUME I, [Next]_all, part' = "recovery" PROVE Proved!IInv'
      OBVIOUS
    <2> QED
      BY Split, RecoveryStepKeeps
  <1> QED
    BY <1>1, <1>2, PTL DEF Spec

\* NeverRelaunched: a recovery key, and an attempt, start one runtime.
THEOREM NeverRelaunchedHere == Spec => []NeverRelaunched
  <1>1. (part = "recovery" => Proved!IInv) => NeverRelaunched
    BY RecoveryPromises DEF NeverRelaunched
  <1> QED
    BY RecoveryAlways, <1>1, PTL

\* OneVerdict: callers of a recovery key are not told contradictory outcomes.
THEOREM OneVerdictHere == Spec => []OneVerdict
  <1>1. (part = "recovery" => Proved!IInv) => OneVerdict
    BY RecoveryPromises DEF OneVerdict
  <1> QED
    BY RecoveryAlways, <1>1, PTL

\* AbandonedIsClosable: a reservation that nobody executes can be closed, but for one case.
THEOREM AbandonedIsClosableHere == Spec => []AbandonedIsClosable
  <1>1. (part = "recovery" => Proved!IInv) => AbandonedIsClosable
    BY RecoveryPromises DEF AbandonedIsClosable
  <1> QED
    BY RecoveryAlways, <1>1, PTL

\* Receipts stay honest.
LEMMA AttemptsAlways == Spec => [](part = "attempts" => AttemptInv)
  <1> DEFINE I == part = "attempts" => AttemptInv
  <1>1. Init => I
    BY AttemptInit DEF Init
  <1>2. I /\ [Next]_all => I'
    <2> SUFFICES ASSUME I, [Next]_all, part' = "attempts" PROVE AttemptInv'
      OBVIOUS
    <2> QED
      BY Split, AttemptStepKeeps
  <1> QED
    BY <1>1, <1>2, PTL DEF Spec

\* ReceiptsTrue: receipts tell the truth about the telemetry rows, whatever faults and repairs came.
THEOREM ReceiptsAreTrueAlways == Spec => []ReceiptsTrue
  <1>1. (part = "attempts" => AttemptInv) => ReceiptsTrue
    BY ReceiptsAreTrue DEF ReceiptsTrue
  <1> QED
    BY AttemptsAlways, <1>1, PTL

\* EndedForGood: an attempt that ended, and a sealed receipt with its row, are not rewritten.
THEOREM EndedForGoodAlways == Spec => EndedForGood
  <1> DEFINE I == part = "attempts" => AttemptInv
             A == part = "attempts" => Attempts!Unrewritten
  <1>1. I /\ [Next]_all => [A]_all
    <2> SUFFICES ASSUME I, [Next]_all, part = "attempts" PROVE Attempts!Unrewritten
      OBVIOUS
    <2> QED
      BY Split, AttemptStepKeeps
  <1>2. Spec => []I
    BY AttemptsAlways
  <1>3. Spec => [][A]_all
    <2> HIDE DEF I, A
    <2> QED
      BY <1>1, <1>2, PTL DEF Spec
  <1> QED
    BY <1>3 DEF EndedForGood

\* Leases stay apart, and started tasks leased.
LEMMA SessionsAlways == Spec => [](part = "sessions" => SessionInv)
  <1> DEFINE I == part = "sessions" => SessionInv
  <1>1. Init => I
    BY SessionInit DEF Init
  <1>2. I /\ [Next]_all => I'
    <2> SUFFICES ASSUME I, [Next]_all, part' = "sessions" PROVE SessionInv'
      OBVIOUS
    <2> QED
      BY Split, SessionStepKeeps
  <1> QED
    BY <1>1, <1>2, PTL DEF Spec

\* StartedIsKept: a session owns what it started while it holds the lease, and shares its files with nobody.
THEOREM StartedIsKeptAlways == Spec => []StartedIsKept
  <1>1. (part = "sessions" => SessionInv) => StartedIsKept
    BY StartedAreKept DEF StartedIsKept
  <1> QED
    BY SessionsAlways, <1>1, PTL

\* What the run started descends from its child.
LEMMA TreeAlways == ASSUME TidyTools PROVE Spec => [](part = "tree" => TreeInv)
  <1> DEFINE I == part = "tree" => TreeInv
  <1>1. Init => I
    BY TreeInit DEF Init
  <1>2. I /\ [Next]_all => I'
    <2> SUFFICES ASSUME I, [Next]_all, part' = "tree" PROVE TreeInv'
      OBVIOUS
    <2> QED
      BY Split, TreeStepKeeps
  <1> QED
    BY <1>1, <1>2, PTL DEF Spec

\* StopProofSound: no process of a run is alive once its stop is proved, unless the process table it
\* was proved by lists the child; provided that a tool outlives what it started and none gets the pid
\* of the child.
THEOREM StopProofIsSound == ASSUME TidyTools PROVE Spec => []StopProofSound
  <1>1. (part = "tree" => TreeInv) => StopProofSound
    BY DEF StopProofSound, TreeInv
  <1> QED
    BY TreeAlways, <1>1, PTL

\* Every recorded key names the call that was applied under it.
LEMMA OnceAlways == Spec => [](part = "once" => OnceInv)
  <1> DEFINE I == part = "once" => OnceInv
  <1>1. Init => I
    BY OnceInit DEF Init
  <1>2. I /\ [Next]_all => I'
    <2> SUFFICES ASSUME I, [Next]_all, part' = "once" PROVE OnceInv'
      OBVIOUS
    <2> QED
      BY Split, OnceStepKeeps
  <1> QED
    BY <1>1, <1>2, PTL DEF Spec

\* AnswersTrue: an idempotency key is applied once, and a response is of the very request that gets it.
THEOREM AnswersAreTrueAlways == Spec => []AnswersTrue
  <1>1. (part = "once" => OnceInv) => AnswersTrue
    BY OnceApplied DEF AnswersTrue
  <1> QED
    BY OnceAlways, <1>1, PTL
=============================================================================
