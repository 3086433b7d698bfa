---------------------------- MODULE SharedMemory ----------------------------
(***************************************************************************)
(* Shared working memory (memory-service.ts): agents write revisions of    *)
(* notes with compare-and-set and an idempotency key, and read them by     *)
(* pages, as the notes current at a cursor or as the changes since one.    *)
(* An upsert is one BEGIN IMMEDIATE transaction, a page one read.          *)
(*                                                                         *)
(* A note's text is the set of the contributions merged into it.  One      *)
(* scope; an event of anything else only moves the head.  Sizes: a page    *)
(* may hold fewer rows than its limit, and notes of the keys in Big fit    *)
(* no page of the default budget.                                          *)
(* Bounds: one contribution per agent, MaxEvents events.                   *)
(***************************************************************************)
EXTENDS Naturals, Sequences, FiniteSets

CONSTANTS None, Agents, Keys, Big, Limit, MaxEvents

VARIABLES
    notes,     \* memory_notes, by change_cursor
    head,      \* lastEventId
    cache,     \* idempotency rows, one key per agent's contribution
    working,   \* agents whose task is WORKING or VERIFYING
    request,   \* the upsert an agent is trying to have done
    told,      \* agents that were given a final answer
    reader,    \* which of the two scans is under way
    mirror,    \* a reader of changes: the cursors it has, where it is, its frozen end
    scan       \* a reader of context: frozen cursor, last key, cursors and omissions it has

writing == <<notes, head, cache>>
reading == <<reader, mirror, scan>>
memoryVars == <<notes, head, cache, working, request, told, reader, mirror, scan>>

Of(k, at) == {n \in notes : n.key = k /\ n.cursor <= at}

\* getMemoryNote: the last revision of a key.
Nothing == [key |-> None, rev |-> 0, body |-> {}, life |-> None, cursor |-> 0]
LatestOf(k) == IF Of(k, head) = {} THEN Nothing
               ELSE CHOOSE n \in Of(k, head) : \A m \in Of(k, head) : m.rev <= n.rev

Init ==
    /\ notes = {} /\ head = 0
    /\ cache = [a \in Agents |-> None]
    /\ working = Agents
    /\ request = [a \in Agents |-> None] /\ told = {}
    /\ reader \in {"changes", "context"}
    /\ mirror = [got |-> {}, since |-> 0, until |-> 0]
    /\ scan = [at |-> 0, after |-> 0, got |-> {}, omitted |-> {}, done |-> FALSE]
-----------------------------------------------------------------------------
(* The agents.                                                             *)

\* An agent reads a note, merges its contribution and will send the result, at any later time.
Compose(a, k, life) ==
    /\ request[a] = None /\ a \notin told
    /\ request' = [request EXCEPT ![a] = [key |-> k, expected |-> LatestOf(k).rev,
                                          body |-> LatestOf(k).body \cup {a}, life |-> life]]
    /\ UNCHANGED <<writing, working, told, reading>>

\* No answer came: the agent gives the request up, not knowing, and may compose another.
GiveUp(a) ==
    /\ request[a] # None /\ request' = [request EXCEPT ![a] = None]
    /\ UNCHANGED <<writing, working, told, reading>>

TaskEnds(a) ==
    /\ a \in working /\ working' = working \ {a}
    /\ UNCHANGED <<writing, request, told, reading>>

OtherEvent ==
    /\ head < MaxEvents /\ head' = head + 1
    /\ UNCHANGED <<notes, cache, working, request, told, reading>>

(* upsert.                                                                 *)

Cached(a) == cache[a] # None

\* Seeded bug: any earlier revision will do.
Known(q) == LatestOf(q.key).rev >= q.expected
Expected(q) == LatestOf(q.key).rev = q.expected

Record(q) == [key |-> q.key, rev |-> q.expected + 1, body |-> q.body, life |-> q.life, cursor |-> head + 1]

Outcome(a) ==
    IF Cached(a) THEN IF cache[a].request = request[a] THEN "replayed" ELSE "mismatch"
    ELSE IF a \notin working THEN "illegal" ELSE IF Expected(request[a]) THEN "written" ELSE "conflict"

\* The call is served; its answer arrives or is lost.  A reference or a related task that
\* does not check refuses it like a conflict.
Upsert(a, refused, lost) ==
    /\ request[a] # None
    /\ LET outcome == IF refused /\ Outcome(a) = "written" THEN "conflict" ELSE Outcome(a)
           final == ~lost /\ outcome \in {"written", "replayed", "mismatch", "illegal"}
       IN  /\ outcome = "written" => head < MaxEvents
           /\ IF outcome = "written"
              THEN /\ notes' = notes \cup {Record(request[a])} /\ head' = head + 1
                   /\ cache' = [cache EXCEPT ![a] = [request |-> request[a], answer |-> Record(request[a])]]
              ELSE UNCHANGED writing
           /\ told' = IF final THEN told \cup {a} ELSE told
           /\ request' = IF lost THEN request ELSE [request EXCEPT ![a] = None]
    /\ UNCHANGED <<working, reading>>
-----------------------------------------------------------------------------
(* getChanges.                                                             *)

Changes == {n \in notes : mirror.since < n.cursor /\ n.cursor <= mirror.until}
\* The first n of them, by cursor.
FirstChanges(n) == {c \in Changes : Cardinality({d \in Changes : d.cursor <= c.cursor}) <= n}

PageCursor(page) ==
    IF page = {} THEN mirror.since
    ELSE (CHOOSE n \in page : \A m \in page : m.cursor <= n.cursor).cursor

\* A page of n changes at most, of the changes up to the frozen end.  A change that
\* fits no page is an error, and the same page is read with a larger budget.
ReadChanges(n) ==
    /\ Changes # {} /\ n \in 1 .. Limit
    /\ mirror' = [mirror EXCEPT !.got = @ \cup {c.cursor : c \in FirstChanges(n)},
                                !.since = PageCursor(FirstChanges(n))]
    /\ UNCHANGED <<writing, working, request, told, reader, scan>>

\* The next scan of changes is frozen at the head, when nothing more is left of this one.
FreezeChanges ==
    /\ reader = "changes" /\ Changes = {} /\ mirror.until # head
    /\ mirror' = [mirror EXCEPT !.until = head]
    /\ UNCHANGED <<writing, working, request, told, reader, scan>>

(* getContext.                                                             *)

\* Seeded bug: a revision written after the cursor hides the one that was current then.
CurrentNow(at) == {n \in notes : n.cursor <= at /\ \A m \in Of(n.key, head) : m.rev <= n.rev}
Current(at) == {n \in notes : n.cursor <= at /\ \A m \in Of(n.key, at) : m.rev <= n.rev}
Active(at) == {n \in Current(at) : n.life = "active"}

Rows == {n \in Active(scan.at) : n.key > scan.after}
FirstRows(n) == {r \in Rows : Cardinality({s \in Rows : s.key <= r.key}) <= n}
\* A note too large for the page is left out by name, unless the page has notes already.
Fits(page) == \A r \in page : r.key \in Big => \A s \in page : s.key < r.key => s.key \in Big

ReadContext(n) ==
    /\ ~scan.done /\ scan.at > 0 /\ Rows # {} /\ n \in 1 .. Limit /\ Fits(FirstRows(n))
    /\ LET page == FirstRows(n)
           large == {r \in page : r.key \in Big}
       IN  scan' = [scan EXCEPT !.got = @ \cup {r.cursor : r \in page \ large},
                                !.omitted = @ \cup {r.cursor : r \in large},
                                !.after = (CHOOSE r \in page : \A s \in page : s.key <= r.key).key]
    /\ UNCHANGED <<writing, working, request, told, reader, mirror>>

ContextRead ==
    /\ ~scan.done /\ scan.at > 0 /\ Rows = {} /\ scan' = [scan EXCEPT !.done = TRUE]
    /\ UNCHANGED <<writing, working, request, told, reader, mirror>>

\* The first page fixes at_cursor.
FreezeContext ==
    /\ reader = "context" /\ scan.at < head /\ (scan.done \/ scan.at = 0)
    /\ scan' = [at |-> head, after |-> 0, got |-> {}, omitted |-> {}, done |-> FALSE]
    /\ UNCHANGED <<writing, working, request, told, reader, mirror>>

Next ==
    \/ \E a \in Agents : \/ \E k \in Keys, l \in {"active", "archived"} : Compose(a, k, l)
                         \/ \E refused, lost \in BOOLEAN : Upsert(a, refused, lost)
                         \/ GiveUp(a) \/ TaskEnds(a)
    \/ OtherEvent \/ FreezeChanges \/ FreezeContext \/ ContextRead
    \/ \E n \in 1 .. Limit : ReadChanges(n) \/ ReadContext(n)

Spec == Init /\ [][Next]_memoryVars
-----------------------------------------------------------------------------
(* Properties.                                                             *)

Life == {"active", "archived"}
Note == [key : Keys, rev : Nat \ {0}, body : SUBSET Agents, life : Life, cursor : Nat \ {0}]
Request == [key : Keys, expected : Nat, body : SUBSET Agents, life : Life]
Written == [request : Request, answer : Note]

\* Keys are ordered, like the texts they stand for; None is no row and no request.
Sane ==
    /\ MaxEvents \in Nat /\ Limit \in Nat /\ Keys \subseteq Nat \ {0}
    /\ None \notin Request /\ None \notin Written

TypeOK ==
    /\ head \in 0 .. MaxEvents /\ working \subseteq Agents /\ told \subseteq Agents
    /\ notes \subseteq Note /\ \A n \in notes : n.cursor <= head
    /\ cache \in [Agents -> Written \cup {None}] /\ request \in [Agents -> Request \cup {None}]
    /\ mirror \in [got : SUBSET Nat, since : Nat, until : Nat]
    /\ mirror.since <= mirror.until /\ mirror.until <= head
    /\ scan \in [at : Nat, after : Nat, got : SUBSET Nat, omitted : SUBSET Nat, done : BOOLEAN]
    /\ scan.at <= head

\* No update is lost: whatever an agent merged into a note is in every later revision of it,
\* however stale the revision another agent had read (1); and one contribution makes one
\* revision, however often the call is repeated, given up and sent again in other words (2).
NothingLost ==
    /\ \A n, m \in notes : n.key = m.key /\ n.cursor < m.cursor => n.body \subseteq m.body /\ n.rev < m.rev
    /\ \A a \in Agents :
         Cardinality({n \in notes : a \in n.body /\ \A m \in notes :
                         m.key = n.key /\ m.cursor < n.cursor => a \notin m.body}) <= 1

\* A reader of changes has every change up to its cursor, wherever pages were cut and whatever
\* was written meanwhile (1).  A paged scan returns the notes as they were at one cursor: none is
\* missed, repeated in a newer revision or dropped because it changed between two pages (2).
PagesComplete ==
    /\ mirror.got = {n.cursor : n \in {m \in notes : m.cursor <= mirror.since}}
    /\ scan.done => scan.got \cup scan.omitted = {n.cursor : n \in
         {m \in notes : m.life = "active" /\ m.cursor <= scan.at
                        /\ \A o \in notes : o.key = m.key /\ o.cursor <= scan.at => o.cursor <= m.cursor}}
=============================================================================
