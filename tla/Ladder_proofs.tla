---------------------------- MODULE Ladder_proofs ----------------------------
(***************************************************************************)
(* Proofs about Ladder: a teardown deletes no role that the bot did not    *)
(* make, whatever overlaps, and edits that do not overlap remember every   *)
(* role that the bot made, until its mark is given up.                     *)
(***************************************************************************)
EXTENDS Ladder, TLAPS

LadderInv == TypeOK /\ FlagsTrue /\ MarkInv

LEMMA LadderInit == Init => LadderInv
<1> SUFFICES ASSUME Init PROVE LadderInv
  OBVIOUS
<1>1. Idle \in Task /\ Idle.op = "none" /\ Idle.pc = "find"
      /\ Idle.new = {} /\ Idle.old = {} /\ Idle.todo = {}
  BY DEF Idle, Job, Task
<1>2. TypeOK
  BY <1>1 DEF Init, TypeOK
<1>3. FlagsTrue
  BY <1>1 DEF Init, FlagsTrue
<1>4. MarkInv
  BY <1>1 DEF Init, MarkInv, Numbered, OneEditor, BotRolesRemembered, Settled,
              TakenUnmarked, KnowsMarks, Editor, Flagged, Bots, At
<1> QED BY <1>2, <1>3, <1>4 DEF LadderInv

-----------------------------------------------------------------------------
(***************************************************************************)
(* One lemma for each action: it keeps the invariant.                      *)
(***************************************************************************)
\* What the handler does with a role it has found or made.
LEMMA TakesFields ==
    ASSUME TypeOK, NEW t \in Handlers, NEW n, NEW r, NEW flag, Takes(t, n, r, flag)
    PROVE  /\ \A u \in Handlers : u # t => task'[u] = task[u]
           /\ task'[t].op = task[t].op /\ task'[t].left = task[t].left \ {n}
           /\ task'[t].old = task[t].old /\ task'[t].todo = task[t].todo
           /\ \/ /\ task[t].op = "upsert" /\ task'[t].pc = "insert"
                 /\ task'[t].role = r /\ task'[t].flag = flag
                 /\ task'[t].new = task[t].new
              \/ /\ task[t].op = "custom" /\ task'[t].pc = "find"
                 /\ task'[t].new = task[t].new \cup {[role |-> r, bot |-> flag]}
<1>1. CASE task[t].op = "upsert"
  BY <1>1 DEF TypeOK, Takes, Task
<1>2. CASE task[t].op = "custom"
  BY <1>2 DEF TypeOK, Takes, Task
<1> QED BY <1>1, <1>2 DEF Takes

LEMMA TakesTypes ==
    ASSUME TypeOK, NEW t \in Handlers, NEW n, NEW r \in Role, NEW flag \in BOOLEAN,
           Takes(t, n, r, flag)
    PROVE  task' \in [Handlers -> Task]
<1>1. task[t] \in Task
  BY DEF TypeOK
<1>2. [role |-> r, bot |-> flag] \in Row
  BY DEF Row
<1>3. CASE task[t].op = "upsert"
  BY <1>1, <1>3 DEF Takes, TypeOK, Task
<1>4. CASE task[t].op = "custom"
  BY <1>1, <1>2, <1>4 DEF Takes, TypeOK, Task
<1> QED BY <1>3, <1>4 DEF Takes

\* No edit starts, moves or ends, and the table stays as it is, whatever is
\* committed: the marks are remembered.
LEMMA NoEditMoves ==
    ASSUME MarkInv, rows' = rows, disk' \in {disk, rows}, Bots' \subseteq Bots,
           ids \in Nat, ids' \in Nat, ids <= ids', Numbered',
           forgotten' = forgotten,
           \A u \in Handlers : Editor(u) \/ Editor(u)' => task'[u] = task[u]
    PROVE  MarkInv'
<1> SUFFICES ASSUME Serial
             PROVE  /\ OneEditor' /\ BotRolesRemembered' /\ Settled'
                    /\ \A t \in Handlers : TakenUnmarked(t)' /\ KnowsMarks(t)'
  BY DEF MarkInv
<1>1. \A u \in Handlers : Editor(u)' <=> Editor(u)
  BY DEF Editor
<1>2. OneEditor'
  BY <1>1 DEF MarkInv, OneEditor
<1>3. ASSUME NEW r \in Handlers, NEW q, Carries(r, q) PROVE Carries(r, q)'
  BY <1>3 DEF Carries, At, Editor
<1>4. BotRolesRemembered'
  BY <1>3 DEF MarkInv, BotRolesRemembered, Flagged
<1>5. Settled'
  BY <1>1 DEF MarkInv, Settled, Editing, Flagged
<1>6. \A t \in Handlers : TakenUnmarked(t)' /\ KnowsMarks(t)'
  BY DEF MarkInv, TakenUnmarked, KnowsMarks, At, Editor, Flagged
<1> QED BY <1>2, <1>4, <1>5, <1>6

\* An edit is ended by an exception.
LEMMA AbandonKeeps ==
    ASSUME TypeOK, MarkInv, NEW t \in Handlers, Editor(t), Abandons(t),
           UNCHANGED <<rows, disk, roles, ids>>
    PROVE  MarkInv'
<1>1. /\ \A u \in Handlers : u # t => task'[u] = task[u]
      /\ task'[t].op = "none" /\ task'[t].new = {}
  BY DEF Abandons, Leaves, TypeOK, Idle, Job
<1>2. /\ Bots' = Bots
      /\ forgotten' = forgotten \cup
            (Bots \cap (roles \ (Flagged(rows) \cap Flagged(disk))))
  BY DEF Abandons, Forgets, Bots
<1>3. Numbered'
  BY <1>1 DEF MarkInv, Numbered, At
<1> SUFFICES ASSUME Serial
             PROVE  /\ OneEditor' /\ BotRolesRemembered' /\ Settled'
                    /\ \A u \in Handlers : TakenUnmarked(u)' /\ KnowsMarks(u)'
  BY <1>3 DEF MarkInv
<1>4. \A u \in Handlers : task'[u].op \notin {"upsert", "custom"}
  BY <1>1 DEF MarkInv, OneEditor, Editor
<1>5. OneEditor' /\ \A u \in Handlers : TakenUnmarked(u)' /\ KnowsMarks(u)'
  BY <1>4 DEF OneEditor, TakenUnmarked, KnowsMarks, Editor, At
<1>6. Settled'
  BY <1>2 DEF Settled, Flagged, Bots
<1>7. BotRolesRemembered'
  BY <1>2 DEF MarkInv, BotRolesRemembered, Flagged, Bots
<1> QED BY <1>5, <1>6, <1>7

LEMMA SetupKeeps ==
    ASSUME LadderInv, NEW t \in Handlers, NEW L \in Ladders,
           Setup(t, L)
    PROVE  LadderInv'
<1> USE DEF LadderInv, Setup, At, Uncounted, Bounded, Fault, Hand, Leaves,
            Editor, Editing
<1>1. TypeOK'
  BY DEF TypeOK, Ladders, Job, Task, Row, Role
<1>2. FlagsTrue'
  BY DEF FlagsTrue, TypeOK, Job, Task, Row, Role
<1>3. MarkInv'
  <2>a. /\ \A u \in Handlers : u # t => task'[u] = task[u]
        /\ task'[t].op = "upsert" /\ task'[t].pc = "find" /\ disk' = rows
        /\ UNCHANGED <<rows, roles, ids, forgotten>>
    BY DEF TypeOK, Job
  <2>b. Serial => ~Editing
    OBVIOUS
  <2> HIDE DEF Setup, Editor, Editing
  <2>0. Numbered'
    BY <2>a DEF MarkInv, Numbered
  <2> SUFFICES ASSUME Serial
               PROVE  /\ OneEditor' /\ BotRolesRemembered' /\ Settled'
                      /\ \A u \in Handlers : TakenUnmarked(u)' /\ KnowsMarks(u)'
    BY <2>0 DEF MarkInv
  <2>1. \A u \in Handlers : Editor(u)' => u = t
    BY <2>a, <2>b DEF Editing, Editor
  <2>2. OneEditor' /\ \A u \in Handlers : TakenUnmarked(u)' /\ KnowsMarks(u)'
    BY <2>1, <2>a DEF OneEditor, TakenUnmarked, KnowsMarks, Editor
  <2>3. \A u \in Handlers : \A r : ~Carries(u, r)
    BY <2>b DEF Carries, Editing, Editor
  <2>4. BotRolesRemembered'
    BY <2>3, <2>a DEF MarkInv, BotRolesRemembered, Bots, Flagged
  <2>5. Settled'
    BY <2>a DEF Settled, Flagged
  <2> QED BY <2>2, <2>4, <2>5
<1> QED BY <1>1, <1>2, <1>3

LEMMA CustomiseKeeps ==
    ASSUME LadderInv, NEW t \in Handlers, NEW L \in Ladders,
           Customise(t, L)
    PROVE  LadderInv'
<1> USE DEF LadderInv, Customise, At, Uncounted, Bounded, Fault, Hand, Leaves,
            Editor, Editing
<1>1. TypeOK'
  BY DEF TypeOK, Flagged, Ladders, Job, Task, Row, Role
<1>2. FlagsTrue'
  BY DEF FlagsTrue, TypeOK, Flagged, Job, Task, Row, Role
<1>3. MarkInv'
  <2>a. /\ \A u \in Handlers : u # t => task'[u] = task[u]
        /\ task'[t].op = "custom" /\ task'[t].pc = "find" /\ task'[t].new = {}
        /\ task'[t].old = Flagged(rows)
        /\ UNCHANGED <<rows, disk, roles, ids, forgotten>>
    BY DEF TypeOK, Job
  <2>b. Serial => ~Editing
    OBVIOUS
  <2> HIDE DEF Customise, Editor, Editing
  <2>0. Numbered'
    BY <2>a DEF MarkInv, Numbered
  <2> SUFFICES ASSUME Serial
               PROVE  /\ OneEditor' /\ BotRolesRemembered' /\ Settled'
                      /\ \A u \in Handlers : TakenUnmarked(u)' /\ KnowsMarks(u)'
    BY <2>0 DEF MarkInv
  <2>1. \A u \in Handlers : Editor(u)' => u = t
    BY <2>a, <2>b DEF Editing, Editor
  <2>2. OneEditor' /\ \A u \in Handlers : TakenUnmarked(u)' /\ KnowsMarks(u)'
    BY <2>1, <2>a DEF OneEditor, TakenUnmarked, KnowsMarks, Editor, At, Flagged
  <2>3. \A u \in Handlers : \A r : ~Carries(u, r)
    BY <2>b DEF Carries, Editing, Editor
  <2>4. BotRolesRemembered'
    BY <2>3, <2>a DEF MarkInv, BotRolesRemembered, Bots, Flagged
  <2>5. Settled'
    BY <2>a DEF Settled, Editing, Editor
  <2> QED BY <2>2, <2>4, <2>5
<1> QED BY <1>1, <1>2, <1>3

LEMMA FindKeeps ==
    ASSUME LadderInv, NEW t \in Handlers, NEW n \in task[t].left,
           NEW r \in roles, Find(t, n, r)
    PROVE  LadderInv'
<1> USE DEF LadderInv, Find, At, Uncounted, Bounded, Fault, Hand, Leaves,
            Editor, Editing
<1>1. TypeOK'
  <2>1. r \in Role /\ FlagOf(t, r) \in BOOLEAN
    BY DEF TypeOK, FlagOf
  <2> QED BY <2>1, TakesTypes DEF TypeOK
<1>2. FlagsTrue'
  <2>1. r \in Role /\ (FlagOf(t, r) => r.by = "bot")
    BY DEF TypeOK, FlagOf, FlagsTrue
  <2> QED BY <2>1, TakesFields DEF FlagsTrue
<1>3. MarkInv'
  <2>a. /\ UNCHANGED <<rows, disk, roles, ids, forgotten>>
        /\ Editor(t) /\ task[t].pc = "find" /\ n \in task[t].left
        /\ r \in roles /\ r.name = n
        /\ Takes(t, n, r, FlagOf(t, r))
    OBVIOUS
  <2> DEFINE flag == FlagOf(t, r)
  <2>b. /\ \A u \in Handlers : u # t => task'[u] = task[u]
        /\ task'[t].op = task[t].op /\ task'[t].left = task[t].left \ {n}
        /\ task'[t].old = task[t].old
        /\ \/ /\ task[t].op = "upsert" /\ task'[t].pc = "insert"
              /\ task'[t].role = r /\ task'[t].flag = flag
           \/ /\ task[t].op = "custom" /\ task'[t].pc = "find"
              /\ task'[t].new = task[t].new \cup {[role |-> r, bot |-> flag]}
        /\ task[t].op = "upsert" => task'[t].new = task[t].new
    BY <2>a, TakesFields
  <2>c. /\ task[t].op = "upsert" => ~flag
        /\ task[t].op = "custom" => (flag <=> r \in task[t].old)
    BY DEF FlagOf
  <2> HIDE DEF Find, Editor, Editing, flag
  <2>0. Numbered'
    BY <2>a, <2>b DEF MarkInv, Numbered, At
  <2> SUFFICES ASSUME Serial
               PROVE  /\ OneEditor' /\ BotRolesRemembered' /\ Settled'
                      /\ \A u \in Handlers : TakenUnmarked(u)' /\ KnowsMarks(u)'
    BY <2>0 DEF MarkInv
  <2>1. \A u \in Handlers : Editor(u)' <=> Editor(u)
    BY <2>b DEF Editor
  <2>2. \A u \in Handlers : \A s : Carries(u, s) => Carries(u, s)'
    BY <2>a, <2>b DEF Carries, At
  <2>3. OneEditor' /\ Settled'
    BY <2>1, <2>a DEF MarkInv, OneEditor, Settled, Editing, Flagged, Bots
  <2>4. BotRolesRemembered'
    BY <2>2, <2>a DEF MarkInv, BotRolesRemembered, Bots, Flagged
  <2>5. \A u \in Handlers : u # t => TakenUnmarked(u)' /\ KnowsMarks(u)'
    BY <2>a, <2>b DEF MarkInv, TakenUnmarked, KnowsMarks, At, Flagged, Bots
  \* A role of the bot's that is not marked is forgotten: t does not carry
  \* it, as its name was still to look up.
  <2>6. r \in Bots \ forgotten => r \in Flagged(rows)
    <3>1. \A u \in Handlers : ~Carries(u, r)
      <4>1. \A u \in Handlers : Carries(u, r) => u = t
        BY <2>a DEF MarkInv, OneEditor, Carries, At, Editor
      <4>2. ~Carries(t, r)
        BY <2>a DEF MarkInv, KnowsMarks, Carries, At
      <4> QED BY <4>1, <4>2
    <3> QED BY <3>1 DEF MarkInv, BotRolesRemembered
  <2>7. TakenUnmarked(t)' /\ KnowsMarks(t)'
    <3>1. CASE task[t].op = "upsert"
      BY <2>6, <2>a, <2>b, <2>c, <3>1
      DEF TakenUnmarked, KnowsMarks, At, Bots, Flagged
    <3>2. CASE task[t].op = "custom"
      <4> DEFINE x == [role |-> r, bot |-> flag]
      <4>1. x.role = r /\ (x.bot <=> r \in task[t].old)
        BY <2>c, <3>2
      <4>2. task'[t].new = task[t].new \cup {x} /\ task'[t].pc = "find"
        BY <2>b, <3>2
      <4>3. /\ Flagged(rows) \subseteq task[t].old
            /\ \A q \in task[t].new : q.role \in task[t].old => q.bot
            /\ \A q \in task[t].new : q.role.name \notin task[t].left
            /\ \A q \in task[t].new : q.role \in Bots \ forgotten => q.bot
        BY <2>a, <3>2 DEF MarkInv, KnowsMarks, TakenUnmarked
      <4> HIDE DEF x
      <4>4. TakenUnmarked(t)'
        BY <2>6, <2>a, <2>b, <3>2, <4>1, <4>2, <4>3 DEF TakenUnmarked, At, Bots
      <4>5. KnowsMarks(t)'
        BY <2>a, <2>b, <3>2, <4>1, <4>2, <4>3 DEF KnowsMarks, Flagged
      <4> QED BY <4>4, <4>5
    <3> QED BY <2>a, <3>1, <3>2 DEF Editor
  <2> QED BY <2>3, <2>4, <2>5, <2>7
<1> QED BY <1>1, <1>2, <1>3

LEMMA FindsNoneKeeps ==
    ASSUME LadderInv, NEW t \in Handlers, NEW n \in task[t].left,
           FindsNone(t, n)
    PROVE  LadderInv'
<1> USE DEF LadderInv, Uncounted, FindsNone, At, Bounded, Fault, Hand, Leaves,
            Editor, Editing
<1>a. /\ \A u \in Handlers : u # t => task'[u] = task[u]
      /\ task'[t].op = task[t].op /\ task'[t].new = task[t].new
      /\ task'[t].old = task[t].old /\ task'[t].todo = task[t].todo
      /\ task[t].pc = "find" /\ task'[t].pc = "make" /\ task'[t].left = task[t].left
      /\ task'[t].name \in task'[t].left
      /\ Editor(t) /\ UNCHANGED <<guild, rows, disk>>
  BY DEF TypeOK, Task
<1>1. TypeOK'
  <2>1. task[t] \in Task
    BY DEF TypeOK
  <2>2. task' \in [Handlers -> Task]
    BY <2>1 DEF TypeOK, Task
  <2> QED BY <2>2 DEF TypeOK
<1>2. FlagsTrue'
  BY DEF FlagsTrue, TypeOK, Task, Row, Role
<1>3. MarkInv'
  <2>a. UNCHANGED <<rows, disk, roles, ids, forgotten>>
    OBVIOUS
  <2> HIDE DEF FindsNone, Editor, Editing
  <2>0. Numbered'
    BY <1>a, <2>a DEF MarkInv, Numbered
  <2> SUFFICES ASSUME Serial
               PROVE  /\ OneEditor' /\ BotRolesRemembered' /\ Settled'
                      /\ \A u \in Handlers : TakenUnmarked(u)' /\ KnowsMarks(u)'
    BY <2>0 DEF MarkInv
  <2>1. \A u \in Handlers : Editor(u)' <=> Editor(u)
    BY <1>a DEF Editor
  <2>2. \A u \in Handlers : \A r : Carries(u, r) => Carries(u, r)'
    BY <1>a DEF Carries, At
  <2>3. OneEditor' /\ Settled'
    BY <2>1, <2>a DEF MarkInv, OneEditor, Settled, Editing, Flagged, Bots
  <2>4. BotRolesRemembered'
    BY <2>2, <2>a DEF MarkInv, BotRolesRemembered, Bots, Flagged
  <2>5. \A u \in Handlers : TakenUnmarked(u)' /\ KnowsMarks(u)'
    BY <1>a, <2>a DEF MarkInv, TakenUnmarked, KnowsMarks, At, Flagged, Bots
  <2> QED BY <2>3, <2>4, <2>5
<1> QED BY <1>1, <1>2, <1>3

LEMMA MakeKeeps ==
    ASSUME LadderInv, NEW t \in Handlers, Make(t)
    PROVE  LadderInv'
<1> USE DEF LadderInv, Uncounted, Make, At, Bounded, Fault, Hand, Leaves,
            Editor, Editing
<1>a. task[t] \in Task /\ task[t].name \in Names /\ task[t].pc = "make" /\ Editor(t)
  BY DEF TypeOK, FlagsTrue
<1>b. PICK r \in Role : r = Made(task[t].name, "bot") /\ r.by = "bot" /\ r.name = task[t].name
  BY <1>a DEF TypeOK, Made, Role
<1>c. /\ Takes(t, task[t].name, r, TRUE)
      /\ roles' = roles \cup {r} /\ ids' = ids + 1
      /\ UNCHANGED <<guild, rows, disk, hands, faults, teardowns, forgotten>>
  BY <1>b
<1> HIDE DEF Make, Editor
<1>d. /\ \A u \in Handlers : u # t => task'[u] = task[u]
      /\ task'[t].op = task[t].op /\ task'[t].left = task[t].left \ {task[t].name}
      /\ task'[t].old = task[t].old /\ task'[t].todo = task[t].todo
      /\ \/ /\ task[t].op = "upsert" /\ task'[t].pc = "insert"
            /\ task'[t].role = r /\ task'[t].flag = TRUE
            /\ task'[t].new = task[t].new
         \/ /\ task[t].op = "custom" /\ task'[t].pc = "find"
            /\ task'[t].new = task[t].new \cup {[role |-> r, bot |-> TRUE]}
  <2>1. CASE task[t].op = "upsert"
    BY <1>a, <1>c, <2>1 DEF TypeOK, Takes, Task
  <2>2. CASE task[t].op = "custom"
    BY <1>a, <1>c, <2>2 DEF TypeOK, Takes, Task
  <2> QED BY <2>1, <2>2, <1>a DEF Editor
<1>1. TypeOK'
  <2>1. task' \in [Handlers -> Task]
    <3>1. TypeOK /\ TRUE \in BOOLEAN
      OBVIOUS
    <3> QED BY <1>c, <3>1, TakesTypes
  <2> QED BY <1>c, <2>1 DEF TypeOK
<1>2. FlagsTrue'
  BY <1>b, <1>c, <1>d DEF FlagsTrue
<1>3. MarkInv'
  <2>a. /\ UNCHANGED <<rows, disk, forgotten>>
        /\ r.id = ids' /\ ids' = ids + 1 /\ ids \in Nat
        /\ Bots' = Bots \cup {r} /\ roles \subseteq Role
    BY <1>b, <1>c DEF Make, Made, Bots, TypeOK
  <2>b. \A q \in rows \cup disk : q.role.id \in Nat
    BY DEF TypeOK, Row, Role
  <2>c. /\ \A q \in task[t].new : q.role \in Role
        /\ \A u \in Handlers : At(u, "upsert", "insert") => task[u].role \in Role
        /\ \A u \in Handlers : \A q \in task[u].new : q.role \in Role
    BY DEF TypeOK, FlagsTrue, Task, Row
  <2>d. \A s \in Role : s.id \in Nat
    BY DEF Role
  <2> HIDE DEF Editing
  <2>0. Numbered'
    BY <1>a, <1>c, <1>d, <2>a, <2>b, <2>c, <2>d DEF MarkInv, Numbered, At
  <2> SUFFICES ASSUME Serial
               PROVE  /\ OneEditor' /\ BotRolesRemembered' /\ Settled'
                      /\ \A u \in Handlers : TakenUnmarked(u)' /\ KnowsMarks(u)'
    BY <2>0 DEF MarkInv
  <2>1. \A u \in Handlers : Editor(u)' <=> Editor(u)
    BY <1>d DEF Editor
  <2>2. \A u \in Handlers : \A s : Carries(u, s) => Carries(u, s)'
    BY <1>a, <1>d DEF Carries, At
  <2>2a. Carries(t, r)'
    <3>1. CASE task[t].op = "upsert"
      BY <1>d, <3>1 DEF Carries, At
    <3>2. CASE task[t].op = "custom"
      <4>1. [role |-> r, bot |-> TRUE] \in task'[t].new /\ task'[t].op = "custom"
        BY <1>d, <3>2
      <4> QED BY <4>1 DEF Carries
    <3> QED BY <1>a, <3>1, <3>2 DEF Editor
  <2>3. OneEditor' /\ Settled'
    BY <1>a, <2>1, <2>a DEF MarkInv, OneEditor, Settled, Editing
  <2>4. /\ \A q \in rows \cup disk : q.role # r
        /\ \A u \in Handlers : At(u, "upsert", "insert") => task[u].role # r
        /\ \A u \in Handlers : task[u].op = "custom" =>
                                \A q \in task[u].new : q.role # r
    BY <2>a, <2>b, <2>c, <2>d DEF MarkInv, Numbered
  <2>5. BotRolesRemembered'
    BY <2>2, <2>2a, <2>4, <2>a DEF MarkInv, BotRolesRemembered, Flagged
  <2>6. \A u \in Handlers : u # t => TakenUnmarked(u)' /\ KnowsMarks(u)'
    BY <1>d, <2>a, <2>4 DEF MarkInv, TakenUnmarked, KnowsMarks, At, Flagged
  <2>7. TakenUnmarked(t)' /\ KnowsMarks(t)'
    <3>1. CASE task[t].op = "upsert"
      BY <1>d, <3>1 DEF TakenUnmarked, KnowsMarks, At
    <3>2. CASE task[t].op = "custom"
      <4> DEFINE x == [role |-> r, bot |-> TRUE]
      <4>1. x.role = r /\ x.bot
        OBVIOUS
      <4>2. task'[t].new = task[t].new \cup {x} /\ task'[t].pc = "find"
        BY <1>d, <3>2
      <4>3. /\ Flagged(rows) \subseteq task[t].old
            /\ \A q \in task[t].new : q.role \in task[t].old => q.bot
            /\ \A q \in task[t].new : q.role.name \notin task[t].left
            /\ \A q \in task[t].new : q.role \in Bots \ forgotten => q.bot
        BY <1>a, <3>2 DEF MarkInv, KnowsMarks, TakenUnmarked
      <4> HIDE DEF x
      <4>4. TakenUnmarked(t)'
        BY <1>d, <2>a, <2>4, <3>2, <4>1, <4>2, <4>3 DEF TakenUnmarked, At
      <4>5. KnowsMarks(t)'
        BY <1>b, <1>d, <2>a, <3>2, <4>1, <4>2, <4>3 DEF KnowsMarks, Flagged
      <4> QED BY <4>4, <4>5
    <3> QED BY <1>a, <3>1, <3>2 DEF Editor
  <2> QED BY <2>3, <2>5, <2>6, <2>7
<1> QED BY <1>1, <1>2, <1>3

LEMMA MakeRefusedKeeps ==
    ASSUME LadderInv, NEW t \in Handlers, MakeRefused(t)
    PROVE  LadderInv'
<1> USE DEF LadderInv, Uncounted, MakeRefused, At, Bounded, Fault, Hand,
            Leaves, Editor, Editing
<1>a. /\ \A u \in Handlers : u # t => task'[u] = task[u]
      /\ task'[t].op = task[t].op /\ task'[t].new = task[t].new
      /\ task'[t].old = task[t].old /\ task'[t].todo = task[t].todo
      /\ task[t].pc = "make" /\ task'[t].pc = "find" /\ task'[t].left = {}
      /\ Editor(t) /\ UNCHANGED <<guild, rows, disk>>
  BY DEF TypeOK, Task
<1>1. TypeOK'
  <2>1. task[t] \in Task
    BY DEF TypeOK
  <2>2. task' \in [Handlers -> Task]
    BY <2>1 DEF TypeOK, Task
  <2> QED BY <2>2 DEF TypeOK
<1>2. FlagsTrue'
  BY DEF FlagsTrue, TypeOK, Task, Row, Role
<1>3. MarkInv'
  <2>a. UNCHANGED <<rows, disk, roles, ids, forgotten>>
    OBVIOUS
  <2> HIDE DEF MakeRefused, Editor, Editing
  <2>0. Numbered'
    BY <1>a, <2>a DEF MarkInv, Numbered
  <2> SUFFICES ASSUME Serial
               PROVE  /\ OneEditor' /\ BotRolesRemembered' /\ Settled'
                      /\ \A u \in Handlers : TakenUnmarked(u)' /\ KnowsMarks(u)'
    BY <2>0 DEF MarkInv
  <2>1. \A u \in Handlers : Editor(u)' <=> Editor(u)
    BY <1>a DEF Editor
  <2>2. \A u \in Handlers : \A r : Carries(u, r) => Carries(u, r)'
    BY <1>a DEF Carries, At
  <2>3. OneEditor' /\ Settled'
    BY <2>1, <2>a DEF MarkInv, OneEditor, Settled, Editing, Flagged, Bots
  <2>4. BotRolesRemembered'
    BY <2>2, <2>a DEF MarkInv, BotRolesRemembered, Bots, Flagged
  <2>5. \A u \in Handlers : TakenUnmarked(u)' /\ KnowsMarks(u)'
    BY <1>a, <2>a DEF MarkInv, TakenUnmarked, KnowsMarks, At, Flagged, Bots
  <2> QED BY <2>3, <2>4, <2>5
<1> QED BY <1>1, <1>2, <1>3

LEMMA MakeFailsKeeps ==
    ASSUME LadderInv, NEW t \in Handlers, MakeFails(t)
    PROVE  LadderInv'
<1> USE DEF LadderInv, Uncounted, MakeFails, At, Fault, Editor
<1>1. TypeOK'
  BY DEF Abandons, Leaves, Forgets, Bots, TypeOK, Flagged, Idle, Job, Task,
         Row, Role
<1>2. FlagsTrue'
  BY DEF Abandons, Leaves, Forgets, FlagsTrue, TypeOK, Flagged, Idle, Job,
         Task, Row, Role
<1>3. MarkInv'
  <2>1. Editor(t) /\ Abandons(t) /\ UNCHANGED <<rows, disk, roles, ids>>
    OBVIOUS
  <2> QED BY <2>1, AbandonKeeps
<1> QED BY <1>1, <1>2, <1>3

LEMMA InsertKeeps ==
    ASSUME LadderInv, NEW t \in Handlers, Insert(t)
    PROVE  LadderInv'
<1> USE DEF LadderInv, Uncounted, Insert, At, Bounded, Fault, Hand, Leaves,
            Editor, Editing
<1>a. /\ \A u \in Handlers : u # t => task'[u] = task[u]
      /\ task'[t].op = "upsert" /\ task'[t].pc = "find"
      /\ Editor(t) /\ At(t, "upsert", "insert")
      /\ guild /\ UNCHANGED <<guild, disk>>
  BY DEF TypeOK, Task
<1>b. PICK q \in Row : /\ q.role = task[t].role /\ q.bot = task[t].flag
                      /\ rows' = IF \E p \in rows : p.role = q.role THEN rows
                                 ELSE rows \cup {q}
  <2>1. task[t] \in Task
    BY DEF TypeOK
  <2> DEFINE q == [role |-> task[t].role, bot |-> task[t].flag]
  <2>2. q \in Row /\ q.role = task[t].role /\ q.bot = task[t].flag
    BY <2>1 DEF FlagsTrue, Row, Task
  <2> QED BY <2>2
<1>1. TypeOK'
  <2>1. task[t] \in Task
    BY DEF TypeOK
  <2>2. task' \in [Handlers -> Task]
    BY <2>1 DEF TypeOK, Task
  <2>3. [role |-> task[t].role, bot |-> task[t].flag] \in Row
    BY <2>1 DEF FlagsTrue, Row, Task
  <2> QED BY <2>2, <2>3 DEF TypeOK
<1>2. FlagsTrue'
  BY DEF FlagsTrue, TypeOK, Task, Row, Role
<1>3. MarkInv'
  <2>a. /\ UNCHANGED <<disk, roles, ids, forgotten>>
        /\ q.bot = task[t].flag
    BY <1>b
  <2>b. q.role.id <= ids
    BY <1>a, <1>b DEF MarkInv, Numbered
  <2> HIDE DEF Insert, Editor, Editing
  <2>0. Numbered'
    BY <1>a, <1>b, <2>a, <2>b DEF MarkInv, Numbered, At
  <2> SUFFICES ASSUME Serial
               PROVE  /\ OneEditor' /\ BotRolesRemembered' /\ Settled'
                      /\ \A u \in Handlers : TakenUnmarked(u)' /\ KnowsMarks(u)'
    BY <2>0 DEF MarkInv
  <2>1. \A u \in Handlers : Editor(u) <=> u = t
    BY <1>a DEF MarkInv, OneEditor
  <2>2. \A u \in Handlers : Editor(u)' <=> u = t
    BY <2>1, <1>a DEF Editor
  <2>3. OneEditor' /\ Settled'
    BY <2>2 DEF OneEditor, Settled, Editing
  <2>4. \A u \in Handlers : \A s : Carries(u, s) => u = t /\ s = q.role /\ q.bot
    BY <1>a, <1>b, <2>1, <2>a DEF Carries, At, Editor
  <2>5. rows \subseteq rows' /\ rows' \subseteq rows \cup {q}
    BY <1>b
  <2>6. q.role \in Bots \ forgotten => q.role \in Flagged(rows') /\ (q \in rows' => q.bot)
    <3> SUFFICES ASSUME q.role \in Bots \ forgotten
                 PROVE  q.role \in Flagged(rows') /\ (q \in rows' => q.bot)
      OBVIOUS
    <3>1. \A p \in rows : p.role = q.role => p.bot
      BY DEF MarkInv, BotRolesRemembered
    <3>2. CASE \E p \in rows : p.role = q.role
      BY <1>b, <3>1, <3>2 DEF Flagged
    <3>3. CASE ~ \E p \in rows : p.role = q.role
      <4>1. rows' = rows \cup {q} /\ q.role \notin Flagged(rows)
        BY <1>b, <3>3 DEF Flagged
      <4>2. q.bot
        BY <1>a, <1>b, <2>a, <4>1 DEF MarkInv, TakenUnmarked
      <4> QED BY <4>1, <4>2 DEF Flagged
    <3> QED BY <3>2, <3>3
  <2>7. BotRolesRemembered'
    <3> SUFFICES ASSUME NEW s \in Bots \ forgotten
                 PROVE  /\ s \in Flagged(rows')
                        /\ \A p \in rows' \cup disk : p.role = s => p.bot
      BY <2>a DEF BotRolesRemembered, Bots, Flagged
    <3>1. \/ s \in Flagged(rows)
          \/ s = q.role
      BY <2>4 DEF MarkInv, BotRolesRemembered
    <3>2. \A p \in rows \cup disk : p.role = s => p.bot
      BY DEF MarkInv, BotRolesRemembered
    <3> QED BY <2>5, <2>6, <3>1, <3>2 DEF Flagged
  <2>8. \A u \in Handlers : TakenUnmarked(u)' /\ KnowsMarks(u)'
    BY <1>a, <2>2 DEF TakenUnmarked, KnowsMarks, At, Editor
  <2> QED BY <2>3, <2>7, <2>8
<1> QED BY <1>1, <1>2, <1>3

LEMMA InsertFailsKeeps ==
    ASSUME LadderInv, NEW t \in Handlers, InsertFails(t)
    PROVE  LadderInv'
<1> USE DEF LadderInv, Uncounted, InsertFails, At, Fault, Editor
<1>1. TypeOK'
  BY DEF Abandons, Leaves, Forgets, Bots, TypeOK, Flagged, Idle, Job, Task,
         Row, Role
<1>2. FlagsTrue'
  BY DEF Abandons, Leaves, Forgets, FlagsTrue, TypeOK, Flagged, Idle, Job,
         Task, Row, Role
<1>3. MarkInv'
  <2>1. Editor(t) /\ Abandons(t) /\ UNCHANGED <<rows, disk, roles, ids>>
    OBVIOUS
  <2> QED BY <2>1, AbandonKeeps
<1> QED BY <1>1, <1>2, <1>3

LEMMA DeleteRowsKeeps ==
    ASSUME LadderInv, NEW t \in Handlers, DeleteRows(t)
    PROVE  LadderInv'
<1> USE DEF LadderInv, Uncounted, DeleteRows, At, Bounded, Fault, Hand, Leaves,
            Editor, Editing
<1>a. /\ \A u \in Handlers : u # t => task'[u] = task[u]
      /\ task'[t].op = "custom" /\ task'[t].pc = "write" /\ task'[t].new = task[t].new
      /\ Editor(t) /\ At(t, "custom", "find")
      /\ rows' = {} /\ UNCHANGED <<guild, disk>>
  BY DEF TypeOK, Task
<1>1. TypeOK'
  BY DEF Forgets, Bots, TypeOK, Flagged, Task, Row, Role
<1>2. FlagsTrue'
  BY DEF FlagsTrue, TypeOK, Flagged, Task, Row, Role
<1>3. MarkInv'
  <2>a. /\ UNCHANGED <<disk, roles, ids>>
        /\ forgotten' = forgotten
              \cup (Bots \cap (Flagged(rows) \ {q.role : q \in task[t].new}))
    BY DEF Forgets
  <2> HIDE DEF DeleteRows, Editor, Editing
  <2>0. Numbered'
    BY <1>a, <2>a DEF MarkInv, Numbered, At
  <2> SUFFICES ASSUME Serial
               PROVE  /\ OneEditor' /\ BotRolesRemembered' /\ Settled'
                      /\ \A u \in Handlers : TakenUnmarked(u)' /\ KnowsMarks(u)'
    BY <2>0 DEF MarkInv
  <2>1. \A u \in Handlers : Editor(u) <=> u = t
    BY <1>a DEF MarkInv, OneEditor
  <2>2. \A u \in Handlers : Editor(u)' <=> u = t
    BY <2>1, <1>a DEF Editor
  <2>3. OneEditor' /\ Settled'
    BY <2>2 DEF OneEditor, Settled, Editing
  <2>4. \A u \in Handlers : \A s : Carries(u, s) => Carries(t, s)'
    BY <1>a, <2>1 DEF Carries, At, Editor
  <2>5. /\ Flagged(rows) \subseteq task[t].old
        /\ \A q \in task[t].new : q.role \in task[t].old => q.bot
    BY <1>a DEF MarkInv, KnowsMarks, At
  <2>6. \A s \in Flagged(rows) : s \in Bots /\ s \notin forgotten' => Carries(t, s)'
    BY <1>a, <2>5, <2>a DEF Carries
  <2>7. BotRolesRemembered'
    BY <1>a, <2>4, <2>6, <2>a DEF MarkInv, BotRolesRemembered, Bots
  <2>8. \A u \in Handlers : TakenUnmarked(u)' /\ KnowsMarks(u)'
    BY <1>a, <2>1, <2>2, <2>a
    DEF MarkInv, TakenUnmarked, KnowsMarks, At, Editor, Bots
  <2> QED BY <2>3, <2>7, <2>8
<1> QED BY <1>1, <1>2, <1>3

LEMMA WriteKeeps ==
    ASSUME LadderInv, NEW t \in Handlers, NEW q \in task[t].new,
           Write(t, q)
    PROVE  LadderInv'
<1> USE DEF LadderInv, Write, At, Uncounted, Bounded, Fault, Hand, Leaves,
            Editor, Editing
<1>1. TypeOK'
  BY DEF TypeOK, Task, Row, Role
<1>2. FlagsTrue'
  BY DEF FlagsTrue, TypeOK, Task, Row, Role
<1>3. MarkInv'
  <2>a. /\ \A u \in Handlers : u # t => task'[u] = task[u]
        /\ At(t, "custom", "write") /\ Editor(t)
        /\ task'[t].op = "custom" /\ task'[t].pc = "write"
        /\ task'[t].new = task[t].new \ {q}
        /\ rows' = rows \cup {q} /\ UNCHANGED <<disk, roles, ids, forgotten>>
    BY DEF TypeOK, Task
  <2> HIDE DEF Write, Editor, Editing
  <2>0. Numbered'
    BY <2>a DEF MarkInv, Numbered, At
  <2> SUFFICES ASSUME Serial
               PROVE  /\ OneEditor' /\ BotRolesRemembered' /\ Settled'
                      /\ \A u \in Handlers : TakenUnmarked(u)' /\ KnowsMarks(u)'
    BY <2>0 DEF MarkInv
  <2>1. \A u \in Handlers : Editor(u) <=> u = t
    BY <2>a DEF MarkInv, OneEditor
  <2>2. \A u \in Handlers : Editor(u)' <=> u = t
    BY <2>1, <2>a DEF Editor
  <2>3. OneEditor' /\ Settled'
    BY <2>2 DEF OneEditor, Settled, Editing
  <2>4. \A u \in Handlers : \A s : Carries(u, s) => Carries(t, s)' \/ s \in Flagged(rows')
    BY <2>a, <2>1 DEF Carries, At, Editor, Flagged
  <2>5. q.role \in Bots \ forgotten => q.bot
    BY <2>a DEF MarkInv, TakenUnmarked, At
  <2>6. BotRolesRemembered'
    BY <2>4, <2>5, <2>a DEF MarkInv, BotRolesRemembered, Bots, Flagged
  <2>7. \A u \in Handlers : TakenUnmarked(u)' /\ KnowsMarks(u)'
    BY <2>1, <2>2, <2>a
    DEF MarkInv, TakenUnmarked, KnowsMarks, At, Editor, Bots
  <2> QED BY <2>3, <2>6, <2>7
<1> QED BY <1>1, <1>2, <1>3

LEMMA WriteFailsKeeps ==
    ASSUME LadderInv, NEW t \in Handlers, NEW q \in task[t].new,
           WriteFails(t, q)
    PROVE  LadderInv'
<1> USE DEF LadderInv, Uncounted, WriteFails, At, Fault, Editor
<1>1. TypeOK'
  BY DEF Abandons, Leaves, Forgets, Bots, TypeOK, Flagged, Idle, Job, Task,
         Row, Role
<1>2. FlagsTrue'
  BY DEF Abandons, Leaves, Forgets, FlagsTrue, TypeOK, Flagged, Idle, Job,
         Task, Row, Role
<1>3. MarkInv'
  <2>1. Editor(t) /\ Abandons(t) /\ UNCHANGED <<rows, disk, roles, ids>>
    OBVIOUS
  <2> QED BY <2>1, AbandonKeeps
<1> QED BY <1>1, <1>2, <1>3

LEMMA CommitKeeps ==
    ASSUME LadderInv, NEW t \in Handlers, Commit(t)
    PROVE  LadderInv'
<1> USE DEF LadderInv, Commit, At, Uncounted, Bounded, Fault, Hand, Leaves,
            Editor, Editing
<1>1. TypeOK'
  BY DEF TypeOK, Idle, Job, Task, Row, Role
<1>2. FlagsTrue'
  BY DEF FlagsTrue, TypeOK, Idle, Job, Task, Row, Role
<1>3. MarkInv'
  <2>a. /\ \A u \in Handlers : u # t => task'[u] = task[u]
        /\ Editor(t) /\ task'[t].op = "none"
        /\ \/ At(t, "upsert", "find")
           \/ At(t, "custom", "write") /\ task[t].new = {}
        /\ disk' = rows /\ UNCHANGED <<rows, roles, ids, forgotten>>
    BY DEF TypeOK, Idle, Job
  <2> HIDE DEF Commit, Editor, Editing
  <2>0. Numbered'
    BY <2>a DEF MarkInv, Numbered, At
  <2> SUFFICES ASSUME Serial
               PROVE  /\ OneEditor' /\ BotRolesRemembered' /\ Settled'
                      /\ \A u \in Handlers : TakenUnmarked(u)' /\ KnowsMarks(u)'
    BY <2>0 DEF MarkInv
  <2>1. \A u \in Handlers : Editor(u) <=> u = t
    BY <2>a DEF MarkInv, OneEditor
  <2>2. \A u \in Handlers : ~Editor(u)'
    BY <2>1, <2>a DEF Editor
  <2>3. OneEditor' /\ Settled'
    BY <2>2, <2>a DEF OneEditor, Settled, Flagged
  <2>4. \A u \in Handlers : \A s : ~Carries(u, s)
    BY <2>a, <2>1 DEF Carries, At, Editor
  <2>5. BotRolesRemembered'
    BY <2>4, <2>a DEF MarkInv, BotRolesRemembered, Bots, Flagged
  <2>6. \A u \in Handlers : TakenUnmarked(u)' /\ KnowsMarks(u)'
    BY <2>2 DEF TakenUnmarked, KnowsMarks, At, Editor
  <2> QED BY <2>3, <2>5, <2>6
<1> QED BY <1>1, <1>2, <1>3

LEMMA TeardownKeeps ==
    ASSUME LadderInv, NEW t \in Handlers, Teardown(t)
    PROVE  LadderInv'
<1> USE DEF LadderInv, Teardown, At, Uncounted, Bounded, Fault, Hand, Leaves,
            Editor, Editing
<1>1. TypeOK'
  BY DEF TypeOK, Flagged, Job, Task, Row, Role
<1>2. FlagsTrue'
  BY DEF FlagsTrue, TypeOK, Flagged, Job, Task, Row, Role
<1>3. MarkInv'
  <2>1. /\ \A u \in Handlers : Editor(u) \/ Editor(u)' => task'[u] = task[u]
        /\ Bots' \subseteq Bots /\ UNCHANGED <<rows, disk, roles, ids, forgotten>>
    BY DEF TypeOK, Bots, Job
  <2>2. ids \in Nat /\ ids' \in Nat /\ ids <= ids'
    BY DEF TypeOK
  <2>3. Numbered'
    BY <2>1, <2>2 DEF MarkInv, Numbered
  <2> QED BY <2>1, <2>2, <2>3, NoEditMoves
<1> QED BY <1>1, <1>2, <1>3

LEMMA StripKeeps ==
    ASSUME LadderInv, NEW t \in Handlers, NEW r \in task[t].todo,
           Strip(t, r)
    PROVE  LadderInv'
<1> USE DEF LadderInv, Strip, At, Uncounted, Bounded, Fault, Hand, Leaves,
            Editor, Editing
<1>1. TypeOK'
  <2>1. task \in [Handlers -> Task] /\ task[t] \in Task
    BY DEF TypeOK
  <2>2. [task[t] EXCEPT !.todo = @ \ {r}] \in Task
    BY <2>1 DEF Task
  <2>3. task' \in [Handlers -> Task]
    BY <2>1, <2>2
  <2>4. roles' \subseteq roles /\ faults' \in Nat
    BY DEF TypeOK
  <2> QED BY <2>3, <2>4 DEF TypeOK
<1>2. FlagsTrue'
  BY DEF FlagsTrue, TypeOK, Task, Row, Role
<1>3. MarkInv'
  <2>1. /\ \A u \in Handlers : Editor(u) \/ Editor(u)' => task'[u] = task[u]
        /\ Bots' \subseteq Bots /\ roles' \subseteq roles
        /\ UNCHANGED <<rows, disk, ids, forgotten>>
    BY DEF TypeOK, Task, Bots
  <2>2. ids \in Nat /\ ids' \in Nat /\ ids <= ids'
    BY DEF TypeOK
  <2>3. Numbered'
    BY <2>1, <2>2 DEF MarkInv, Numbered
  <2> QED BY <2>1, <2>2, <2>3, NoEditMoves
<1> QED BY <1>1, <1>2, <1>3

LEMMA StripFailsKeeps ==
    ASSUME LadderInv, NEW t \in Handlers, NEW r \in task[t].todo,
           StripFails(t, r)
    PROVE  LadderInv'
<1> USE DEF LadderInv, StripFails, At, Uncounted, Bounded, Fault, Hand, Leaves,
            Editor, Editing
<1>1. TypeOK'
  BY DEF TypeOK, Idle, Job, Task, Row, Role
<1>2. FlagsTrue'
  BY DEF FlagsTrue, TypeOK, Idle, Job, Task, Row, Role
<1>3. MarkInv'
  <2>1. /\ \A u \in Handlers : Editor(u) \/ Editor(u)' => task'[u] = task[u]
        /\ Bots' \subseteq Bots /\ UNCHANGED <<rows, disk, roles, ids, forgotten>>
    BY DEF TypeOK, Bots, Idle, Job
  <2>2. ids \in Nat /\ ids' \in Nat /\ ids <= ids'
    BY DEF TypeOK
  <2>3. Numbered'
    BY <2>1, <2>2 DEF MarkInv, Numbered
  <2> QED BY <2>1, <2>2, <2>3, NoEditMoves
<1> QED BY <1>1, <1>2, <1>3

LEMMA ClearKeeps ==
    ASSUME LadderInv, NEW t \in Handlers, Clear(t)
    PROVE  LadderInv'
<1> USE DEF LadderInv, Clear, At, Uncounted, Bounded, Fault, Hand, Leaves,
            Editor, Editing
<1>1. TypeOK'
  BY DEF Forgets, Bots, TypeOK, Idle, Job, Task, Row, Role
<1>2. FlagsTrue'
  BY DEF FlagsTrue, TypeOK, Idle, Job, Task, Row, Role
<1>3. MarkInv'
  <2>a. /\ \A u \in Handlers : Editor(u) \/ Editor(u)' => task'[u] = task[u]
        /\ rows' = {} /\ disk' = {} /\ UNCHANGED <<roles, ids>>
        /\ Bots' = Bots /\ Bots \subseteq forgotten'
    BY DEF TypeOK, Idle, Job, Forgets, Bots
  <2> HIDE DEF Clear, Editor, Editing
  <2>0. Numbered'
    BY <2>a DEF MarkInv, Numbered, At, Editor
  <2> SUFFICES ASSUME Serial
               PROVE  /\ OneEditor' /\ BotRolesRemembered' /\ Settled'
                      /\ \A u \in Handlers : TakenUnmarked(u)' /\ KnowsMarks(u)'
    BY <2>0 DEF MarkInv
  <2>1. OneEditor'
    BY <2>a DEF MarkInv, OneEditor, Editor
  <2>2. BotRolesRemembered' /\ Settled'
    BY <2>a DEF BotRolesRemembered, Settled, Flagged
  <2>3. \A u \in Handlers : TakenUnmarked(u)'
    BY <2>a DEF TakenUnmarked
  <2>4. \A u \in Handlers : KnowsMarks(u)'
    BY <2>a DEF MarkInv, KnowsMarks, Editor, Flagged
  <2> QED BY <2>1, <2>2, <2>3, <2>4
<1> QED BY <1>1, <1>2, <1>3

LEMMA OtherCommitKeeps ==
    ASSUME LadderInv, OtherCommit
    PROVE  LadderInv'
<1> USE DEF LadderInv, OtherCommit, At, Uncounted, Bounded, Fault, Hand, Leaves,
            Editor, Editing
<1>1. TypeOK'
  BY DEF TypeOK, Task, Row, Role
<1>2. FlagsTrue'
  BY DEF FlagsTrue, TypeOK, Task, Row, Role
<1>3. MarkInv'
  <2>1. /\ Bots' \subseteq Bots /\ disk' = rows
        /\ UNCHANGED <<rows, roles, task, ids, forgotten>>
    BY DEF Bots
  <2>2. ids \in Nat /\ ids' \in Nat /\ ids <= ids'
    BY DEF TypeOK
  <2>3. Numbered'
    BY <2>1, <2>2 DEF MarkInv, Numbered
  <2> QED BY <2>1, <2>2, <2>3, NoEditMoves
<1> QED BY <1>1, <1>2, <1>3

LEMMA CrashKeeps ==
    ASSUME LadderInv, Crash
    PROVE  LadderInv'
<1> USE DEF LadderInv, Crash, At, Uncounted, Bounded, Fault, Hand, Leaves,
            Editor, Editing
<1>1. TypeOK'
  BY DEF Forgets, Bots, TypeOK, Flagged, Idle, Job, Task, Row, Role
<1>2. FlagsTrue'
  BY DEF FlagsTrue, TypeOK, Flagged, Idle, Job, Task, Row, Role
<1>3. MarkInv'
  <2>a. /\ \A u \in Handlers : task'[u].op = "none"
        /\ rows' = disk /\ UNCHANGED <<disk, roles, ids>>
        /\ Bots' = Bots /\ forgotten \subseteq forgotten'
        /\ Editing => Bots \ Flagged(disk) \subseteq forgotten'
    BY DEF Idle, Job, Forgets, Bots
  <2> HIDE DEF Crash, Editor, Editing
  <2>0. Numbered'
    BY <2>a DEF MarkInv, Numbered, At
  <2> SUFFICES ASSUME Serial
               PROVE  /\ OneEditor' /\ BotRolesRemembered' /\ Settled'
                      /\ \A u \in Handlers : TakenUnmarked(u)' /\ KnowsMarks(u)'
    BY <2>0 DEF MarkInv
  <2>1. \A u \in Handlers : ~Editor(u)'
    BY <2>a DEF Editor
  <2>2. OneEditor' /\ \A u \in Handlers : TakenUnmarked(u)' /\ KnowsMarks(u)'
    BY <2>1 DEF OneEditor, TakenUnmarked, KnowsMarks, At, Editor
  <2>3. Settled'
    BY <2>a DEF Settled, Flagged
  <2>4. ~Editing => \A u \in Handlers : \A s : ~Carries(u, s)
    BY DEF Editing, Editor, Carries, At
  <2>5. ~Editing => Bots \subseteq Flagged(disk) \cup forgotten
    BY <2>4 DEF MarkInv, BotRolesRemembered, Settled
  <2>6. BotRolesRemembered'
    BY <2>5, <2>a DEF MarkInv, BotRolesRemembered, Flagged
  <2> QED BY <2>2, <2>3, <2>6
<1> QED BY <1>1, <1>2, <1>3

LEMMA AdminMakesKeeps ==
    ASSUME LadderInv, NEW n \in Names, AdminMakes(n)
    PROVE  LadderInv'
<1> USE DEF LadderInv, AdminMakes, At, Uncounted, Bounded, Fault, Hand, Leaves,
            Editor, Editing
<1>1. TypeOK'
  BY DEF TypeOK, Made, Task, Row, Role
<1>2. FlagsTrue'
  BY DEF FlagsTrue, TypeOK, Made, Task, Row, Role
<1>3. MarkInv'
  <2>1. /\ Bots' \subseteq Bots /\ roles' = roles \cup {Made(n, "admin")}
        /\ UNCHANGED <<rows, disk, task, forgotten>>
    BY DEF Bots, Made
  <2>2. ids \in Nat /\ ids' = ids + 1 /\ Made(n, "admin").id = ids'
    BY DEF TypeOK, Made
  <2>3. /\ roles \subseteq Role /\ \A q \in rows \cup disk : q.role \in Role
        /\ \A t \in Handlers : \A q \in task[t].new : q.role \in Role
        /\ \A t \in Handlers : At(t, "upsert", "insert") => task[t].role \in Role
    BY DEF TypeOK, FlagsTrue, Task, Row
  <2>4. Numbered'
    BY <2>1, <2>2, <2>3 DEF MarkInv, Numbered, Role
  <2> QED BY <2>1, <2>2, <2>4, NoEditMoves
<1> QED BY <1>1, <1>2, <1>3

LEMMA AdminDeletesKeeps ==
    ASSUME LadderInv, NEW r \in roles, AdminDeletes(r)
    PROVE  LadderInv'
<1> USE DEF LadderInv, AdminDeletes, At, Uncounted, Bounded, Fault, Hand, Leaves,
            Editor, Editing
<1>1. TypeOK'
  BY DEF TypeOK, Task, Row, Role
<1>2. FlagsTrue'
  BY DEF FlagsTrue, TypeOK, Task, Row, Role
<1>3. MarkInv'
  <2>1. /\ Bots' \subseteq Bots /\ roles' \subseteq roles
        /\ UNCHANGED <<rows, disk, task, ids, forgotten>>
    BY DEF Bots
  <2>2. ids \in Nat /\ ids' \in Nat /\ ids <= ids'
    BY DEF TypeOK
  <2>3. Numbered'
    BY <2>1, <2>2 DEF MarkInv, Numbered
  <2> QED BY <2>1, <2>2, <2>3, NoEditMoves
<1> QED BY <1>1, <1>2, <1>3

-----------------------------------------------------------------------------
LEMMA LadderStep == LadderInv /\ [Next]_vars => LadderInv'
<1> SUFFICES ASSUME LadderInv, [Next]_vars PROVE LadderInv'
  OBVIOUS
<1>1. ASSUME NEW t \in Handlers, NEW L \in Ladders, Setup(t, L) \/ Customise(t, L)
      PROVE  LadderInv'
  BY <1>1, SetupKeeps, CustomiseKeeps
<1>2. ASSUME NEW t \in Handlers, Edits(t)
      PROVE  LadderInv'
  <2>1. ASSUME NEW n \in task[t].left, FindsNone(t, n) \/ \E r \in roles : Find(t, n, r)
        PROVE  LadderInv'
    BY <2>1, FindKeeps, FindsNoneKeeps
  <2>2. ASSUME NEW q \in task[t].new, Write(t, q) \/ WriteFails(t, q)
        PROVE  LadderInv'
    BY <2>2, WriteKeeps, WriteFailsKeeps
  <2> QED BY <1>2, <2>1, <2>2, MakeKeeps, MakeRefusedKeeps, MakeFailsKeeps,
             InsertKeeps, InsertFailsKeeps, DeleteRowsKeeps, CommitKeeps DEF Edits
<1>3. ASSUME NEW t \in Handlers, Teardown(t) \/ TearsDown(t)
      PROVE  LadderInv'
  BY <1>3, TeardownKeeps, StripKeeps, StripFailsKeeps, ClearKeeps DEF TearsDown
<1>4. CASE OtherCommit \/ Crash
  BY <1>4, OtherCommitKeeps, CrashKeeps
<1>5. CASE (\E n \in Names : AdminMakes(n)) \/ \E r \in roles : AdminDeletes(r)
  BY <1>5, AdminMakesKeeps, AdminDeletesKeeps
<1>6. CASE UNCHANGED vars
  <2>1. TypeOK' /\ FlagsTrue'
    BY <1>6 DEF vars, LadderInv, TypeOK, FlagsTrue
  <2>2. /\ UNCHANGED <<rows, disk, roles, task, ids, forgotten>> /\ Bots' = Bots
        /\ ids \in Nat
    BY <1>6 DEF vars, Bots, LadderInv, TypeOK
  <2>3. Numbered' /\ ids <= ids'
    BY <2>2 DEF LadderInv, MarkInv, Numbered, At
  <2> QED BY <2>1, <2>2, <2>3, NoEditMoves DEF LadderInv
<1> QED BY <1>1, <1>2, <1>3, <1>4, <1>5, <1>6 DEF Next

\* The inductive invariant: the ladder's flags never claim a role the bot did
\* not make, and edits that do not overlap carry every mark along.
THEOREM LadderInvariant == Spec => []LadderInv
<1> QED BY LadderInit, LadderStep, PTL DEF Spec

\* Every variable of the ladder has its type.
THEOREM LadderTypes == Spec => []TypeOK
<1>1. LadderInv => TypeOK
  BY DEF LadderInv
<1> QED BY <1>1, LadderInvariant, PTL

\* A role disappears only if the bot made it or somebody deleted it in the
\* client: FlagsTrue holds of what every teardown has read, so it follows
\* however edits, teardowns, refusals and crashes overlap.
THEOREM AdminSpared == Spec => AdminRolesSpared
<1> DEFINE A == \A r \in roles \ roles' : r.by = "bot" \/ hands' # hands
<1>1. ASSUME LadderInv, [Next]_vars PROVE [A]_vars
  <2> SUFFICES ASSUME Next, NEW r \in roles \ roles' PROVE r.by = "bot" \/ hands' # hands
    BY <1>1
  <2>1. ASSUME NEW t \in Handlers, NEW s \in task[t].todo, Strip(t, s)
        PROVE  r.by = "bot"
    BY <1>1, <2>1 DEF LadderInv, FlagsTrue, Strip
  <2>2. ASSUME NEW s \in roles, AdminDeletes(s) PROVE hands' # hands
    BY <1>1, <2>2 DEF LadderInv, TypeOK, AdminDeletes, Hand
  <2> HIDE DEF A
  <2>3. ASSUME roles \subseteq roles' PROVE FALSE
    BY <2>3
  <2>4. ASSUME NEW t \in Handlers, Edits(t) PROVE roles \subseteq roles'
    BY <2>4 DEF Edits, FindsNone, Find, Make, MakeRefused, MakeFails, Insert,
                InsertFails, DeleteRows, Commit, Write, WriteFails
  <2>5. ASSUME NEW t \in Handlers, TearsDown(t)
        PROVE  roles \subseteq roles' \/ \E s \in task[t].todo : Strip(t, s)
    BY <2>5 DEF TearsDown, StripFails, Clear
  <2>6. ASSUME NEW t \in Handlers, Teardown(t) \/ \E L \in Ladders : Setup(t, L) \/ Customise(t, L)
        PROVE  roles \subseteq roles'
    BY <2>6 DEF Teardown, Setup, Customise
  <2>7. ASSUME OtherCommit \/ Crash \/ \E n \in Names : AdminMakes(n)
        PROVE  roles \subseteq roles'
    BY <2>7 DEF OtherCommit, Crash, AdminMakes
  <2> QED BY <2>1, <2>2, <2>3, <2>4, <2>5, <2>6, <2>7 DEF Next
<1>2. Spec => [][Next]_vars
  BY DEF Spec
<1> QED BY <1>1, <1>2, LadderInvariant, PTL DEF AdminRolesSpared

\* If one edit of the ladder ends before the next begins, a role that the bot
\* made is marked or carried by the edit under way, and no row says it was
\* adopted, until the ladder leaves it out, a teardown clears the table or an
\* edit is ended before its commit (BotRolesRemembered): for any handlers,
\* names and ladders, and whatever commits, refusals, crashes and teardowns
\* come in between.
THEOREM MarksRemembered == Serial => (Spec => []BotRolesRemembered)
<1>1. Serial /\ LadderInv => BotRolesRemembered
  BY DEF LadderInv, MarkInv
<1> SUFFICES ASSUME Serial PROVE Spec => []BotRolesRemembered
  OBVIOUS
<1>2. LadderInv => BotRolesRemembered
  BY <1>1
<1> QED BY <1>2, LadderInvariant, PTL
=============================================================================
