-------------------------- MODULE GuildConfig_proofs --------------------------
(***************************************************************************)
(* Proofs about the three of MCPanels that are a matter of a guild's       *)
(* panels.  GuildConfig: types; handlers that edit different settings do   *)
(* to them what Settings promises; and a panel refreshed with nothing else *)
(* going on shows the settings.  MapPanel: an edit that has met nobody     *)
(* leaves a message that shows the markers.  Scaffold: nothing is made     *)
(* twice, and an application that says it is done has made what it was to. *)
(***************************************************************************)
EXTENDS MCPanels, SequenceTheorems, WellFoundedInduction, TLAPS

Pcs == {"idle", "ensure", "read", "write", "commit", "answer", "summary",
        "perms", "publish"}
Task == [pc : Pcs, edit : Edits \cup {NoEdit}, panel : BOOLEAN,
         seen : Promise!Settings \cup {Nil}]

Reading == {"feature", "features", "toggle"}

ConfigTyped ==
    /\ live \in Promise!Settings /\ saved \in Promise!Settings
    /\ shown \in Promise!Settings \cup {Nil}
    /\ dirty \subseteq Admins
    /\ task \in [Admins -> Task]
    /\ calm \in Admins \cup {Nil}
    /\ runs \in Nat /\ crashes \in Nat

\* What a handler carries at each of its statements, and when a crash would
\* lose its write.
Stage(t) ==
    /\ task[t].pc = "idle" => task[t] = Idle
    /\ task[t].pc \in {"ensure", "read", "write", "commit", "answer"}
          => task[t].edit \in Edits
    /\ task[t].pc \in {"ensure", "read"} => task[t].seen = Nil
    /\ task[t].pc = "read" => task[t].edit.kind \in Reading
    /\ task[t].pc = "write" /\ task[t].edit.kind \notin Reading
          => task[t].seen = Nil
    /\ task[t].pc \in {"perms", "publish"} => task[t].seen \in Promise!Settings
    /\ t \in dirty => task[t].pc \in {"write", "commit"}

Stages == \A t \in Admins : Stage(t)

\* No two handlers write the same column, so that what one has read of its
\* own is still so when it writes.
EditsApart ==
    \A t, u \in Admins :
        t # u => Columns(task[t].edit) \cap Columns(task[u].edit) = {}

SeenFresh ==
    \A t \in Admins : task[t].pc = "write" =>
        /\ task[t].edit.kind \in {"feature", "features"}
              => task[t].seen.features = live.features
        /\ task[t].edit.kind = "toggle" => task[t].seen.minimal = live.minimal

\* A handler that is alone has read the settings as they are.
CalmAlone ==
    \A t \in Admins : calm = t =>
        /\ \A u \in Admins \ {t} : task[u] = Idle
        /\ task[t].pc \in {"perms", "publish"} => task[t].seen = live

-----------------------------------------------------------------------------
(***************************************************************************)
(* Edits and what they do to the settings.                                 *)
(***************************************************************************)
LEMMA EditForms ==
    ASSUME NEW e \in Promise!Edits
    PROVE  \/ e.kind = "feature" /\ e.to \in Features \X BOOLEAN
           \/ e.kind = "features" /\ e.to \in SUBSET Features
           \/ e.kind = "audit" /\ e.to \in Channels \cup {Nil}
           \/ e.kind = "minimal" /\ e.to \in BOOLEAN
           \/ e.kind \in {"toggle", "reset"}
           \/ e.kind = "permission" /\ e.to \in Keys \X Positions
           \/ e.kind = "setup" /\ e.to \in Promise!Settings
BY DEF Promise!Edits

LEMMA NoEditApart ==
    /\ NoEdit \notin Promise!Edits /\ NoEdit.kind = "none" /\ Columns(NoEdit) = {}
<1>1. NoEdit.kind = "none"
  BY DEF NoEdit
<1>2. NoEdit \notin Promise!Edits
  BY <1>1, EditForms
<1>3. Columns(NoEdit) = {}
  BY <1>1 DEF Columns
<1> QED BY <1>1, <1>2, <1>3

LEMMA EditsArePromised == Edits \subseteq Promise!Edits
BY DEF Edits

LEMMA NilIsNoRequest ==
    ASSUME NEW e \in Edits, NEW left \in BOOLEAN
    PROVE  [edit |-> e, left |-> left] # Nil
BY NilAssumption, EditsArePromised

LEMMA MinimalOffIsEdit ==
    Promise!MinimalOff \in Edits /\ Promise!MinimalOff.kind = "minimal"
BY DEF Edits, Promise!MinimalOff, Promise!Edits

LEMMA EffectTypes ==
    ASSUME NEW e \in Promise!Edits, NEW c \in Promise!Settings
    PROVE  Promise!Effect(e, c) \in Promise!Settings
<1>1. CASE e.kind = "feature" /\ e.to \in Features \X BOOLEAN
  BY <1>1 DEF Promise!Effect, Promise!Settings
<1>2. CASE e.kind = "features" /\ e.to \in SUBSET Features
  BY <1>2 DEF Promise!Effect, Promise!Settings
<1>3. CASE e.kind = "audit" /\ e.to \in Channels \cup {Nil}
  BY <1>3 DEF Promise!Effect, Promise!Settings
<1>4. CASE e.kind = "minimal" /\ e.to \in BOOLEAN
  BY <1>4 DEF Promise!Effect, Promise!Settings
<1>5. CASE e.kind = "toggle"
  BY <1>5 DEF Promise!Effect, Promise!Settings
<1>6. CASE e.kind = "reset"
  BY <1>6 DEF Promise!Effect, Promise!Settings, Promise!Default
<1>7. CASE e.kind = "permission" /\ e.to \in Keys \X Positions
  BY <1>7 DEF Promise!Effect, Promise!Settings
<1>8. CASE e.kind = "setup" /\ e.to \in Promise!Settings
  BY <1>8 DEF Promise!Effect, Promise!Settings
<1> QED BY <1>1, <1>2, <1>3, <1>4, <1>5, <1>6, <1>7, <1>8, EditForms

\* An edit writes its columns and no other.
LEMMA EffectColumns ==
    ASSUME NEW e \in Promise!Edits, NEW c \in Promise!Settings
    PROVE  /\ "features" \notin Columns(e)
                 => Promise!Effect(e, c).features = c.features
           /\ "minimal" \notin Columns(e)
                 => Promise!Effect(e, c).minimal = c.minimal
<1>1. CASE e.kind \in {"feature", "features"}
  BY <1>1 DEF Promise!Effect, Promise!Settings, Columns
<1>2. CASE e.kind \in {"audit", "minimal", "toggle"}
  BY <1>2 DEF Promise!Effect, Promise!Settings, Columns
<1>3. CASE e.kind \in {"reset", "permission"}
  BY <1>3 DEF Promise!Effect, Promise!Settings, Columns
<1>4. CASE e.kind = "setup"
  BY <1>4 DEF Columns
<1> QED BY <1>1, <1>2, <1>3, <1>4, EditForms

\* A statement does what its edit says to the settings as they are, if what
\* the handler has read of its column is still so.
LEMMA WrittenIsEffect ==
    ASSUME NEW t \in Admins, ConfigTyped, Stages, task[t].pc = "write", SeenFresh
    PROVE  Written(t) = Promise!Effect(task[t].edit, live)
<1> DEFINE e == task[t].edit
           base == IF task[t].seen = Nil THEN live ELSE task[t].seen
<1>1. /\ e \in Edits /\ live \in Promise!Settings
      /\ e.kind \notin Reading => base = live
      /\ e.kind \in {"feature", "features"} => base.features = live.features
      /\ e.kind = "toggle" => base.minimal = live.minimal
      /\ base \in Promise!Settings
  BY DEF ConfigTyped, Task, Stages, Stage, SeenFresh
<1>2. Written(t) = CASE e.kind \in {"feature", "features"} ->
                           [live EXCEPT !.features = Promise!Effect(e, base).features]
                     [] e.kind = "toggle" ->
                           [live EXCEPT !.minimal = Promise!Effect(e, base).minimal]
                     [] OTHER -> Promise!Effect(e, base)
  BY DEF Written
<1> HIDE DEF base, e
<1>3. CASE e.kind \in {"feature", "features"}
  <2>1. Promise!Effect(e, base).features = Promise!Effect(e, live).features
    BY <1>1, <1>3 DEF Promise!Effect, Promise!Settings
  <2>2. Promise!Effect(e, live)
           = [live EXCEPT !.features = Promise!Effect(e, live).features]
    BY <1>1, <1>3 DEF Promise!Effect, Promise!Settings
  <2> QED BY <1>2, <1>3, <2>1, <2>2 DEF e
<1>4. CASE e.kind = "toggle"
  <2>1. Promise!Effect(e, base).minimal = Promise!Effect(e, live).minimal
    BY <1>1, <1>4 DEF Promise!Effect, Promise!Settings
  <2>2. Promise!Effect(e, live)
           = [live EXCEPT !.minimal = Promise!Effect(e, live).minimal]
    BY <1>1, <1>4 DEF Promise!Effect, Promise!Settings
  <2> QED BY <1>2, <1>4, <2>1, <2>2 DEF e
<1>5. CASE e.kind \notin Reading
  BY <1>1, <1>2, <1>5 DEF Reading, e
<1> QED BY <1>3, <1>4, <1>5 DEF Reading

\* Whatever a handler has read, its statement leaves settings.
LEMMA WrittenTypes ==
    ASSUME NEW t \in Admins, ConfigTyped, Stages, task[t].pc = "write"
    PROVE  Written(t) \in Promise!Settings
<1> DEFINE e == task[t].edit
           base == IF task[t].seen = Nil THEN live ELSE task[t].seen
<1>1. /\ e \in Promise!Edits /\ live \in Promise!Settings
      /\ base \in Promise!Settings
  BY EditsArePromised DEF ConfigTyped, Task, Stages, Stage
<1>2. Written(t) = CASE e.kind \in {"feature", "features"} ->
                           [live EXCEPT !.features = Promise!Effect(e, base).features]
                     [] e.kind = "toggle" ->
                           [live EXCEPT !.minimal = Promise!Effect(e, base).minimal]
                     [] OTHER -> Promise!Effect(e, base)
  BY DEF Written
<1> HIDE DEF base, e
<1>3. Promise!Effect(e, base) \in Promise!Settings
  BY <1>1, EffectTypes
<1> QED BY <1>1, <1>2, <1>3 DEF Promise!Settings

-----------------------------------------------------------------------------
(***************************************************************************)
(* The steps of one handler, with what each does to its own record.        *)
(***************************************************************************)
LEMMA IdleTask ==
    Idle \in Task /\ Idle.pc = "idle" /\ Idle.edit = NoEdit /\ Idle.seen = Nil
BY DEF Idle, Task, Pcs

\* Only h's record changes; what it was and what it is now.
Alters(h) ==
    /\ task' \in [Admins -> Task]
    /\ \A u \in Admins \ {h} : task'[u] = task[u]

LEMMA GotoStep ==
    ASSUME ConfigTyped, NEW t \in Admins, NEW pc \in Pcs, Goto(t, pc)
    PROVE  /\ Alters(t) /\ task'[t].pc = pc
           /\ task'[t].edit = task[t].edit /\ task'[t].panel = task[t].panel
           /\ task'[t].seen = task[t].seen
BY DEF ConfigTyped, Task, Goto, Alters

LEMMA EndsStep ==
    ASSUME ConfigTyped, NEW t \in Admins, Ends(t)
    PROVE  Alters(t) /\ task'[t] = Idle
BY IdleTask DEF ConfigTyped, Ends, Alters

LEMMA BeginsStep ==
    ASSUME ConfigTyped, NEW t \in Admins, NEW e \in Edits \cup {NoEdit},
           NEW panel \in BOOLEAN, NEW pc \in Pcs, Begins(t, e, panel, pc)
    PROVE  /\ Alters(t) /\ task[t] = Idle
           /\ task'[t].pc = pc /\ task'[t].edit = e /\ task'[t].seen = Nil
<1> DEFINE r == [task[t] EXCEPT !.pc = pc, !.edit = e, !.panel = panel]
<1>1. task[t] = Idle /\ task \in [Admins -> Task]
  BY DEF Begins, ConfigTyped
<1>2. r \in Task /\ r.pc = pc /\ r.edit = e /\ r.seen = Nil
  <2>1. Idle \in Task /\ Idle.seen = Nil
    BY IdleTask
  <2> QED BY <1>1, <2>1 DEF Task
<1>3. task' = [task EXCEPT ![t] = r]
  BY <1>1 DEF Begins
<1> HIDE DEF r
<1> QED BY <1>1, <1>2, <1>3 DEF Alters

LEMMA ReadStep ==
    ASSUME ConfigTyped, NEW t \in Admins, NEW pc \in Pcs,
           task' = [task EXCEPT ![t].pc = pc, ![t].seen = live]
    PROVE  /\ Alters(t) /\ task'[t].pc = pc
           /\ task'[t].edit = task[t].edit /\ task'[t].seen = live
<1> DEFINE r == [task[t] EXCEPT !.pc = pc, !.seen = live]
<1>1. task \in [Admins -> Task] /\ live \in Promise!Settings
  BY DEF ConfigTyped
<1>2. r \in Task /\ r.pc = pc /\ r.edit = task[t].edit /\ r.seen = live
  BY <1>1 DEF Task
<1>3. task' = [task EXCEPT ![t] = r]
  BY <1>1
<1> HIDE DEF r
<1> QED BY <1>1, <1>2, <1>3 DEF Alters

LEMMA WriteStep ==
    ASSUME ConfigTyped, NEW t \in Admins, Write(t)
    PROVE  /\ Alters(t) /\ task'[t].seen = task[t].seen
           /\ \/ /\ task[t].edit.kind = "reset" /\ task'[t].pc = "write"
                 /\ task'[t].edit = Promise!MinimalOff
              \/ /\ task[t].edit.kind # "reset" /\ task'[t].pc = "commit"
                 /\ task'[t].edit = task[t].edit
<1>1. task \in [Admins -> Task] /\ task[t].pc = "write"
  BY DEF ConfigTyped, Write
<1>2. CASE /\ task[t].edit.kind = "reset"
           /\ task' = [task EXCEPT ![t].edit = Promise!MinimalOff]
  <2> DEFINE r == [task[t] EXCEPT !.edit = Promise!MinimalOff]
  <2>1. /\ r \in Task /\ r.pc = "write" /\ r.edit = Promise!MinimalOff
        /\ r.seen = task[t].seen
    BY <1>1, MinimalOffIsEdit DEF Task
  <2>2. task' = [task EXCEPT ![t] = r]
    BY <1>1, <1>2
  <2> HIDE DEF r
  <2> QED BY <1>1, <1>2, <2>1, <2>2 DEF Alters
<1>3. CASE task[t].edit.kind # "reset" /\ Goto(t, "commit")
  BY <1>3, GotoStep DEF Pcs
<1> QED BY <1>2, <1>3 DEF Write

LEMMA PermissionsStep ==
    ASSUME ConfigTyped, Stages, NEW t \in Admins, SummaryPermissions(t)
    PROVE  /\ Alters(t) /\ task'[t].pc = "publish"
           /\ task'[t].edit = task[t].edit
           /\ task[t].seen \in Promise!Settings
           /\ task'[t].seen = [task[t].seen EXCEPT !.perms = live.perms]
           /\ task'[t].seen \in Promise!Settings
<1> DEFINE new == [task[t].seen EXCEPT !.perms = live.perms]
           r == [task[t] EXCEPT !.pc = "publish", !.seen = new]
<1>1. task \in [Admins -> Task] /\ live \in Promise!Settings
  BY DEF ConfigTyped
<1>2. task[t].seen \in Promise!Settings
  BY DEF SummaryPermissions, Stages, Stage
<1>3. new \in Promise!Settings
  BY <1>1, <1>2 DEF Promise!Settings
<1>4. task' = [task EXCEPT ![t] = r]
  BY <1>1 DEF SummaryPermissions
<1> HIDE DEF new
<1>5. r \in Task /\ r.pc = "publish" /\ r.edit = task[t].edit /\ r.seen = new
  BY <1>1, <1>3 DEF Task, Pcs
<1> HIDE DEF r
<1>6. Alters(t) /\ task'[t] = r
  BY <1>1, <1>4, <1>5 DEF Alters
<1> QED BY <1>2, <1>3, <1>5, <1>6 DEF new

\* What a handler begins with: one of the edits, or none for the panel's reply.
LEMMA Beginnings ==
    ASSUME NEW t \in Admins,
           \/ Command(t) \/ Reset(t) \/ Control(t) \/ Threshold(t)
           \/ Setup(t) \/ Panel(t)
    PROVE  \E e \in Edits \cup {NoEdit}, panel \in BOOLEAN,
              pc \in {"ensure", "write", "summary"} :
              /\ Begins(t, e, panel, pc)
              /\ pc = "summary" <=> e = NoEdit
              /\ pc = "write" <=> e.kind = "setup"
<1>1. \A e \in Edits : e # NoEdit
  BY NoEditApart, EditsArePromised
<1>2. CASE Panel(t)
  BY <1>2, NoEditApart DEF Panel
<1>3. CASE Setup(t)
  BY <1>1, <1>3 DEF Setup
<1>4. CASE Command(t) \/ Reset(t) \/ Control(t) \/ Threshold(t)
  <2>1. PICK e \in Edits, panel \in BOOLEAN :
           Begins(t, e, panel, "ensure") /\ e.kind # "setup"
    BY <1>4 DEF Command, Reset, Control, Threshold
  <2> QED BY <1>1, <2>1
<1> QED BY <1>2, <1>3, <1>4

\* A step that alters only t's record leaves the others at their stages.
LEMMA OthersStay ==
    ASSUME Stages, NEW t \in Admins, Alters(t), dirty' \subseteq dirty \cup {t},
           Stage(t)'
    PROVE  Stages'
<1>1. ASSUME NEW u \in Admins, u # t PROVE Stage(u)'
  <2>1. task'[u] = task[u] /\ (u \in dirty' => u \in dirty) /\ Stage(u)
    BY <1>1 DEF Alters, Stages
  <2> QED BY <2>1 DEF Stage
<1> QED BY <1>1 DEF Stages

-----------------------------------------------------------------------------
(***************************************************************************)
(* Types and stages.                                                       *)
(***************************************************************************)
LEMMA ConfigTypedInit == Init => ConfigTyped /\ Stages
<1> SUFFICES ASSUME Init PROVE ConfigTyped /\ Stages
  OBVIOUS
<1>1. Promise!Default \in Promise!Settings
  BY DEF Promise!Default, Promise!Settings
<1>2. ConfigTyped
  BY <1>1, IdleTask DEF Init, ConfigTyped
<1>3. Stages
  BY IdleTask DEF Init, Stages, Stage
<1> QED BY <1>2, <1>3

LEMMA ConfigTypedStep == ConfigTyped /\ Stages /\ [Next]_vars => ConfigTyped' /\ Stages'
<1> SUFFICES ASSUME ConfigTyped, Stages, [Next]_vars PROVE ConfigTyped' /\ Stages'
  OBVIOUS
<1> USE DEF bounds
<1>1. CASE UNCHANGED vars
  BY <1>1 DEF vars, ConfigTyped, Stages, Stage
<1>2. ASSUME NEW t \in Admins,
             \/ Command(t) \/ Reset(t) \/ Control(t) \/ Threshold(t)
             \/ Setup(t) \/ Panel(t)
      PROVE  ConfigTyped' /\ Stages'
  <2>1. PICK e \in Edits \cup {NoEdit}, panel \in BOOLEAN,
             pc \in {"ensure", "write", "summary"} :
           /\ Begins(t, e, panel, pc)
           /\ pc = "summary" <=> e = NoEdit
           /\ pc = "write" <=> e.kind = "setup"
    BY <1>2, Beginnings
  <2>2. /\ Alters(t) /\ task[t] = Idle
        /\ task'[t].pc = pc /\ task'[t].edit = e /\ task'[t].seen = Nil
    BY <2>1, BeginsStep DEF Pcs
  <2>3. UNCHANGED <<live, saved, dirty, shown, crashes>> /\ runs' = runs + 1
        /\ calm' \in Admins \cup {Nil}
    BY <2>1 DEF Begins
  <2>4. t \notin dirty
    BY <2>2, IdleTask DEF Stages, Stage
  <2>5. Stage(t)'
    BY <2>1, <2>2, <2>3, <2>4 DEF Stage, Reading
  <2>6. Stages'
    BY <2>2, <2>3, <2>5, OthersStay
  <2> QED BY <2>2, <2>3, <2>6 DEF ConfigTyped, Alters
<1>3. ASSUME NEW t \in Admins, Ensure(t) \/ Commit(t) PROVE ConfigTyped' /\ Stages'
  <2>1. PICK pc \in {"read", "write", "summary", "answer"} :
           /\ Goto(t, pc)
           /\ pc \in {"read", "write"} <=> task[t].pc = "ensure"
           /\ pc \in {"read", "write"} =>
                 (pc = "read" <=> task[t].edit.kind \in Reading)
           /\ task[t].pc \in {"ensure", "commit"}
    BY <1>3 DEF Ensure, Commit, Reading
  <2>2. /\ Alters(t) /\ task'[t].pc = pc
        /\ task'[t].edit = task[t].edit /\ task'[t].seen = task[t].seen
    BY <2>1, GotoStep DEF Pcs
  <2>3. /\ saved' = live /\ dirty' = {} /\ UNCHANGED <<live, shown, calm, bounds>>
    BY <1>3 DEF Ensure, Commit, Saves
  <2>4. Stage(t)'
    BY <2>1, <2>2, <2>3 DEF Stages, Stage
  <2>5. Stages'
    BY <2>2, <2>3, <2>4, OthersStay
  <2> QED BY <2>2, <2>3, <2>5 DEF ConfigTyped, Alters
<1>4. ASSUME NEW t \in Admins, Read(t) PROVE ConfigTyped' /\ Stages'
  <2>1. /\ task[t].pc = "read"
        /\ UNCHANGED <<live, saved, dirty, shown, calm, bounds>>
    BY <1>4 DEF Read
  <2>2. /\ Alters(t) /\ task'[t].pc = "write"
        /\ task'[t].edit = task[t].edit /\ task'[t].seen = live
    BY <1>4, ReadStep DEF Read, Pcs
  <2>3. Stage(t)'
    BY <2>1, <2>2 DEF Stages, Stage
  <2>4. Stages'
    BY <2>1, <2>2, <2>3, OthersStay
  <2> QED BY <2>1, <2>2, <2>4 DEF ConfigTyped, Alters
<1>5. ASSUME NEW t \in Admins, Write(t) PROVE ConfigTyped' /\ Stages'
  <2>1. /\ task[t].pc = "write" /\ live' = Written(t)
        /\ dirty' = dirty \cup {t} /\ UNCHANGED <<saved, shown, calm, bounds>>
    BY <1>5 DEF Write
  <2>2. /\ Alters(t) /\ task'[t].seen = task[t].seen
        /\ \/ /\ task[t].edit.kind = "reset" /\ task'[t].pc = "write"
              /\ task'[t].edit = Promise!MinimalOff
           \/ /\ task[t].edit.kind # "reset" /\ task'[t].pc = "commit"
              /\ task'[t].edit = task[t].edit
    BY <1>5, WriteStep
  <2>3. live' \in Promise!Settings
    BY <2>1, WrittenTypes
  <2>4. Stage(t)'
    BY <2>1, <2>2, MinimalOffIsEdit DEF Stages, Stage, Reading
  <2>5. Stages'
    BY <2>1, <2>2, <2>4, OthersStay
  <2> QED BY <2>1, <2>2, <2>3, <2>5 DEF ConfigTyped, Alters
<1>6. ASSUME NEW t \in Admins, Answer(t) \/ Publish(t) PROVE ConfigTyped' /\ Stages'
  <2>1. /\ task[t].pc \in {"answer", "publish"}
        /\ UNCHANGED <<live, saved, dirty, calm, bounds>> /\ Ends(t)
        /\ shown' \in {shown, task[t].seen}
    BY <1>6 DEF Answer, Publish
  <2>2. Alters(t) /\ task'[t] = Idle
    BY <2>1, EndsStep
  <2>3. Stage(t)'
    BY <2>1, <2>2, IdleTask DEF Stages, Stage
  <2>4. Stages'
    BY <2>1, <2>2, <2>3, OthersStay
  <2>5. task[t].seen \in Promise!Settings \cup {Nil}
    BY DEF ConfigTyped, Task
  <2> QED BY <2>1, <2>2, <2>4, <2>5 DEF ConfigTyped, Alters
<1>7. ASSUME NEW t \in Admins, SummaryRow(t) PROVE ConfigTyped' /\ Stages'
  <2>1. /\ saved' = live /\ dirty' = {} /\ UNCHANGED <<live, shown, calm, bounds>>
    BY <1>7 DEF SummaryRow, Saves
  <2>2. Alters(t) /\ task'[t].pc = "perms" /\ task'[t].seen = live
    BY <1>7, ReadStep DEF SummaryRow, Pcs
  <2>3. Stage(t)'
    BY <2>1, <2>2 DEF Stage, ConfigTyped
  <2>4. Stages'
    BY <2>1, <2>2, <2>3, OthersStay
  <2> QED BY <2>1, <2>2, <2>4 DEF ConfigTyped, Alters
<1>8. ASSUME NEW t \in Admins, SummaryPermissions(t) PROVE ConfigTyped' /\ Stages'
  <2>1. /\ task[t].pc = "perms"
        /\ UNCHANGED <<live, saved, dirty, shown, calm, bounds>>
    BY <1>8 DEF SummaryPermissions
  <2>2. /\ Alters(t) /\ task'[t].pc = "publish"
        /\ task'[t].seen \in Promise!Settings
    BY <1>8, PermissionsStep
  <2>3. Stage(t)'
    BY <2>1, <2>2 DEF Stages, Stage
  <2>4. Stages'
    BY <2>1, <2>2, <2>3, OthersStay
  <2> QED BY <2>1, <2>2, <2>4 DEF ConfigTyped, Alters
<1>9. CASE Crash
  <2>1. \A t \in Admins : task'[t] = Idle
    BY <1>9 DEF Crash
  <2>2. Stages'
    BY <1>9, <2>1, IdleTask DEF Crash, Stages, Stage
  <2>3. ConfigTyped'
    BY <1>9, IdleTask DEF Crash, ConfigTyped
  <2> QED BY <2>2, <2>3
<1> QED BY <1>1, <1>2, <1>3, <1>4, <1>5, <1>6, <1>7, <1>8, <1>9 DEF Next

\* Every variable keeps its type (TypeOK).
THEOREM ConfigTypes == Spec => []TypeOK
<1>1. ConfigTyped => TypeOK
  BY DEF ConfigTyped, TypeOK, Task, Pcs
<1> QED BY <1>1, ConfigTypedInit, ConfigTypedStep, PTL DEF Spec

-----------------------------------------------------------------------------
(***************************************************************************)
(* Handlers that edit different settings.                                  *)
(***************************************************************************)
\* A statement leaves the columns of other edits alone.
LEMMA WrittenColumns ==
    ASSUME NEW t \in Admins, ConfigTyped, Stages, task[t].pc = "write", SeenFresh
    PROVE  /\ "features" \notin Columns(task[t].edit)
                 => Written(t).features = live.features
           /\ "minimal" \notin Columns(task[t].edit)
                 => Written(t).minimal = live.minimal
<1>1. task[t].edit \in Promise!Edits /\ live \in Promise!Settings
  BY EditsArePromised DEF ConfigTyped, Stages, Stage
<1> QED BY <1>1, WrittenIsEffect, EffectColumns

\* A step of t that adds no column to those of its edit.
LEMMA StillApart ==
    ASSUME EditsApart, NEW t \in Admins, Alters(t),
           Columns(task'[t].edit) \subseteq Columns(task[t].edit)
    PROVE  EditsApart'
<1>1. \A u \in Admins : Columns(task[u].edit)' \subseteq Columns(task[u].edit)
  BY DEF Alters
<1>2. ASSUME NEW u \in Admins, NEW v \in Admins, u # v
      PROVE  Columns(task'[u].edit) \cap Columns(task'[v].edit) = {}
  <2>1. Columns(task'[u].edit) \subseteq Columns(task[u].edit)
    BY DEF Alters
  <2>2. Columns(task'[v].edit) \subseteq Columns(task[v].edit)
    BY DEF Alters
  <2>3. Columns(task[u].edit) \cap Columns(task[v].edit) = {}
    BY <1>2 DEF EditsApart
  <2> QED BY <2>1, <2>2, <2>3
<1> QED BY <1>2 DEF EditsApart

\* A step of t that leaves the settings alone, and t not about to write what
\* it has read earlier.
LEMMA StillFresh ==
    ASSUME SeenFresh, NEW t \in Admins, Alters(t), UNCHANGED live,
           task'[t].pc = "write" =>
              task'[t].edit.kind \notin Reading \/ task'[t].seen = live
    PROVE  SeenFresh'
BY DEF SeenFresh, Alters, Reading

LEMMA FreshStep ==
    ASSUME Apart, ConfigTyped, Stages, EditsApart, SeenFresh, [Next]_vars
    PROVE  EditsApart' /\ SeenFresh'
<1> USE DEF bounds
<1>1. CASE UNCHANGED vars
  BY <1>1 DEF vars, EditsApart, SeenFresh
<1>2. ASSUME NEW t \in Admins,
             \/ Command(t) \/ Reset(t) \/ Control(t) \/ Threshold(t)
             \/ Setup(t) \/ Panel(t)
      PROVE  EditsApart' /\ SeenFresh'
  <2>1. PICK e \in Edits \cup {NoEdit}, panel \in BOOLEAN,
             pc \in {"ensure", "write", "summary"} :
           /\ Begins(t, e, panel, pc)
           /\ pc = "write" <=> e.kind = "setup"
    BY <1>2, Beginnings
  <2>2. /\ Alters(t) /\ task'[t].pc = pc /\ task'[t].edit = e
    BY <2>1, BeginsStep DEF Pcs
  <2>3. UNCHANGED live
        /\ \A u \in Admins : Columns(task[u].edit) \cap Columns(e) = {}
    BY <2>1 DEF Begins
  <2>4. EditsApart'
    <3> SUFFICES ASSUME NEW u \in Admins, NEW v \in Admins, u # v
                 PROVE  Columns(task'[u].edit) \cap Columns(task'[v].edit) = {}
      BY DEF EditsApart
    <3>1. CASE u # t /\ v # t
      <4>1. task'[u] = task[u] /\ task'[v] = task[v]
        BY <2>2, <3>1 DEF Alters
      <4>2. Columns(task[u].edit) \cap Columns(task[v].edit) = {}
        BY DEF EditsApart
      <4> QED BY <4>1, <4>2
    <3>2. CASE u = t
      <4>1. task'[v] = task[v] /\ task'[u].edit = e
        BY <2>2, <3>2 DEF Alters
      <4> QED BY <2>3, <4>1
    <3>3. CASE v = t
      <4>1. task'[u] = task[u] /\ task'[v].edit = e
        BY <2>2, <3>3 DEF Alters
      <4> QED BY <2>3, <4>1
    <3> QED BY <3>1, <3>2, <3>3
  <2>5. SeenFresh'
    BY <2>1, <2>2, <2>3, StillFresh DEF Reading
  <2> QED BY <2>4, <2>5
<1>3. ASSUME NEW t \in Admins, Ensure(t) \/ Commit(t)
      PROVE  EditsApart' /\ SeenFresh'
  <2>1. PICK pc \in {"read", "write", "summary", "answer"} :
           /\ Goto(t, pc)
           /\ pc = "write" => task[t].edit.kind \notin Reading
    BY <1>3 DEF Ensure, Commit, Reading
  <2>2. /\ Alters(t) /\ task'[t].pc = pc /\ task'[t].edit = task[t].edit
    BY <2>1, GotoStep DEF Pcs
  <2>3. UNCHANGED live
    BY <1>3 DEF Ensure, Commit
  <2> QED BY <2>1, <2>2, <2>3, StillApart, StillFresh
<1>4. ASSUME NEW t \in Admins, Read(t) PROVE EditsApart' /\ SeenFresh'
  <2>1. UNCHANGED live
    BY <1>4 DEF Read
  <2>2. Alters(t) /\ task'[t].edit = task[t].edit /\ task'[t].seen = live
    BY <1>4, ReadStep DEF Read, Pcs
  <2> QED BY <2>1, <2>2, StillApart, StillFresh
<1>5. ASSUME NEW t \in Admins, Write(t) PROVE EditsApart' /\ SeenFresh'
  <2>1. task[t].pc = "write" /\ live' = Written(t)
    BY <1>5 DEF Write
  <2>2. /\ Alters(t) /\ task'[t].seen = task[t].seen
        /\ \/ /\ task[t].edit.kind = "reset" /\ task'[t].pc = "write"
              /\ task'[t].edit = Promise!MinimalOff
           \/ /\ task'[t].pc = "commit" /\ task'[t].edit = task[t].edit
    BY <1>5, WriteStep
  <2>3. Columns(task'[t].edit) \subseteq Columns(task[t].edit)
    BY <2>2, MinimalOffIsEdit DEF Columns
  <2>4. EditsApart'
    BY <2>2, <2>3, StillApart
  <2>5. ASSUME NEW u \in Admins, task'[u].pc = "write"
        PROVE  /\ task'[u].edit.kind \in {"feature", "features"}
                     => task'[u].seen.features = live'.features
               /\ task'[u].edit.kind = "toggle"
                     => task'[u].seen.minimal = live'.minimal
    <3>1. CASE u = t
      BY <2>2, <2>5, <3>1, MinimalOffIsEdit
    <3>2. CASE u # t
      <4>1. task'[u] = task[u]
        BY <2>2, <3>2 DEF Alters
      <4>2. Columns(task[u].edit) \cap Columns(task[t].edit) = {}
        BY <3>2 DEF EditsApart
      <4>3. CASE task[u].edit.kind \in {"feature", "features"}
        <5>1. "features" \in Columns(task[u].edit)
          BY <4>3 DEF Columns
        <5>2. live'.features = live.features
          BY <2>1, <4>2, <5>1, WrittenColumns
        <5> QED BY <2>5, <4>1, <4>3, <5>2 DEF SeenFresh
      <4>4. CASE task[u].edit.kind = "toggle"
        <5>1. "minimal" \in Columns(task[u].edit)
          BY <4>4 DEF Columns
        <5>2. live'.minimal = live.minimal
          BY <2>1, <4>2, <5>1, WrittenColumns
        <5> QED BY <2>5, <4>1, <4>4, <5>2 DEF SeenFresh
      <4> QED BY <4>1, <4>3, <4>4
    <3> QED BY <3>1, <3>2
  <2>6. SeenFresh'
    BY <2>5 DEF SeenFresh
  <2> QED BY <2>4, <2>6
<1>6. ASSUME NEW t \in Admins, Answer(t) \/ Publish(t)
      PROVE  EditsApart' /\ SeenFresh'
  <2>1. UNCHANGED live /\ Ends(t)
    BY <1>6 DEF Answer, Publish
  <2>2. Alters(t) /\ task'[t].pc = "idle" /\ task'[t].edit = NoEdit
    BY <2>1, EndsStep, IdleTask
  <2>3. Columns(task'[t].edit) = {}
    BY <2>2, NoEditApart
  <2> QED BY <2>1, <2>2, <2>3, StillApart, StillFresh
<1>7. ASSUME NEW t \in Admins, SummaryRow(t) \/ SummaryPermissions(t)
      PROVE  EditsApart' /\ SeenFresh'
  <2>1. UNCHANGED live
    BY <1>7 DEF SummaryRow, SummaryPermissions
  <2>2. Alters(t) /\ task'[t].edit = task[t].edit /\ task'[t].pc # "write"
    <3>1. CASE SummaryRow(t)
      BY <3>1, ReadStep DEF SummaryRow, Pcs
    <3>2. CASE SummaryPermissions(t)
      BY <3>2, PermissionsStep
    <3> QED BY <1>7, <3>1, <3>2
  <2> QED BY <2>1, <2>2, StillApart, StillFresh
<1>8. CASE Crash
  <2>1. \A u \in Admins : task'[u] = Idle
    BY <1>8 DEF Crash
  <2>2. Columns(Idle.edit) = {}
    BY IdleTask, NoEditApart
  <2>3. EditsApart'
    BY <2>1, <2>2 DEF EditsApart
  <2>4. SeenFresh'
    BY <2>1, IdleTask DEF SeenFresh
  <2> QED BY <2>3, <2>4
<1> QED BY <1>1, <1>2, <1>3, <1>4, <1>5, <1>6, <1>7, <1>8 DEF Next

-----------------------------------------------------------------------------
(***************************************************************************)
(* The settings keep their promise.                                        *)
(***************************************************************************)
\* What is left of t's edit, as Settings sees it.
Request(t) == IF task[t].edit = NoEdit THEN Nil
              ELSE [edit |-> task[t].edit, left |-> Left(t)]
Demands == [t \in Admins |-> Request(t)]

LEMMA PromiseStep ==
    ASSUME Apart, ConfigTyped, Stages, EditsApart, SeenFresh, [Next]_vars
    PROVE  [Promise!Next]_(Promise!vars)
<1> USE DEF bounds
<1>0. Promise!vars = <<live, saved, Demands, dirty>>
  BY DEF Promise!vars, Demands, Request
\* The steps of Settings, in terms of Demands.
<1>a. ASSUME UNCHANGED <<live, saved, Demands, dirty>>
      PROVE  [Promise!Next]_(Promise!vars)
  BY <1>0, <1>a DEF Demands, Request, Promise!vars
<1>b. ASSUME saved' = live, dirty' = {}, UNCHANGED <<live, Demands>>
      PROVE  [Promise!Next]_(Promise!vars)
  BY <1>b DEF Demands, Request, Promise!Next, Promise!Commit
<1>c. ASSUME NEW t \in Admins, NEW e \in Promise!Edits, Demands[t] = Nil,
             Demands' = [Demands EXCEPT ![t] = [edit |-> e, left |-> TRUE]],
             UNCHANGED <<live, saved, dirty>>
      PROVE  [Promise!Next]_(Promise!vars)
  BY <1>c DEF Demands, Request, Promise!Next, Promise!Ask
<1>d. ASSUME NEW t \in Admins, Demands[t] # Nil, ~Demands[t].left,
             t \notin dirty, Demands' = [Demands EXCEPT ![t] = Nil],
             UNCHANGED <<live, saved, dirty>>
      PROVE  [Promise!Next]_(Promise!vars)
  BY <1>d DEF Demands, Request, Promise!Next, Promise!Answer
\* What a step of t does to Demands.
<1>e. ASSUME NEW t \in Admins, Alters(t)
      PROVE  Demands' = [Demands EXCEPT ![t] = Request(t)']
  <2>1. \A u \in Admins : u # t => Request(u)' = Request(u)
    BY <1>e DEF Alters, Request, Left
  <2> QED BY <2>1 DEF Demands
<1>f. ASSUME NEW t \in Admins, Alters(t), task'[t].edit = task[t].edit,
             Left(t)' = Left(t)
      PROVE  UNCHANGED Demands
  <2>1. Request(t)' = Request(t)
    BY <1>f DEF Request
  <2> QED BY <1>e, <1>f, <2>1 DEF Demands
<1>1. CASE UNCHANGED vars
  <2>1. UNCHANGED Demands
    BY <1>1 DEF vars, Demands, Request, Left
  <2> QED BY <1>1, <1>a, <2>1 DEF vars
<1>2. ASSUME NEW t \in Admins,
             \/ Command(t) \/ Reset(t) \/ Control(t) \/ Threshold(t)
             \/ Setup(t) \/ Panel(t)
      PROVE  [Promise!Next]_(Promise!vars)
  <2>1. PICK e \in Edits \cup {NoEdit}, panel \in BOOLEAN,
             pc \in {"ensure", "write", "summary"} :
           /\ Begins(t, e, panel, pc)
           /\ pc = "summary" <=> e = NoEdit
    BY <1>2, Beginnings
  <2>2. /\ Alters(t) /\ task[t] = Idle /\ task'[t].pc = pc /\ task'[t].edit = e
    BY <2>1, BeginsStep DEF Pcs
  <2>3. UNCHANGED <<live, saved, dirty>>
    BY <2>1 DEF Begins
  <2>4. Request(t) = Nil
    BY <2>2, IdleTask DEF Request
  <2>5. CASE e = NoEdit
    <3>1. Request(t)' = Nil
      BY <2>2, <2>5 DEF Request
    <3>2. UNCHANGED Demands
      BY <1>e, <2>2, <2>4, <3>1 DEF Demands
    <3> QED BY <1>a, <2>3, <3>2
  <2>6. CASE e # NoEdit
    <3>1. Request(t)' = [edit |-> e, left |-> TRUE] /\ e \in Promise!Edits
      BY <2>1, <2>2, <2>6, EditsArePromised DEF Request, Left
    <3>2. Demands' = [Demands EXCEPT ![t] = [edit |-> e, left |-> TRUE]]
      BY <1>e, <2>2, <3>1
    <3> QED BY <1>c, <2>3, <2>4, <3>1, <3>2 DEF Demands
  <2> QED BY <2>5, <2>6
<1>3. ASSUME NEW t \in Admins, Ensure(t) \/ Commit(t)
      PROVE  [Promise!Next]_(Promise!vars)
  <2>1. PICK pc \in {"read", "write", "summary", "answer"} :
           /\ Goto(t, pc)
           /\ pc \in {"read", "write"} <=> task[t].pc = "ensure"
           /\ task[t].pc \in {"ensure", "commit"}
    BY <1>3 DEF Ensure, Commit
  <2>2. Alters(t) /\ task'[t].pc = pc /\ task'[t].edit = task[t].edit
    BY <2>1, GotoStep DEF Pcs
  <2>3. Left(t)' = Left(t)
    BY <2>1, <2>2 DEF Left
  <2>4. saved' = live /\ dirty' = {} /\ UNCHANGED live
    BY <1>3 DEF Ensure, Commit, Saves
  <2> QED BY <1>b, <1>f, <2>2, <2>3, <2>4
<1>4. ASSUME NEW t \in Admins, Read(t) PROVE [Promise!Next]_(Promise!vars)
  <2>1. task[t].pc = "read" /\ UNCHANGED <<live, saved, dirty>>
    BY <1>4 DEF Read
  <2>2. Alters(t) /\ task'[t].pc = "write" /\ task'[t].edit = task[t].edit
    BY <1>4, ReadStep DEF Read, Pcs
  <2>3. Left(t)' = Left(t)
    BY <2>1, <2>2 DEF Left
  <2> QED BY <1>a, <1>f, <2>1, <2>2, <2>3
<1>5. ASSUME NEW t \in Admins, Write(t) PROVE [Promise!Next]_(Promise!vars)
  <2> DEFINE e == task[t].edit
  <2>1. /\ task[t].pc = "write" /\ live' = Written(t) /\ UNCHANGED saved
        /\ dirty' = dirty \cup {t}
    BY <1>5 DEF Write
  <2>2. e \in Edits
    BY <2>1 DEF Stages, Stage
  <2>3. e # NoEdit
    BY <2>2, EditsArePromised, NoEditApart
  <2>4. live' = Promise!Effect(e, live)
    BY <2>1, WrittenIsEffect
  <2>5. Request(t) = [edit |-> e, left |-> TRUE]
    BY <2>1, <2>3 DEF Request, Left
  <2>6. Demands[t] = [edit |-> e, left |-> TRUE] /\ Demands[t] # Nil
    BY <2>2, <2>5, NilIsNoRequest DEF Demands
  <2>7. /\ Alters(t)
        /\ \/ /\ e.kind = "reset" /\ task'[t].pc = "write"
              /\ task'[t].edit = Promise!MinimalOff
           \/ /\ e.kind # "reset" /\ task'[t].pc = "commit"
              /\ task'[t].edit = e
    BY <1>5, WriteStep
  <2>8. Request(t)' = IF e.kind = "reset"
                      THEN [edit |-> Promise!MinimalOff, left |-> TRUE]
                      ELSE [edit |-> e, left |-> FALSE]
    <3>1. Promise!MinimalOff # NoEdit
      BY MinimalOffIsEdit, EditsArePromised, NoEditApart
    <3>2. Left(t)' = (e.kind = "reset")
      BY <2>7 DEF Left
    <3> QED BY <2>3, <2>7, <3>1, <3>2 DEF Request
  <2> HIDE DEF e
  <2>9. Demands' = [Demands EXCEPT ![t] =
                        IF e.kind = "reset"
                        THEN [edit |-> Promise!MinimalOff, left |-> TRUE]
                        ELSE [edit |-> e, left |-> FALSE]]
    BY <1>e, <2>7, <2>8
  <2>10. Demands[t].edit = e /\ Demands[t].left
    BY <2>6
  <2>11. /\ Demands[t] # Nil /\ Demands[t].left
         /\ live' = Promise!Effect(Demands[t].edit, live)
         /\ Demands' = [Demands EXCEPT ![t] =
                            IF Demands[t].edit.kind = "reset"
                            THEN [edit |-> Promise!MinimalOff, left |-> TRUE]
                            ELSE [edit |-> Demands[t].edit, left |-> FALSE]]
         /\ dirty' = dirty \cup {t} /\ UNCHANGED saved
    BY <2>1, <2>4, <2>6, <2>9, <2>10
  <2>12. Promise!Apply(t)
    BY <2>11 DEF Demands, Request, Promise!Apply
  <2> QED BY <2>12 DEF Promise!Next
<1>6. ASSUME NEW t \in Admins, Answer(t) \/ Publish(t)
      PROVE  [Promise!Next]_(Promise!vars)
  <2>1. /\ task[t].pc \in {"answer", "publish"} /\ Ends(t)
        /\ UNCHANGED <<live, saved, dirty>>
    BY <1>6 DEF Answer, Publish
  <2>2. Alters(t) /\ task'[t].edit = NoEdit
    BY <2>1, EndsStep, IdleTask
  <2>3. Request(t)' = Nil
    BY <2>2 DEF Request
  <2>4. Demands' = [Demands EXCEPT ![t] = Nil]
    BY <1>e, <2>2, <2>3
  <2>5. CASE task[t].edit = NoEdit
    <3>1. Request(t) = Nil
      BY <2>5 DEF Request
    <3>2. UNCHANGED Demands
      BY <2>4, <3>1 DEF Demands
    <3> QED BY <1>a, <2>1, <3>2
  <2>6. CASE task[t].edit # NoEdit
    <3>0. Left(t) = FALSE
      BY <2>1 DEF Left
    <3>1. Request(t) = [edit |-> task[t].edit, left |-> FALSE]
      BY <2>6, <3>0 DEF Request
    <3>2. task[t].edit \in Edits
      BY <2>6 DEF ConfigTyped, Task
    <3>3. Request(t) # Nil
      BY <3>1, <3>2, NilIsNoRequest
    <3>4. Demands[t] # Nil /\ ~Demands[t].left
      BY <3>1, <3>3 DEF Demands
    <3>5. t \notin dirty
      BY <2>1 DEF Stages, Stage
    <3> QED BY <1>d, <2>1, <2>4, <3>4, <3>5
  <2> QED BY <2>5, <2>6
<1>7. ASSUME NEW t \in Admins, SummaryRow(t) PROVE [Promise!Next]_(Promise!vars)
  <2>1. task[t].pc = "summary" /\ saved' = live /\ dirty' = {} /\ UNCHANGED live
    BY <1>7 DEF SummaryRow, Saves
  <2>2. Alters(t) /\ task'[t].pc = "perms" /\ task'[t].edit = task[t].edit
    BY <1>7, ReadStep DEF SummaryRow, Pcs
  <2>3. Left(t)' = Left(t)
    BY <2>1, <2>2 DEF Left
  <2> QED BY <1>b, <1>f, <2>1, <2>2, <2>3
<1>8. ASSUME NEW t \in Admins, SummaryPermissions(t)
      PROVE  [Promise!Next]_(Promise!vars)
  <2>1. task[t].pc = "perms" /\ UNCHANGED <<live, saved, dirty>>
    BY <1>8 DEF SummaryPermissions
  <2>2. Alters(t) /\ task'[t].pc = "publish" /\ task'[t].edit = task[t].edit
    BY <1>8, PermissionsStep
  <2>3. Left(t)' = Left(t)
    BY <2>1, <2>2 DEF Left
  <2> QED BY <1>a, <1>f, <2>1, <2>2, <2>3
<1>9. CASE Crash
  <2>1. /\ \A u \in Admins : task'[u] = Idle
        /\ live' = saved /\ dirty' = {} /\ UNCHANGED saved
    BY <1>9 DEF Crash
  <2>2. Demands' = [u \in Admins |-> Nil]
    BY <2>1, IdleTask DEF Demands, Request
  <2>3. Promise!Crash
    BY <2>1, <2>2 DEF Demands, Request, Promise!Crash
  <2> QED BY <2>3 DEF Promise!Next
<1> QED BY <1>1, <1>2, <1>3, <1>4, <1>5, <1>6, <1>7, <1>8, <1>9 DEF Next

\* Handlers that edit different settings apply every edit once, to the settings
\* as they are, change nothing else, and answer when it is on disk, whatever
\* they interleave, commit of each other's or lose to a crash (KeepsPromise).
THEOREM ApartHandlersKeepPromise ==
    ASSUME Apart PROVE Spec => KeepsPromise
<1>1. Init => EditsApart /\ SeenFresh
  <2> SUFFICES ASSUME Init PROVE EditsApart /\ SeenFresh
    OBVIOUS
  <2>1. \A t \in Admins : task[t] = Idle
    BY DEF Init
  <2>2. Columns(Idle.edit) = {} /\ Idle.pc = "idle"
    BY IdleTask, NoEditApart
  <2> QED BY <2>1, <2>2 DEF EditsApart, SeenFresh
<1>2. ConfigTyped /\ Stages /\ EditsApart /\ SeenFresh /\ [Next]_vars
         => EditsApart' /\ SeenFresh'
  BY FreshStep
<1>3. Init => Promise!Init
  BY IdleTask DEF Init, Promise!Init
<1>4. ConfigTyped /\ Stages /\ EditsApart /\ SeenFresh /\ [Next]_vars
         => [Promise!Next]_(Promise!vars)
  BY PromiseStep
<1> QED
  BY <1>1, <1>2, <1>3, <1>4, ConfigTypedInit, ConfigTypedStep, PTL
  DEF Spec, KeepsPromise, Promise!Spec

-----------------------------------------------------------------------------
(***************************************************************************)
(* The panel.                                                              *)
(***************************************************************************)
\* A step of the one handler that is alone, or of another that is not.
LEMMA CalmStep ==
    ASSUME ConfigTyped, Stages, CalmAlone, [Next]_vars PROVE CalmAlone'
<1> USE DEF bounds
<1>1. CASE UNCHANGED vars
  BY <1>1 DEF vars, CalmAlone
\* Nobody but t may be calm after a step of t, and t only if it was.
<1>2. ASSUME NEW t \in Admins, Alters(t), UNCHANGED calm, task[t] # Idle,
             task'[t].pc \in {"perms", "publish"} /\ calm = t
                => task'[t].seen = live'
      PROVE  CalmAlone'
  BY <1>2 DEF CalmAlone, Alters
<1>3. \A t \in Admins : task[t].pc # "idle" => task[t] # Idle
  BY IdleTask
<1>4. ASSUME NEW t \in Admins,
             \/ Command(t) \/ Reset(t) \/ Control(t) \/ Threshold(t)
             \/ Setup(t) \/ Panel(t)
      PROVE  CalmAlone'
  <2>1. PICK e \in Edits \cup {NoEdit}, panel \in BOOLEAN,
             pc \in {"ensure", "write", "summary"} :
           Begins(t, e, panel, pc)
    BY <1>4, Beginnings
  <2>2. Alters(t) /\ task'[t].pc = pc
    BY <2>1, BeginsStep DEF Pcs
  <2>3. calm' = IF \A u \in Admins : task[u] = Idle THEN t ELSE Nil
    BY <2>1 DEF Begins
  <2>4. \A u \in Admins : calm' = u => u = t /\ \A v \in Admins : task[v] = Idle
    BY <2>3, NilAssumption
  <2> QED BY <2>2, <2>4 DEF CalmAlone, Alters
<1>5. ASSUME NEW t \in Admins, Ensure(t) \/ Commit(t) PROVE CalmAlone'
  <2>1. PICK pc \in {"read", "write", "summary", "answer"} :
           Goto(t, pc) /\ task[t].pc \in {"ensure", "commit"}
    BY <1>5 DEF Ensure, Commit
  <2>2. Alters(t) /\ task'[t].pc = pc
    BY <2>1, GotoStep DEF Pcs
  <2>3. UNCHANGED calm
    BY <1>5 DEF Ensure, Commit
  <2> QED BY <1>2, <1>3, <2>1, <2>2, <2>3
<1>6. ASSUME NEW t \in Admins, Read(t) PROVE CalmAlone'
  <2>1. UNCHANGED calm /\ task[t].pc = "read"
    BY <1>6 DEF Read
  <2>2. Alters(t) /\ task'[t].pc = "write"
    BY <1>6, ReadStep DEF Read, Pcs
  <2> QED BY <1>2, <1>3, <2>1, <2>2
<1>7. ASSUME NEW t \in Admins, Write(t) PROVE CalmAlone'
  <2>1. UNCHANGED calm /\ task[t].pc = "write"
    BY <1>7 DEF Write
  <2>2. Alters(t) /\ task'[t].pc \in {"write", "commit"}
    BY <1>7, WriteStep
  <2> QED BY <1>2, <1>3, <2>1, <2>2
<1>8. ASSUME NEW t \in Admins, Answer(t) \/ Publish(t) PROVE CalmAlone'
  <2>1. UNCHANGED calm /\ task[t].pc # "idle" /\ Ends(t)
    BY <1>8 DEF Answer, Publish
  <2>2. Alters(t) /\ task'[t].pc = "idle"
    BY <2>1, EndsStep, IdleTask
  <2> QED BY <1>2, <1>3, <2>1, <2>2
<1>9. ASSUME NEW t \in Admins, SummaryRow(t) PROVE CalmAlone'
  <2>1. UNCHANGED <<calm, live>> /\ task[t].pc = "summary"
    BY <1>9 DEF SummaryRow
  <2>2. Alters(t) /\ task'[t].seen = live
    BY <1>9, ReadStep DEF SummaryRow, Pcs
  <2> QED BY <1>2, <1>3, <2>1, <2>2
<1>10. ASSUME NEW t \in Admins, SummaryPermissions(t) PROVE CalmAlone'
  <2>1. UNCHANGED <<calm, live>> /\ task[t].pc = "perms"
    BY <1>10 DEF SummaryPermissions
  <2>2. /\ Alters(t) /\ task[t].seen \in Promise!Settings
        /\ task'[t].seen = [task[t].seen EXCEPT !.perms = live.perms]
    BY <1>10, PermissionsStep
  <2>3. calm = t => task'[t].seen = live'
    <3>1. calm = t => task[t].seen = live
      BY <2>1 DEF CalmAlone
    <3>2. task[t].seen = live => task'[t].seen = live
      BY <2>2 DEF Promise!Settings
    <3> QED BY <2>1, <3>1, <3>2
  <2> QED BY <1>2, <1>3, <2>1, <2>2, <2>3
<1>11. CASE Crash
  BY <1>11, IdleTask, NilAssumption DEF Crash, CalmAlone
<1> QED BY <1>1, <1>4, <1>5, <1>6, <1>7, <1>8, <1>9, <1>10, <1>11 DEF Next

LEMMA PublishedIsLive ==
    ASSUME ConfigTyped, Stages, CalmAlone, [Next]_vars,
           NEW t \in Admins, calm = t, task[t].pc = "publish",
           task'[t] = Idle, shown' # Nil
    PROVE  shown' = live'
<1> USE DEF bounds
<1>1. /\ \A u \in Admins \ {t} : task[u] = Idle
      /\ task[t].seen = live
  BY DEF CalmAlone
<1>2. task'[t] # task[t]
  BY IdleTask
<1>3. ~UNCHANGED vars
  BY <1>2 DEF vars
<1>4. CASE Crash
  BY <1>4 DEF Crash
<1>5. ASSUME NEW u \in Admins,
             \/ Command(u) \/ Reset(u) \/ Control(u) \/ Threshold(u)
             \/ Setup(u) \/ Panel(u)
      PROVE  FALSE
  <2>1. PICK e \in Edits \cup {NoEdit}, panel \in BOOLEAN,
             pc \in {"ensure", "write", "summary"} :
           Begins(u, e, panel, pc)
    BY <1>5, Beginnings
  <2>2. Alters(u) /\ task[u] = Idle
    BY <2>1, BeginsStep DEF Pcs
  <2>3. u # t
    BY <2>2, IdleTask
  <2> QED BY <1>2, <2>2, <2>3 DEF Alters
<1>6. ASSUME NEW u \in Admins,
             \/ Ensure(u) \/ Read(u) \/ Write(u) \/ Commit(u) \/ Answer(u)
             \/ SummaryRow(u) \/ SummaryPermissions(u)
      PROVE  FALSE
  <2>1. task[u].pc \notin {"idle", "publish"}
    BY <1>6 DEF Ensure, Read, Write, Commit, Answer, SummaryRow,
                SummaryPermissions
  <2>2. u # t /\ task[u] # Idle
    BY <2>1, IdleTask
  <2> QED BY <1>1, <2>2
<1>7. ASSUME NEW u \in Admins, Publish(u) PROVE shown' = live'
  <2>1. u = t
    <3>1. task[u] # Idle
      BY <1>7, IdleTask DEF Publish
    <3> QED BY <1>1, <3>1
  <2> QED BY <1>1, <1>7, <2>1 DEF Publish
<1> QED BY <1>3, <1>4, <1>5, <1>6, <1>7 DEF Next

\* A panel refreshed while no other handler runs shows the settings as they
\* are, whatever earlier handlers or a crash have left (CalmPanelIsLive).
THEOREM CalmPanelsAreLive == Spec => CalmPanelIsLive
<1>1. Init => CalmAlone
  BY IdleTask DEF Init, CalmAlone
<1>2. ConfigTyped /\ Stages /\ CalmAlone /\ [Next]_vars => CalmAlone'
  BY CalmStep
<1>3. ConfigTyped /\ Stages /\ CalmAlone /\ [Next]_vars =>
         [\A t \in Admins :
             calm = t /\ task[t].pc = "publish" /\ task'[t] = Idle /\ shown' # Nil
                 => shown' = live']_vars
  BY PublishedIsLive
<1> QED
  BY <1>1, <1>2, <1>3, ConfigTypedInit, ConfigTypedStep, PTL DEF Spec, CalmPanelIsLive

-----------------------------------------------------------------------------
(***************************************************************************)
(* MapPanel.  An interaction that has the map to itself carries the        *)
(* recorded message and, once it has rendered, the markers as they are.    *)
(***************************************************************************)
Picturing == {"mark", "clear", "refresh", "render", "fetch", "edit", "send", "record"}

MapTyped ==
    /\ maps \in Seq(1..MaxMessages) /\ markers \in SUBSET (1..MaxMarks)
    /\ marks \in 0..MaxMarks /\ posted \in 0..MaxMessages
    /\ edits \in Nat /\ faults \in Nat /\ hands \in Nat
    /\ DOMAIN posts \subseteq 1..posted
    /\ posts \in [DOMAIN posts -> SUBSET (1..MaxMarks)]
    /\ picture \in [Admins -> Pinned!Task]
    /\ quiet \in Admins \cup {Nil}
    /\ \A t \in Admins : picture[t].pc \in {"insert", "record"}
                            => picture[t].msg \in 1..MaxMessages

\* Markers, and interactions that show them, are there only with a row.
MapBegun ==
    /\ maps = <<>> => markers = {}
    /\ \A t \in Admins : picture[t].pc \in Picturing => maps # <<>>

Undisturbed ==
    \A t \in Admins : quiet = t =>
        /\ \A u \in Admins \ {t} : picture[u] = Pinned!Idle
        /\ picture[t].pc \in {"first", "insert"} => maps = <<>>
        /\ picture[t].pc = "insert" =>
              picture[t].msg \in DOMAIN posts /\ posts[picture[t].msg] = {}
        /\ picture[t].pc \in Picturing \ {"record"} => picture[t].msg = maps[1]
        /\ picture[t].pc \in {"fetch", "edit", "send", "record"}
              => picture[t].png = markers
        /\ picture[t].pc = "record" =>
              picture[t].msg \in DOMAIN posts /\ posts[picture[t].msg] = markers

MapInv == MapTyped /\ MapBegun /\ Undisturbed

LEMMA MapIdle ==
    /\ Pinned!Idle \in Pinned!Task /\ Pinned!Idle.pc = "idle"
    /\ MaxMarks \in Nat /\ MaxMessages \in Nat
BY PinnedAssumption DEF Pinned!Idle, Pinned!Task

LEMMA MapInit == Pinned!Init => MapInv
<1> SUFFICES ASSUME Pinned!Init PROVE MapInv
  OBVIOUS
<1>1. /\ maps = <<>> /\ markers = {} /\ posts = <<>> /\ quiet = Nil
      /\ picture = [t \in Admins |-> Pinned!Idle]
      /\ marks = 0 /\ posted = 0 /\ edits = 0 /\ faults = 0 /\ hands = 0
  BY DEF Pinned!Init
<1>2. DOMAIN posts = {} /\ posts \in [DOMAIN posts -> SUBSET (1..MaxMarks)]
  BY <1>1
<1>3. MapTyped
  BY <1>1, <1>2, MapIdle DEF MapTyped
<1>4. MapBegun /\ Undisturbed
  BY <1>1, MapIdle, NilAssumption DEF MapBegun, Undisturbed, Picturing
<1> QED BY <1>3, <1>4 DEF MapInv

\* A step of t that changes its own record and what the map is made of.
OnlyRecordOf(t, r) ==
    r \in Pinned!Task /\ picture' = [picture EXCEPT ![t] = r]

LEMMA OnlyRecord ==
    ASSUME MapTyped, NEW t \in Admins, NEW r, OnlyRecordOf(t, r)
    PROVE  /\ picture' \in [Admins -> Pinned!Task] /\ picture'[t] = r
           /\ \A u \in Admins \ {t} : picture'[u] = picture[u]
BY DEF MapTyped, OnlyRecordOf

\* The record of an interaction that goes on to another of its steps.
LEMMA GotoRecord ==
    ASSUME MapTyped, NEW t \in Admins,
           NEW pc \in {"insert", "record"} \cup Picturing \cup {"first"},
           Pinned!Goto(t, pc)
    PROVE  \E r : /\ OnlyRecordOf(t, r) /\ r.pc = pc
                  /\ r.msg = picture[t].msg /\ r.png = picture[t].png
<1> DEFINE r == [picture[t] EXCEPT !.pc = pc]
<1>1. r \in Pinned!Task /\ r.pc = pc
      /\ r.msg = picture[t].msg /\ r.png = picture[t].png
  BY DEF MapTyped, Pinned!Task, Picturing
<1>2. picture' = [picture EXCEPT ![t] = r]
  BY DEF Pinned!Goto
<1> QED BY <1>1, <1>2 DEF OnlyRecordOf

\* A message that is posted is a new one, and the others are as they were.
LEMMA NewMessage ==
    ASSUME MapTyped, NEW png \in SUBSET (1..MaxMarks), Pinned!Posts(png)
    PROVE  /\ posted' \in 1..MaxMessages /\ posted' = posted + 1
           /\ DOMAIN posts' = DOMAIN posts \cup {posted'}
           /\ DOMAIN posts' \subseteq 1..posted'
           /\ posts' \in [DOMAIN posts' -> SUBSET (1..MaxMarks)]
           /\ posts'[posted'] = png
<1>1. posted' \in 1..MaxMessages /\ posted' = posted + 1 /\ 1..posted \subseteq 1..posted'
      /\ posted' \in 1..posted'
  BY MapIdle DEF MapTyped, Pinned!Posts
<1>2. posts' = [m \in DOMAIN posts \cup {posted'} |->
                   IF m = posted' THEN png ELSE posts[m]]
  BY DEF Pinned!Posts
<1> QED BY <1>1, <1>2 DEF MapTyped

\* What preserves the invariant when one interaction, and no other, steps.
LEMMA MapStepOf ==
    ASSUME MapInv, NEW t \in Admins, NEW r, OnlyRecordOf(t, r), picture[t] # Pinned!Idle,
           quiet' = quiet,
           maps' \in Seq(1..MaxMessages), maps # <<>> => maps' # <<>>,
           markers' \in SUBSET (1..MaxMarks), maps' = <<>> => markers' = {},
           marks' \in 0..MaxMarks, posted' \in 0..MaxMessages,
           edits' \in Nat, faults' \in Nat, hands' \in Nat,
           DOMAIN posts' \subseteq 1..posted',
           posts' \in [DOMAIN posts' -> SUBSET (1..MaxMarks)],
           r.pc \in {"insert", "record"} => r.msg \in 1..MaxMessages,
           r.pc \in Picturing => maps' # <<>>,
           quiet = t =>
               /\ r.pc \in {"first", "insert"} => maps' = <<>>
               /\ r.pc = "insert" => r.msg \in DOMAIN posts' /\ posts'[r.msg] = {}
               /\ r.pc \in Picturing \ {"record"} => r.msg = maps'[1]
               /\ r.pc \in {"fetch", "edit", "send", "record"} => r.png = markers'
               /\ r.pc = "record" =>
                     r.msg \in DOMAIN posts' /\ posts'[r.msg] = markers'
    PROVE  MapInv'
<1>1. /\ picture' \in [Admins -> Pinned!Task] /\ picture'[t] = r
      /\ \A u \in Admins \ {t} : picture'[u] = picture[u]
  BY OnlyRecord DEF MapInv
<1>2. MapTyped'
  BY <1>1 DEF MapInv, MapTyped
<1>3. MapBegun'
  BY <1>1 DEF MapInv, MapBegun
<1>4. Undisturbed'
  <2> SUFFICES ASSUME NEW c \in Admins, quiet' = c
               PROVE  /\ \A u \in Admins \ {c} : picture'[u] = Pinned!Idle
                      /\ c = t
    BY <1>1 DEF Undisturbed
  <2> QED BY <1>1 DEF MapInv, Undisturbed
<1> QED BY <1>2, <1>3, <1>4 DEF MapInv

LEMMA MapBegins ==
    ASSUME MapInv, NEW t \in Admins, NEW pc \in {"first", "mark", "clear", "refresh"},
           (pc = "first") <=> (maps = <<>>), Pinned!Begins(t, pc)
    PROVE  MapInv'
<1> DEFINE r == [picture[t] EXCEPT !.pc = pc,
                                   !.msg = IF maps = <<>> THEN 0 ELSE maps[1]]
<1>1. r \in Pinned!Task /\ r.pc = pc
  <2> DEFINE msg == IF maps = <<>> THEN 0 ELSE maps[1]
  <2>1. msg \in 0..MaxMessages
    <3>1. CASE maps = <<>>
      BY <3>1, MapIdle
    <3>2. CASE maps # <<>>
      <4>1. maps \in Seq(1..MaxMessages) /\ 1 \in 1..Len(maps)
        BY <3>2, EmptySeq DEF MapInv, MapTyped
      <4>2. maps[1] \in 1..MaxMessages
        BY <4>1, ElementOfSeq
      <4> QED BY <3>2, <4>2, MapIdle
    <3> QED BY <3>1, <3>2
  <2> HIDE DEF msg
  <2>2. [picture[t] EXCEPT !.pc = pc, !.msg = msg] \in Pinned!Task
    BY <2>1 DEF MapInv, MapTyped, Pinned!Task
  <2>3. [picture[t] EXCEPT !.pc = pc, !.msg = msg].pc = pc
    BY DEF MapInv, MapTyped, Pinned!Task
  <2> QED BY <2>2, <2>3 DEF msg
<1>2. maps # <<>> => r.msg = maps[1]
  BY DEF MapInv, MapTyped, Pinned!Task
<1>3. picture' = [picture EXCEPT ![t] = r]
  BY DEF Pinned!Begins
<1> HIDE DEF r
<1>4. OnlyRecordOf(t, r)
  BY <1>1, <1>3 DEF OnlyRecordOf
<1>5. /\ picture' \in [Admins -> Pinned!Task] /\ picture'[t] = r
      /\ \A u \in Admins \ {t} : picture'[u] = picture[u]
  BY <1>4, OnlyRecord DEF MapInv
<1>6. /\ UNCHANGED <<maps, markers, posts, marks, posted, faults, hands>>
      /\ edits' = edits + 1
      /\ quiet' = IF \A u \in Admins : picture[u] = Pinned!Idle THEN t ELSE Nil
  BY DEF Pinned!Begins
<1>7. MapTyped'
  BY <1>1, <1>5, <1>6 DEF MapInv, MapTyped
<1>8. MapBegun'
  BY <1>1, <1>5, <1>6 DEF MapInv, MapBegun, Picturing
<1>9. Undisturbed'
  <2> SUFFICES ASSUME NEW c \in Admins, quiet' = c
               PROVE  /\ c = t /\ \A u \in Admins \ {t} : picture'[u] = Pinned!Idle
    BY <1>1, <1>2, <1>5, <1>6 DEF Undisturbed, Picturing
  <2> QED BY <1>5, <1>6, NilAssumption
<1> QED BY <1>7, <1>8, <1>9 DEF MapInv

LEMMA MapStep == MapInv /\ [Pinned!Next]_(Pinned!vars) => MapInv'
<1> SUFFICES ASSUME MapInv, [Pinned!Next]_(Pinned!vars) PROVE MapInv'
  OBVIOUS
<1> USE DEF Pinned!bounds
<1>a. MapTyped /\ MapBegun /\ Undisturbed
  BY DEF MapInv
<1>b. /\ maps \in Seq(1..MaxMessages) /\ markers \in SUBSET (1..MaxMarks)
      /\ marks \in 0..MaxMarks /\ posted \in 0..MaxMessages
      /\ edits \in Nat /\ faults \in Nat /\ hands \in Nat
      /\ DOMAIN posts \subseteq 1..posted
      /\ posts \in [DOMAIN posts -> SUBSET (1..MaxMarks)]
      /\ maps = <<>> => markers = {}
      /\ \A t \in Admins : picture[t] \in Pinned!Task
  BY <1>a DEF MapTyped, MapBegun
<1>1. ASSUME NEW t \in Admins, Pinned!MapCommand(t) \/ Pinned!DoMark(t) \/ Pinned!DoClear(t)
      PROVE  MapInv'
  BY <1>1, MapBegins DEF Pinned!MapCommand, Pinned!DoMark, Pinned!DoClear
\* An interaction that ends leaves nothing to be shown.
<1>2. ASSUME NEW t \in Admins, Pinned!Ends(t), picture[t] # Pinned!Idle,
             UNCHANGED <<maps, markers, posts, quiet, marks, posted, edits, hands>>,
             faults' \in Nat
      PROVE  MapInv'
  <2>1. OnlyRecordOf(t, Pinned!Idle)
    BY <1>2, MapIdle DEF Pinned!Ends, OnlyRecordOf
  <2> QED BY <1>2, <1>b, <2>1, MapIdle, MapStepOf DEF Picturing
<1>3. ASSUME NEW t \in Admins, Pinned!PostFirst(t) PROVE MapInv'
  <2> DEFINE r == [picture[t] EXCEPT !.pc = "insert", !.msg = posted']
  <2>1. /\ picture[t].pc = "first" /\ Pinned!Posts({})
        /\ picture' = [picture EXCEPT ![t] = r]
        /\ UNCHANGED <<maps, markers, quiet, marks, edits, faults, hands>>
    BY <1>3 DEF Pinned!PostFirst
  <2>2. /\ posted' \in 1..MaxMessages
        /\ DOMAIN posts' = DOMAIN posts \cup {posted'}
        /\ DOMAIN posts' \subseteq 1..posted'
        /\ posts' \in [DOMAIN posts' -> SUBSET (1..MaxMarks)]
        /\ posts'[posted'] = {}
    BY <1>a, <2>1, NewMessage
  <2>m. posted' \in 0..MaxMessages
    BY <2>2, MapIdle
  <2>3. r \in Pinned!Task /\ r.pc = "insert" /\ r.msg = posted'
    BY <1>b, <2>m DEF Pinned!Task
  <2> HIDE DEF r
  <2>4. OnlyRecordOf(t, r) /\ picture[t] # Pinned!Idle
    BY <2>1, <2>3, MapIdle DEF OnlyRecordOf
  <2>5. quiet = t => maps = <<>>
    BY <1>a, <2>1 DEF Undisturbed
  <2>6. r.pc \notin Picturing
    BY <2>3 DEF Picturing
  <2> QED BY <1>b, <2>1, <2>2, <2>3, <2>4, <2>5, <2>6, MapStepOf
<1>4. ASSUME NEW t \in Admins, Pinned!InsertMap(t) PROVE MapInv'
  <2>1. /\ picture[t].pc = "insert" /\ maps' = Append(maps, picture[t].msg)
        /\ UNCHANGED <<markers, posts, quiet, marks, posted, edits, faults, hands>>
    BY <1>4 DEF Pinned!InsertMap
  <2>2. picture[t].msg \in 1..MaxMessages
    BY <1>a, <2>1 DEF MapTyped
  <2>3. maps' \in Seq(1..MaxMessages) /\ maps' # <<>>
    BY <1>b, <2>1, <2>2
  <2>4. OnlyRecordOf(t, Pinned!Idle) /\ picture[t] # Pinned!Idle
    BY <1>4, <2>1, MapIdle DEF Pinned!InsertMap, Pinned!Ends, OnlyRecordOf
  <2> QED BY <1>b, <2>1, <2>3, <2>4, MapIdle, MapStepOf DEF Picturing
<1>5. ASSUME NEW t \in Admins, NEW pc \in Picturing \ {"record"}, Pinned!Goto(t, pc),
             picture[t].pc \in Picturing \ {"record"},
             pc \in {"fetch", "edit", "send"} =>
                picture[t].pc \in {"fetch", "edit", "send"} /\ markers' = markers,
             markers' \in SUBSET (1..MaxMarks), marks' \in 0..MaxMarks,
             faults' \in Nat,
             UNCHANGED <<maps, posts, quiet, posted, edits, hands>>
      PROVE  MapInv'
  <2>1. PICK r : /\ OnlyRecordOf(t, r) /\ r.pc = pc
                 /\ r.msg = picture[t].msg /\ r.png = picture[t].png
    BY <1>5, <1>a, GotoRecord
  <2>2. picture[t] # Pinned!Idle /\ maps # <<>>
    BY <1>5, <1>a, MapIdle DEF MapBegun, Picturing
  <2>3. pc # "first" /\ pc # "insert" /\ pc # "record"
    BY DEF Picturing
  <2>4. quiet = t =>
           /\ r.msg = maps[1]
           /\ pc \in {"fetch", "edit", "send"} => r.png = markers'
    BY <1>5, <1>a, <2>1 DEF Undisturbed
  <2> QED BY <1>5, <1>b, <2>1, <2>2, <2>3, <2>4, MapStepOf
<1>6. ASSUME NEW t \in Admins,
             Pinned!InsertMarker(t) \/ Pinned!DeleteMarkers(t)
      PROVE  MapInv'
  <2>1. markers' \in SUBSET (1..MaxMarks) /\ marks' \in 0..MaxMarks
    <3>1. CASE Pinned!InsertMarker(t)
      <4>1. marks' \in 1..MaxMarks /\ markers' = markers \cup {marks'}
        BY <1>b, <3>1, MapIdle DEF Pinned!InsertMarker
      <4> QED BY <1>b, <4>1
    <3>2. CASE Pinned!DeleteMarkers(t)
      BY <1>b, <3>2 DEF Pinned!DeleteMarkers
    <3> QED BY <1>6, <3>1, <3>2
  <2>2. /\ picture[t].pc \in {"mark", "clear"} /\ Pinned!Goto(t, "render")
        /\ UNCHANGED <<maps, posts, quiet, posted, edits, faults, hands>>
    BY <1>6 DEF Pinned!InsertMarker, Pinned!DeleteMarkers
  <2> QED BY <1>5, <1>b, <2>1, <2>2 DEF Picturing
<1>7. ASSUME NEW t \in Admins, Pinned!NoSuchMarker(t) PROVE MapInv'
  <2>1. picture[t] # Pinned!Idle
    BY <1>7, MapIdle DEF Pinned!NoSuchMarker
  <2> QED BY <1>2, <1>7, <1>b, <2>1 DEF Pinned!NoSuchMarker
<1>8. ASSUME NEW t \in Admins, Pinned!Render(t) PROVE MapInv'
  <2> DEFINE r == [picture[t] EXCEPT !.pc = "fetch", !.png = markers]
  <2>1. /\ picture[t].pc \in {"refresh", "render"}
        /\ picture' = [picture EXCEPT ![t] = r]
        /\ UNCHANGED <<maps, markers, posts, quiet, marks, posted, edits, faults, hands>>
    BY <1>8 DEF Pinned!Render
  <2>2. r \in Pinned!Task /\ r.pc = "fetch" /\ r.msg = picture[t].msg /\ r.png = markers
    BY <1>b DEF Pinned!Task
  <2> HIDE DEF r
  <2>3. OnlyRecordOf(t, r) /\ picture[t] # Pinned!Idle
    BY <2>1, <2>2, MapIdle DEF OnlyRecordOf
  <2>4. maps # <<>> /\ (quiet = t => r.msg = maps[1])
    BY <1>a, <2>1, <2>2 DEF MapBegun, Undisturbed, Picturing
  <2> QED BY <1>b, <2>1, <2>2, <2>3, <2>4, MapStepOf
<1>9. ASSUME NEW t \in Admins, Pinned!NoChannel(t) \/ Pinned!Fails(t) PROVE MapInv'
  <2>1. /\ picture[t].pc \in {"render", "first", "fetch", "send"}
        /\ Pinned!Ends(t) /\ faults' = faults + 1
        /\ UNCHANGED <<maps, markers, posts, quiet, marks, posted, edits, hands>>
    BY <1>9 DEF Pinned!NoChannel, Pinned!Fails, Pinned!Fault
  <2>2. picture[t] # Pinned!Idle /\ faults' \in Nat
    BY <1>b, <2>1, MapIdle
  <2> QED BY <1>2, <2>1, <2>2
<1>10. ASSUME NEW t \in Admins, Pinned!Fetch(t) PROVE MapInv'
  <2>1. PICK pc \in {"edit", "send"} : Pinned!Goto(t, pc)
    BY <1>10 DEF Pinned!Fetch
  <2>2. /\ picture[t].pc = "fetch"
        /\ UNCHANGED <<maps, markers, posts, quiet, marks, posted, edits, faults, hands>>
    BY <1>10 DEF Pinned!Fetch
  <2>3. pc \in Picturing \ {"record"} /\ "fetch" \in Picturing \ {"record"}
    BY DEF Picturing
  <2> QED BY <1>5, <1>b, <2>1, <2>2, <2>3
<1>11. ASSUME NEW t \in Admins, Pinned!Edit(t) PROVE MapInv'
  <2>1. /\ picture[t].pc = "edit" /\ Pinned!Ends(t)
        /\ posts' = [posts EXCEPT ![picture[t].msg] = picture[t].png]
        /\ UNCHANGED <<maps, markers, quiet, marks, posted, edits, faults, hands>>
    BY <1>11 DEF Pinned!Edit
  <2>2. picture[t].png \in SUBSET (1..MaxMarks)
    BY <1>b DEF Pinned!Task
  <2>3. DOMAIN posts' = DOMAIN posts /\ posts' \in [DOMAIN posts' -> SUBSET (1..MaxMarks)]
    BY <1>b, <2>1, <2>2
  <2>4. OnlyRecordOf(t, Pinned!Idle) /\ picture[t] # Pinned!Idle
    BY <2>1, MapIdle DEF Pinned!Ends, OnlyRecordOf
  <2> QED BY <1>b, <2>1, <2>3, <2>4, MapIdle, MapStepOf DEF Picturing
<1>12. ASSUME NEW t \in Admins, Pinned!EditFails(t) PROVE MapInv'
  <2>1. /\ picture[t].pc = "edit" /\ Pinned!Goto(t, "send") /\ faults' \in Nat
        /\ UNCHANGED <<maps, markers, posts, quiet, marks, posted, edits, hands>>
    BY <1>12, <1>b DEF Pinned!EditFails, Pinned!Fault
  <2>2. {"edit", "send"} \subseteq Picturing \ {"record"}
    BY DEF Picturing
  <2> QED BY <1>5, <1>b, <2>1, <2>2
<1>13. ASSUME NEW t \in Admins, Pinned!Send(t) PROVE MapInv'
  <2> DEFINE r == [picture[t] EXCEPT !.pc = "record", !.msg = posted']
  <2>1. /\ picture[t].pc = "send" /\ Pinned!Posts(picture[t].png)
        /\ picture' = [picture EXCEPT ![t] = r]
        /\ UNCHANGED <<maps, markers, quiet, marks, edits, faults, hands>>
    BY <1>13 DEF Pinned!Send
  <2>2. picture[t].png \in SUBSET (1..MaxMarks)
    BY <1>b DEF Pinned!Task
  <2>3. /\ posted' \in 1..MaxMessages
        /\ DOMAIN posts' = DOMAIN posts \cup {posted'}
        /\ DOMAIN posts' \subseteq 1..posted'
        /\ posts' \in [DOMAIN posts' -> SUBSET (1..MaxMarks)]
        /\ posts'[posted'] = picture[t].png
    BY <1>a, <2>1, <2>2, NewMessage
  <2>m. posted' \in 0..MaxMessages
    BY <2>3, MapIdle
  <2>4. r \in Pinned!Task /\ r.pc = "record" /\ r.msg = posted' /\ r.png = picture[t].png
    BY <1>b, <2>m DEF Pinned!Task
  <2> HIDE DEF r
  <2>5. OnlyRecordOf(t, r) /\ picture[t] # Pinned!Idle
    BY <2>1, <2>4, MapIdle DEF OnlyRecordOf
  <2>6. maps # <<>> /\ (quiet = t => picture[t].png = markers)
    BY <1>a, <2>1 DEF MapBegun, Undisturbed, Picturing
  <2> QED BY <1>b, <2>1, <2>3, <2>4, <2>5, <2>6, MapStepOf
<1>14. ASSUME NEW t \in Admins, Pinned!Record(t) PROVE MapInv'
  <2>1. /\ picture[t].pc = "record" /\ Pinned!Ends(t)
        /\ maps' = [maps EXCEPT ![1] = picture[t].msg]
        /\ UNCHANGED <<markers, posts, quiet, marks, posted, edits, faults, hands>>
    BY <1>14 DEF Pinned!Record
  <2>2. picture[t].msg \in 1..MaxMessages /\ maps # <<>>
    BY <1>a, <2>1 DEF MapTyped, MapBegun, Picturing
  <2>3. maps' \in Seq(1..MaxMessages) /\ maps' # <<>>
    BY <1>b, <2>1, <2>2
  <2>4. OnlyRecordOf(t, Pinned!Idle) /\ picture[t] # Pinned!Idle
    BY <2>1, MapIdle DEF Pinned!Ends, OnlyRecordOf
  <2> QED BY <1>b, <2>1, <2>3, <2>4, MapIdle, MapStepOf DEF Picturing
<1>15. CASE Pinned!Crash
  <2>1. /\ picture' = [t \in Admins |-> Pinned!Idle] /\ quiet' = Nil
        /\ faults' \in Nat
        /\ UNCHANGED <<maps, markers, posts, marks, posted, edits, hands>>
    BY <1>15, <1>b DEF Pinned!Crash, Pinned!Fault
  <2> QED
    BY <1>b, <2>1, MapIdle, NilAssumption
    DEF MapInv, MapTyped, MapBegun, Undisturbed, Picturing
<1>16. CASE Pinned!MessageDeleted
  <2>1. PICK m \in DOMAIN posts : posts' = [n \in DOMAIN posts \ {m} |-> posts[n]]
    BY <1>16 DEF Pinned!MessageDeleted
  <2>2. /\ quiet' = Nil /\ hands' \in Nat
        /\ UNCHANGED <<maps, markers, picture, marks, posted, edits, faults>>
    BY <1>16, <1>b DEF Pinned!MessageDeleted
  <2>3. DOMAIN posts' \subseteq 1..posted'
        /\ posts' \in [DOMAIN posts' -> SUBSET (1..MaxMarks)]
    BY <1>b, <2>1, <2>2
  <2> QED
    BY <1>a, <2>2, <2>3, NilAssumption DEF MapInv, MapTyped, MapBegun, Undisturbed
<1>17. CASE UNCHANGED Pinned!vars
  BY <1>17 DEF Pinned!vars, MapInv, MapTyped, MapBegun, Undisturbed
<1> QED
  BY <1>1, <1>3, <1>4, <1>6, <1>7, <1>8, <1>9, <1>10, <1>11, <1>12, <1>13, <1>14,
     <1>15, <1>16, <1>17
  DEF Pinned!Next

LEMMA MapInvariant == PartsSpec => []MapInv
<1>1. PartsInit => MapInv
  BY MapInit DEF PartsInit
<1>2. MapInv /\ [PartsNext]_<<part, parts>> => MapInv'
  <2>1. [PartsNext]_<<part, parts>> => [Pinned!Next]_(Pinned!vars)
    BY DEF PartsNext, parts, pinned, Pinned!vars, Pinned!bounds
  <2> QED BY <2>1, MapStep
<1> QED BY <1>1, <1>2, PTL DEF PartsSpec

\* The steps with which an interaction that has the map to itself is through.
LEMMA CompletedIsCurrent ==
    ASSUME MapInv, [Pinned!Next]_(Pinned!vars), NEW t \in Admins, quiet = t,
           Pinned!Completes(t)
    PROVE  maps'[1] \in DOMAIN posts' /\ posts'[maps'[1]] = markers'
<1> USE DEF Pinned!bounds
<1>a. /\ picture[t].pc \in {"insert", "edit", "send", "record"}
      /\ picture'[t] = Pinned!Idle /\ faults' = faults
      /\ picture'[t] # picture[t]
      /\ faults \in Nat
  BY MapIdle DEF Pinned!Completes, MapInv, MapTyped
<1>b. /\ picture[t].pc = "insert" =>
            maps = <<>> /\ markers = {} /\ picture[t].msg \in DOMAIN posts
            /\ posts[picture[t].msg] = {}
      /\ picture[t].pc # "insert" => maps # <<>> /\ picture[t].png = markers
      /\ picture[t].pc = "edit" => picture[t].msg = maps[1]
      /\ picture[t].pc = "record" =>
            picture[t].msg \in DOMAIN posts /\ posts[picture[t].msg] = markers
  BY <1>a DEF MapInv, MapBegun, Undisturbed, Picturing
<1>c. /\ \A u \in Admins \ {t} : picture[u] = Pinned!Idle
      /\ picture \in [Admins -> Pinned!Task]
  BY DEF MapInv, MapTyped, Undisturbed
<1>1. ASSUME NEW u \in Admins,
             Pinned!MapCommand(u) \/ Pinned!DoMark(u) \/ Pinned!DoClear(u)
      PROVE  FALSE
  <2>1. PICK pc : Pinned!Begins(u, pc)
    BY <1>1 DEF Pinned!MapCommand, Pinned!DoMark, Pinned!DoClear
  <2>2. /\ picture[u] = Pinned!Idle
        /\ picture' = [picture EXCEPT ![u].pc = pc,
                            ![u].msg = IF maps = <<>> THEN 0 ELSE maps[1]]
    BY <2>1 DEF Pinned!Begins
  <2>3. u # t
    BY <1>a, <2>2, MapIdle
  <2> QED BY <1>a, <1>c, <2>2, <2>3
<1>2. ASSUME NEW u \in Admins,
             \/ Pinned!PostFirst(u) \/ Pinned!InsertMarker(u) \/ Pinned!DeleteMarkers(u)
             \/ Pinned!NoSuchMarker(u) \/ Pinned!Render(u) \/ Pinned!Fetch(u)
      PROVE  FALSE
  <2>1. picture[u].pc \in {"first", "mark", "clear", "refresh", "render", "fetch"}
    BY <1>2 DEF Pinned!PostFirst, Pinned!InsertMarker, Pinned!DeleteMarkers,
                Pinned!NoSuchMarker, Pinned!Render, Pinned!Fetch
  <2> QED BY <1>a, <1>c, <2>1, MapIdle
<1>3. ASSUME NEW u \in Admins, Pinned!NoChannel(u) \/ Pinned!Fails(u) PROVE FALSE
  BY <1>3, <1>a DEF Pinned!NoChannel, Pinned!Fails, Pinned!Fault
<1>4. ASSUME NEW u \in Admins, Pinned!EditFails(u) \/ Pinned!Send(u) PROVE FALSE
  <2>1. picture[u].pc \in {"edit", "send"}
    BY <1>4 DEF Pinned!EditFails, Pinned!Send
  <2>2. u = t
    BY <1>c, <2>1, MapIdle
  <2>3. picture'[u].pc \in {"send", "record"}
    BY <1>4, <1>c DEF Pinned!EditFails, Pinned!Send, Pinned!Goto, Pinned!Task
  <2> QED BY <1>a, <2>2, <2>3, MapIdle
<1>5. ASSUME NEW u \in Admins, Pinned!InsertMap(u)
      PROVE  maps'[1] \in DOMAIN posts' /\ posts'[maps'[1]] = markers'
  <2>1. u = t
    BY <1>5, <1>c, MapIdle DEF Pinned!InsertMap
  <2>2. /\ maps' = Append(<<>>, picture[t].msg) /\ posts' = posts /\ markers' = markers
        /\ picture[t].pc = "insert"
    BY <1>5, <1>b, <2>1 DEF Pinned!InsertMap
  <2>3. maps'[1] = picture[t].msg
    BY <2>2
  <2> QED BY <1>b, <2>2, <2>3
<1>6. ASSUME NEW u \in Admins, Pinned!Edit(u)
      PROVE  maps'[1] \in DOMAIN posts' /\ posts'[maps'[1]] = markers'
  <2>1. u = t
    BY <1>6, <1>c, MapIdle DEF Pinned!Edit
  <2> QED BY <1>6, <1>b, <2>1 DEF Pinned!Edit
<1>7. ASSUME NEW u \in Admins, Pinned!Record(u)
      PROVE  maps'[1] \in DOMAIN posts' /\ posts'[maps'[1]] = markers'
  <2>1. u = t
    BY <1>7, <1>c, MapIdle DEF Pinned!Record
  <2>2. maps'[1] = picture[t].msg
    BY <1>7, <1>b, <2>1 DEF Pinned!Record, MapInv, MapTyped
  <2> QED BY <1>7, <1>b, <2>1, <2>2 DEF Pinned!Record
<1>8. CASE Pinned!Crash
  BY <1>8, <1>a DEF Pinned!Crash, Pinned!Fault
<1>9. CASE Pinned!MessageDeleted \/ UNCHANGED Pinned!vars
  BY <1>9, <1>a DEF Pinned!MessageDeleted, Pinned!vars
<1> QED
  BY <1>1, <1>2, <1>3, <1>4, <1>5, <1>6, <1>7, <1>8, <1>9 DEF Pinned!Next

\* Whatever overlapping edits, faults and crashes have left: a mark, a clear or
\* a /map that has the map to itself and runs to its end leaves the channel's
\* message showing the markers (UndisturbedRunRepairs).
THEOREM UndisturbedRunsRepair == PartsSpec => UndisturbedRunRepairs
<1>1. MapInv /\ [PartsNext]_<<part, parts>> =>
         [\A t \in Admins : quiet = t /\ Pinned!Completes(t)
              => Pinned!PictureIsCurrent']_(Pinned!vars)
  <2>1. [PartsNext]_<<part, parts>> => [Pinned!Next]_(Pinned!vars)
    BY DEF PartsNext, parts, pinned, Pinned!vars, Pinned!bounds
  <2> QED BY <2>1, CompletedIsCurrent DEF Pinned!PictureIsCurrent
<1> QED
  BY <1>1, MapInvariant, PTL
  DEF PartsSpec, UndisturbedRunRepairs, Pinned!UndisturbedRunRepairs

-----------------------------------------------------------------------------
(***************************************************************************)
(* Scaffold.  Of the applications of a template at most one is under way,  *)
(* and what it does next is what is lacking.                               *)
(***************************************************************************)
Plan(r) == Specs[r.choice.template]

Application(m) ==
    [pc : {"idle", "save", "commit", "ladder", "category", "channel", "reply"},
     wizard : BOOLEAN, choice : Wizard!Selections, at : Nat \ {0},
     home : [Wizard!Names -> 0..m]]

\* With the categories C and the channels D of m ever made: no name twice, and
\* every channel in a category there is or in none.
Tidy(C, D, m) ==
    /\ m \in Nat
    /\ C \subseteq [id : 1..m, name : Wizard!Names]
    /\ D \subseteq [id : 1..m, name : STRING, in : 0..m]
    /\ \A d \in D : d.in = 0 \/ \E c \in C : c.id = d.in
    /\ \A c, d \in C : c.id = d.id \/ c.name = d.name => c = d
    /\ \A c, d \in D : c.name = d.name /\ c.in = d.in /\ c.in # 0 => c = d

\* What an application means to create is not there.
Lacking(r, C, D) ==
    /\ r.pc \in {"category", "channel"} => r.at <= Len(Plan(r))
    /\ r.pc = "category" => /\ r.home[Plan(r)[r.at].category] = 0
                            /\ ~\E c \in C : c.name = Plan(r)[r.at].category
    /\ r.pc = "channel" => /\ r.home[Plan(r)[r.at].category] # 0
                           /\ ~\E d \in D : /\ d.name = Plan(r)[r.at].name
                                            /\ d.in = r.home[Plan(r)[r.at].category]

Fits(r, C, D, m) ==
    /\ r \in Application(m)
    /\ r.at <= Len(Plan(r)) + 1
    /\ \A n \in Wizard!Names, c \in C : c.id = r.home[n] => c.name = n
    /\ Lacking(r, C, D)

Done(s, C, D) == \E d \in D, c \in C : d.name = s.name /\ d.in = c.id /\ c.name = s.category

\* What an application that nothing disturbed has behind it.
Settled(r, C, D, written, committed) ==
    /\ r.pc = "commit" => written = r.choice.settings
    /\ r.pc \in {"ladder", "category", "channel", "reply"} => committed = r.choice.settings
    /\ \A n \in Wizard!Names : r.home[n] = 0 \/ \E c \in C : c.id = r.home[n]
    /\ r.pc \in {"category", "channel"} => \A i \in 1..(r.at - 1) : Done(Plan(r)[i], C, D)
    /\ r.pc = "reply" => \A i \in 1..Len(Plan(r)) : Done(Plan(r)[i], C, D)

WizardInv ==
    /\ view \in [open : BOOLEAN, choice : Wizard!Selections]
    /\ row \in Choices /\ kept \in Choices /\ changed \in BOOLEAN /\ alone \subseteq Admins
    /\ Tidy(cats, chans, made)
    /\ run = [h \in Admins |-> run[h]]
    /\ \A h \in Admins : /\ Fits(run[h], cats, chans, made)
                         /\ run[h] = Wizard!Idle \/ run[h].pc # "idle"
                         /\ alone = {h} => Settled(run[h], cats, chans, row, kept)
    /\ \A h, i \in Admins : run[h].pc = "idle" \/ run[i].pc = "idle" \/ h = i

-----------------------------------------------------------------------------
\* Numbers have a least one.
LEMMA Least ==
    ASSUME NEW S, S \subseteq Nat, S # {}
    PROVE  Wizard!Min(S) \in S /\ \A x \in S : Wizard!Min(S) <= x
<1> DEFINE R == {ss \in Nat \X Nat : ss[1] < ss[2]}
<1>1. IsWellFoundedOn(R, Nat)
  BY NatLessThanWellFounded DEF OpToRel
<1>2. PICK x \in S : \A y \in S : <<y, x>> \notin R
  BY <1>1, WFMin
<1>3. ASSUME NEW y \in S PROVE x <= y
  <2>1. x \in Nat /\ y \in Nat /\ <<y, x>> \notin R
    BY <1>2
  <2>2. ~(y < x)
    BY <2>1
  <2> QED BY <2>1, <2>2
<1> QED BY <1>2, <1>3 DEF Wizard!Min

LEMMA Plans ==
    ASSUME NEW r, r.choice \in Wizard!Selections
    PROVE  /\ Plan(r) \in Seq([name : STRING, category : STRING])
           /\ \A i \in 1..Len(Plan(r)) : /\ Plan(r)[i].category \in Wizard!Names
                                         /\ Plan(r)[i].name \in STRING
<1>1. r.choice.template \in Templates
  BY DEF Wizard!Selections
<1>2. Plan(r) \in Seq([name : STRING, category : STRING])
  BY <1>1, ScaffoldAssumption DEF Plan
<1>3. ASSUME NEW i \in 1..Len(Plan(r))
      PROVE  Plan(r)[i].category \in Wizard!Names /\ Plan(r)[i].name \in STRING
  <2>1. i \in DOMAIN Specs[r.choice.template]
    BY <1>2 DEF Plan
  <2>2. Plan(r)[i] \in [name : STRING, category : STRING]
    BY <1>2, ElementOfSeq
  <2> QED BY <1>1, <2>1, <2>2 DEF Plan, Wizard!Names
<1> QED BY <1>2, <1>3

LEMMA BlankChoice ==
    /\ Wizard!Blank \in Wizard!Selections
    /\ Wizard!Closed \in [open : BOOLEAN, choice : Wizard!Selections]
    /\ \A m \in Nat : Wizard!Idle \in Application(m)
    /\ Wizard!Idle.pc = "idle" /\ Wizard!Idle.at = 1
    /\ \A n \in Wizard!Names : Wizard!Idle.home[n] = 0
<1>1. PICK t \in Templates : Specs[t] = <<>>
  BY ScaffoldAssumption
<1>2. PICK s \in Choices : TRUE
  BY ScaffoldAssumption
<1> DEFINE b == [settings |-> s, template |-> t, ladder |-> FALSE]
<1>3. b \in Wizard!Selections /\ Specs[b.template] = <<>> /\ ~b.ladder
  BY <1>1 DEF Wizard!Selections
<1>4. Wizard!Blank \in Wizard!Selections
  <2> HIDE DEF b
  <2> QED BY <1>3 DEF Wizard!Blank
<1> QED BY <1>4 DEF Wizard!Closed, Wizard!Idle, Wizard!NoHome, Application

LEMMA IdleFits ==
    ASSUME NEW C, NEW D, NEW m, Tidy(C, D, m)
    PROVE  Fits(Wizard!Idle, C, D, m)
<1>1. m \in Nat /\ \A c \in C : c.id \in 1..m
  BY DEF Tidy
<1>2. Wizard!Idle.choice = Wizard!Blank
  BY DEF Wizard!Idle
<1>3. Len(Plan(Wizard!Idle)) \in Nat
  BY <1>2, BlankChoice, Plans
<1> QED BY <1>1, <1>3, BlankChoice DEF Fits, Lacking

LEMMA IdleSettled ==
    ASSUME NEW C, NEW D, NEW w, NEW k
    PROVE  Settled(Wizard!Idle, C, D, w, k)
BY BlankChoice DEF Settled

\* With more channels and categories made, an application keeps its type.
LEMMA MoreMade ==
    ASSUME NEW m \in Nat, NEW r \in Application(m)
    PROVE  r \in Application(m + 1)
BY DEF Application

-----------------------------------------------------------------------------
\* The category a channel is put in bears the name that the template gives it.
LEMMA CategoryFound ==
    ASSUME NEW C, NEW D, NEW m, Tidy(C, D, m), NEW h \in Admins,
           run[h] \in Application(m), NEW n \in Wizard!Names,
           \A c \in C : c.id = run[h].home[n] => c.name = n
    PROVE  LET k == Wizard!CategoryOf(h, n, C) IN
           /\ k \in 0..m
           /\ \A c \in C : c.id = k => c.name = n
           /\ k = 0 => ~\E c \in C : c.name = n
           /\ run[h].home[n] = 0 \/ (\E c \in C : c.id = run[h].home[n])
                 => k = 0 \/ \E c \in C : c.id = k
<1> DEFINE k == Wizard!CategoryOf(h, n, C)
           named == Wizard!Ids({c \in C : c.name = n})
<1>1. /\ m \in Nat /\ run[h].home[n] \in 0..m
      /\ \A c \in C : c.id \in 1..m
      /\ \A c, d \in C : c.id = d.id => c = d
  BY DEF Tidy, Application
<1>2. CASE run[h].home[n] # 0
  <2>1. k = run[h].home[n]
    BY <1>2 DEF Wizard!CategoryOf
  <2> QED BY <1>1, <1>2, <2>1
<1>3. CASE run[h].home[n] = 0
  <2>1. \A x : x \in named <=> \E c \in C : c.name = n /\ x = c.id
    BY DEF Wizard!Ids
  <2>2. CASE named = {}
    <3>1. k = 0
      BY <1>3, <2>2 DEF Wizard!CategoryOf
    <3>2. ~\E c \in C : c.name = n
      <4> HIDE DEF named
      <4> QED BY <2>1, <2>2
    <3> HIDE DEF k
    <3>3. k \in 0..m /\ \A c \in C : c.id # k
      BY <1>1, <3>1
    <3> QED BY <3>1, <3>2, <3>3 DEF k
  <2>3. CASE named # {}
    <3>1. k = Wizard!Min(named)
      BY <1>3, <2>3 DEF Wizard!CategoryOf
    <3> HIDE DEF named, k
    <3>2. named \subseteq Nat
      BY <1>1, <2>1
    <3>3. k \in named
      BY <2>3, <3>1, <3>2, Least
    <3>4. PICK c \in C : c.name = n /\ k = c.id
      BY <2>1, <3>3
    <3>5. /\ k \in 1..m /\ \E d \in C : d.id = k
          /\ \A d \in C : d.id = k => d.name = n
      BY <1>1, <3>4
    <3> QED BY <1>1, <3>5 DEF k
  <2> QED BY <2>2, <2>3
<1> QED BY <1>2, <1>3

\* On to what is lacking next: it is not there, and all before it is.
LEMMA ProceedFits ==
    ASSUME NEW C, NEW D, NEW m, Tidy(C, D, m), NEW h \in Admins,
           run = [g \in Admins |-> run[g]], run[h] \in Application(m),
           \A n \in Wizard!Names, c \in C : c.id = run[h].home[n] => c.name = n,
           NEW i \in Nat \ {0}, i <= Len(Plan(run[h])) + 1,
           Wizard!Proceed(h, i, C, D)
    PROVE  \E r :
              /\ run' = [run EXCEPT ![h] = r]
              /\ Fits(r, C, D, m)
              /\ r.choice = run[h].choice
              /\ r.pc \in {"category", "channel", "reply"}
              /\ \/ \E n \in Wizard!Names : /\ run[h].home[n] # 0
                                            /\ ~\E c \in C : c.id = run[h].home[n]
                 \/ \E j \in 1..(i - 1) : ~Done(Plan(r)[j], C, D)
                 \/ /\ \A n \in Wizard!Names :
                          r.home[n] = 0 \/ \E c \in C : c.id = r.home[n]
                    /\ r.pc # "reply" => \A j \in 1..(r.at - 1) : Done(Plan(r)[j], C, D)
                    /\ r.pc = "reply" => \A j \in 1..Len(Plan(r)) : Done(Plan(r)[j], C, D)
<1> DEFINE p == Plan(run[h])
           L == Wizard!Last(h)
           lacking == {j \in i..L : Wizard!Lacks(h, j, C, D)}
           next == IF lacking = {} THEN L + 1 ELSE Wizard!Min(lacking)
           met == {Wizard!Entry(h, j).category : j \in {k \in i..L : k <= next}}
           home == [n \in Wizard!Names |-> IF n \in met THEN Wizard!CategoryOf(h, n, C)
                                           ELSE run[h].home[n]]
           pc == IF next > L THEN "reply"
                 ELSE IF home[Wizard!Entry(h, next).category] = 0 THEN "category"
                 ELSE "channel"
           r == [run[h] EXCEPT !.at = next, !.home = home, !.pc = pc]
<1>1. /\ L \in Nat /\ m \in Nat /\ run[h].home \in [Wizard!Names -> 0..m]
      /\ \A j \in 1..L : p[j].category \in Wizard!Names
      /\ \A j : Wizard!Entry(h, j) = p[j]
      /\ L = Len(p)
  <2>1. run[h].choice \in Wizard!Selections /\ run[h].home \in [Wizard!Names -> 0..m]
    BY DEF Application
  <2>2. m \in Nat
    BY DEF Tidy
  <2>3. Len(p) \in Nat /\ \A j \in 1..Len(p) : p[j].category \in Wizard!Names
    BY <2>1, Plans
  <2> QED BY <2>1, <2>2, <2>3 DEF Plan, Wizard!Entry, Wizard!Last
<1>2. run' = [run EXCEPT ![h].at = next, ![h].home = home, ![h].pc = pc]
  BY DEF Wizard!Proceed
<1>3. run' = [run EXCEPT ![h] = r]
  <2> HIDE DEF next, home, pc
  <2> QED BY <1>2 DEF Application
<1>4. /\ next \in i..(L + 1)
      /\ next <= L => Wizard!Lacks(h, next, C, D)
      /\ \A j \in i..L : j < next => ~Wizard!Lacks(h, j, C, D)
  <2>1. CASE lacking = {}
    BY <1>1, <2>1
  <2>2. CASE lacking # {}
    <3>1. lacking \subseteq Nat
      BY <1>1
    <3>2. next = Wizard!Min(lacking)
      BY <2>2
    <3>3. next \in lacking /\ \A j \in lacking : next <= j
      <4> HIDE DEF lacking, next
      <4> QED BY <2>2, <3>1, <3>2, Least
    <3> HIDE DEF next
    <3> QED BY <1>1, <3>3
  <2> QED BY <2>1, <2>2
<1> HIDE DEF lacking, next
<1>5. ASSUME NEW n \in Wizard!Names
      PROVE  /\ Wizard!CategoryOf(h, n, C) \in 0..m
             /\ \A c \in C : c.id = Wizard!CategoryOf(h, n, C) => c.name = n
             /\ Wizard!CategoryOf(h, n, C) = 0 => ~\E c \in C : c.name = n
             /\ run[h].home[n] = 0 \/ (\E c \in C : c.id = run[h].home[n])
                   => \/ Wizard!CategoryOf(h, n, C) = 0
                      \/ \E c \in C : c.id = Wizard!CategoryOf(h, n, C)
  BY CategoryFound
<1>6. /\ home \in [Wizard!Names -> 0..m]
      /\ \A n \in Wizard!Names, c \in C : c.id = home[n] => c.name = n
      /\ \A n \in met : n \in Wizard!Names => home[n] = Wizard!CategoryOf(h, n, C)
  BY <1>1, <1>5
<1>7. next <= L => /\ p[next].category \in met /\ p[next].category \in Wizard!Names
                   /\ home[p[next].category] = Wizard!CategoryOf(h, p[next].category, C)
  <2> SUFFICES ASSUME next <= L
               PROVE  p[next].category \in met /\ p[next].category \in Wizard!Names
    BY <1>6
  <2>1. next \in i..L /\ next <= next /\ next \in 1..L
    BY <1>1, <1>4
  <2> QED BY <1>1, <2>1
<1> HIDE DEF met, home
<1>8. /\ r \in Application(m) /\ r.choice = run[h].choice /\ r.at = next /\ r.pc = pc
      /\ r.home = home /\ Plan(r) = p
      /\ pc \in {"category", "channel", "reply"} /\ (pc = "reply" <=> next > L)
  <2>1. next \in Nat \ {0}
    BY <1>1, <1>4
  <2> QED BY <1>6, <2>1 DEF Application, Plan
<1>9. Lacking(r, C, D)
  <2>1. pc # "reply" => next <= L
    BY <1>1, <1>4, <1>8
  <2>2. pc = "category" => /\ home[p[next].category] = 0
                           /\ ~\E c \in C : c.name = p[next].category
    BY <1>1, <1>5, <1>7, <2>1
  <2>3. pc = "channel" => /\ home[p[next].category] # 0
                          /\ ~\E d \in D : /\ d.name = p[next].name
                                           /\ d.in = home[p[next].category]
    BY <1>1, <1>4, <1>7, <2>1 DEF Wizard!Lacks
  <2> HIDE DEF r, pc, p, L
  <2> QED BY <1>8, <2>1, <2>2, <2>3, <1>1 DEF Lacking
<1>10. Fits(r, C, D, m)
  <2> HIDE DEF r, pc
  <2> QED BY <1>1, <1>4, <1>6, <1>8, <1>9 DEF Fits
<1>11. ASSUME \A n \in Wizard!Names :
                 run[h].home[n] = 0 \/ \E c \in C : c.id = run[h].home[n]
       PROVE  /\ \A n \in Wizard!Names : home[n] = 0 \/ \E c \in C : c.id = home[n]
              /\ \A j \in i..L : j < next => Done(p[j], C, D)
  <2>1. \A n \in Wizard!Names : home[n] = 0 \/ \E c \in C : c.id = home[n]
    BY <1>5, <1>11 DEF home
  <2>2. ASSUME NEW j \in i..L, j < next PROVE Done(p[j], C, D)
    <3> DEFINE n == p[j].category
               k == Wizard!CategoryOf(h, n, C)
    <3>1. n \in Wizard!Names
      BY <1>1
    <3>2. k # 0 /\ \E d \in D : d.name = p[j].name /\ d.in = k
      BY <1>1, <1>4, <2>2 DEF Wizard!Lacks
    <3>3. \E c \in C : c.id = k /\ c.name = n
      BY <1>5, <1>11, <3>1, <3>2
    <3> QED BY <3>2, <3>3 DEF Done
  <2> QED BY <2>1, <2>2
<1>12. ASSUME \A n \in Wizard!Names :
                 run[h].home[n] = 0 \/ \E c \in C : c.id = run[h].home[n],
              \A j \in 1..(i - 1) : Done(p[j], C, D)
       PROVE  \A j \in 1..(next - 1) : j \in 1..L => Done(p[j], C, D)
  <2> SUFFICES ASSUME NEW j \in 1..(next - 1), j \in 1..L PROVE Done(p[j], C, D)
    OBVIOUS
  <2>1. CASE j < i
    BY <1>12, <2>1
  <2>2. CASE j >= i
    <3>1. j \in i..L /\ j < next
      BY <1>1, <1>4, <2>2
    <3> QED BY <1>11, <1>12, <3>1
  <2> QED BY <2>1, <2>2
<1> HIDE DEF r, pc, p
<1>13. \/ \E n \in Wizard!Names : /\ run[h].home[n] # 0
                                  /\ ~\E c \in C : c.id = run[h].home[n]
       \/ \E j \in 1..(i - 1) : ~Done(p[j], C, D)
       \/ /\ \A n \in Wizard!Names :
                r.home[n] = 0 \/ \E c \in C : c.id = r.home[n]
          /\ r.pc # "reply" => \A j \in 1..(r.at - 1) : Done(p[j], C, D)
          /\ r.pc = "reply" => \A j \in 1..L : Done(p[j], C, D)
  <2> SUFFICES ASSUME \A n \in Wizard!Names :
                         run[h].home[n] = 0 \/ \E c \in C : c.id = run[h].home[n],
                      \A j \in 1..(i - 1) : Done(p[j], C, D)
               PROVE  /\ \A n \in Wizard!Names :
                            r.home[n] = 0 \/ \E c \in C : c.id = r.home[n]
                      /\ r.pc # "reply" => \A j \in 1..(r.at - 1) : Done(p[j], C, D)
                      /\ r.pc = "reply" => \A j \in 1..L : Done(p[j], C, D)
    OBVIOUS
  <2>1. \A j \in 1..(next - 1) : j \in 1..L => Done(p[j], C, D)
    BY <1>12
  <2>2. next \in 1..(L + 1) /\ L \in Nat
    BY <1>1, <1>4
  <2>3. \A j \in 1..(next - 1) : j \in 1..L
    BY <2>2
  <2>4. next > L => \A j \in 1..L : j \in 1..(next - 1)
    BY <2>2
  <2> QED BY <1>8, <1>11, <2>1, <2>3, <2>4
<1> QED BY <1>1, <1>3, <1>8, <1>10, <1>13

-----------------------------------------------------------------------------
\* The step of one application, the only one there is.
LEMMA ApplicationStep ==
    ASSUME WizardInv, NEW h \in Admins,
           \A i \in Admins : i # h => run[i].pc = "idle",
           NEW r, run' = [run EXCEPT ![h] = r],
           r = Wizard!Idle \/ r.pc # "idle",
           Tidy(cats', chans', made'), Fits(r, cats', chans', made'),
           alone' = {h} => Settled(r, cats', chans', row', kept'),
           view' \in [open : BOOLEAN, choice : Wizard!Selections],
           row' \in Choices, kept' \in Choices, changed' \in BOOLEAN,
           alone' \subseteq Admins
    PROVE  WizardInv'
<1>1. /\ run = [i \in Admins |-> run[i]]
      /\ \A i \in Admins : i # h => run[i] = Wizard!Idle
  BY DEF WizardInv
<1>2. /\ run' = [i \in Admins |-> run'[i]] /\ run'[h] = r
      /\ \A i \in Admins : i # h => run'[i] = Wizard!Idle
  <2>1. \A i \in Admins : run'[i] = IF i = h THEN r ELSE run[i]
    BY <1>1
  <2>2. run' = [i \in Admins |-> IF i = h THEN r ELSE run[i]]
    BY <1>1
  <2> QED BY <1>1, <2>1, <2>2
<1>3. ASSUME NEW i \in Admins
      PROVE  /\ Fits(run'[i], cats', chans', made')
             /\ run'[i] = Wizard!Idle \/ run'[i].pc # "idle"
             /\ alone' = {i} => Settled(run'[i], cats', chans', row', kept')
  <2>1. CASE i = h
    BY <1>2, <2>1
  <2>2. CASE i # h
    <3>1. run'[i] = Wizard!Idle
      BY <1>2, <2>2
    <3> QED BY <3>1, IdleFits, IdleSettled
  <2> QED BY <2>1, <2>2
<1>4. \A g, i \in Admins : run'[g].pc = "idle" \/ run'[i].pc = "idle" \/ g = i
  BY <1>2, BlankChoice
<1> QED BY <1>2, <1>3, <1>4 DEF WizardInv

\* No application is under way, or all that there were have ended.
LEMMA NoneUnderWay ==
    ASSUME WizardInv, run' = [h \in Admins |-> Wizard!Idle],
           UNCHANGED <<cats, chans, made, kept, changed, alone>>, row' \in Choices,
           view' \in [open : BOOLEAN, choice : Wizard!Selections]
    PROVE  WizardInv'
<1>1. Tidy(cats', chans', made')
  BY DEF WizardInv
<1>2. \A h \in Admins : run'[h] = Wizard!Idle
  OBVIOUS
<1>3. run' = [h \in Admins |-> run'[h]]
  BY <1>2
<1> QED BY <1>1, <1>2, <1>3, IdleFits, IdleSettled, BlankChoice DEF WizardInv

\* A wizard is closed by the application that was begun in it, at its end.
LEMMA StopsTyped ==
    ASSUME WizardInv, NEW h \in Admins, Wizard!Stops(h)
    PROVE  view' \in [open : BOOLEAN, choice : Wizard!Selections]
BY BlankChoice DEF WizardInv, Wizard!Stops

LEMMA OthersIdle ==
    ASSUME WizardInv, NEW h \in Admins, run[h].pc # "idle"
    PROVE  \A i \in Admins : i # h => run[i].pc = "idle"
BY DEF WizardInv

LEMMA BeginsFits ==
    ASSUME OneAtATime, WizardInv, NEW h \in Admins, NEW c \in Wizard!Selections,
           NEW w \in BOOLEAN, Wizard!Begins(h, c, w)
    PROVE  WizardInv'
<1> DEFINE r == [Wizard!Idle EXCEPT !.pc = "save", !.wizard = w, !.choice = c]
<1>1. /\ \A i \in Admins : run[i] = Wizard!Idle
      /\ run' = [run EXCEPT ![h] = r] /\ alone' = {h}
      /\ UNCHANGED <<view, row, kept, cats, chans, changed, made>>
  BY DEF Wizard!Begins
<1>2. Tidy(cats, chans, made) /\ made \in Nat
  BY DEF WizardInv, Tidy
<1>3. /\ r \in Application(made) /\ r.pc = "save" /\ r.choice = c /\ r.at = 1
      /\ \A n \in Wizard!Names : r.home[n] = 0
  <2>1. Wizard!Idle \in Application(made)
    BY <1>2, BlankChoice
  <2> QED BY <2>1, BlankChoice DEF Application
<1> HIDE DEF r
<1>4. Fits(r, cats, chans, made)
  <2>1. Len(Plan(r)) \in Nat
    BY <1>3, Plans
  <2>2. \A n \in Wizard!Names, x \in cats : x.id # r.home[n]
    BY <1>2, <1>3 DEF Tidy
  <2> QED BY <1>3, <2>1, <2>2 DEF Fits, Lacking
<1>5. Settled(r, cats, chans, row, kept)
  BY <1>3 DEF Settled
<1>6. \A i \in Admins : run[i].pc = "idle"
  BY <1>1, BlankChoice
<1>7. /\ view \in [open : BOOLEAN, choice : Wizard!Selections]
      /\ row \in Choices /\ kept \in Choices /\ changed \in BOOLEAN
  BY DEF WizardInv
<1> QED BY <1>1, <1>2, <1>3, <1>4, <1>5, <1>6, <1>7, ApplicationStep

LEMMA SaveFits ==
    ASSUME WizardInv, NEW h \in Admins, Wizard!Save(h)
    PROVE  WizardInv'
<1> DEFINE r == [run[h] EXCEPT !.pc = "commit"]
<1>1. /\ run[h].pc = "save" /\ row' = run[h].choice.settings
      /\ changed' = (changed \/ run[h].wizard)
      /\ UNCHANGED <<view, kept, cats, chans, alone, made>>
      /\ run' = [run EXCEPT ![h].pc = "commit"]
  BY DEF Wizard!Save, Wizard!bounds
<1>2. /\ Fits(run[h], cats, chans, made) /\ Tidy(cats, chans, made)
      /\ alone = {h} => Settled(run[h], cats, chans, row, kept)
      /\ view \in [open : BOOLEAN, choice : Wizard!Selections]
      /\ kept \in Choices /\ changed \in BOOLEAN /\ alone \subseteq Admins
  BY DEF WizardInv
<1>3. run[h] \in Application(made) /\ run[h].choice.settings \in Choices
      /\ run[h].wizard \in BOOLEAN
  BY <1>2 DEF Fits, Application, Wizard!Selections
<1>4. /\ r \in Application(made) /\ r.pc = "commit" /\ r.choice = run[h].choice
      /\ r.home = run[h].home /\ r.at = run[h].at
  BY <1>3 DEF Application
<1>5. run' = [run EXCEPT ![h] = r]
  BY <1>1
<1> HIDE DEF r
<1>6. Fits(r, cats, chans, made)
  <2>1. Plan(r) = Plan(run[h])
    BY <1>4 DEF Plan
  <2> QED BY <1>2, <1>4, <2>1 DEF Fits, Lacking
<1>7. alone = {h} => Settled(r, cats, chans, row', kept)
  BY <1>1, <1>2, <1>4 DEF Settled
<1>8. \A i \in Admins : i # h => run[i].pc = "idle"
  BY <1>1, OthersIdle
<1>9. changed' \in BOOLEAN
  BY <1>1, <1>2, <1>3
<1> QED BY <1>1, <1>2, <1>3, <1>4, <1>5, <1>6, <1>7, <1>8, <1>9, ApplicationStep

LEMMA CommitFits ==
    ASSUME WizardInv, NEW h \in Admins, Wizard!Commit(h)
    PROVE  WizardInv'
<1> DEFINE more == Specs[run[h].choice.template] # <<>> \/ run[h].choice.ladder
           pc == IF more THEN "ladder" ELSE "reply"
           r == [run[h] EXCEPT !.pc = pc]
<1>1. /\ run[h].pc = "commit" /\ kept' = row
      /\ UNCHANGED <<row, cats, chans, changed, alone, made>>
      /\ run' = [run EXCEPT ![h].pc = pc]
      /\ Wizard!Stops(h)
  BY DEF Wizard!Commit, Wizard!bounds
<1>2. /\ Fits(run[h], cats, chans, made) /\ Tidy(cats, chans, made)
      /\ alone = {h} => Settled(run[h], cats, chans, row, kept)
      /\ row \in Choices /\ changed \in BOOLEAN /\ alone \subseteq Admins
  BY DEF WizardInv
<1>3. run[h] \in Application(made)
  BY <1>2 DEF Fits
<1>4. /\ pc \in {"ladder", "reply"}
      /\ pc = "reply" => Plan(run[h]) = <<>>
  BY DEF Plan
<1> HIDE DEF pc
<1>5. /\ r \in Application(made) /\ r.pc = pc /\ r.choice = run[h].choice
      /\ r.home = run[h].home /\ r.at = run[h].at
  BY <1>3, <1>4 DEF Application
<1>6. run' = [run EXCEPT ![h] = r]
  BY <1>1
<1> HIDE DEF r
<1>7. Fits(r, cats, chans, made)
  BY <1>2, <1>4, <1>5 DEF Fits, Lacking, Plan
<1>8. alone = {h} => Settled(r, cats, chans, row, kept')
  <2>1. Plan(r) = Plan(run[h])
    BY <1>5 DEF Plan
  <2>2. pc = "reply" => 1..Len(Plan(r)) = {}
    BY <1>4, <2>1
  <2> QED BY <1>1, <1>2, <1>4, <1>5, <2>2 DEF Settled
<1>9. \A i \in Admins : i # h => run[i].pc = "idle"
  BY <1>1, OthersIdle
<1> QED BY <1>1, <1>2, <1>4, <1>5, <1>6, <1>7, <1>8, <1>9, StopsTyped, ApplicationStep

-----------------------------------------------------------------------------
\* On to the next spec, with the channels that there are by now.
LEMMA ProceedStep ==
    ASSUME WizardInv, NEW h \in Admins, run[h].pc \in {"ladder", "category", "channel"},
           UNCHANGED <<row, kept, changed, cats>>, alone' = alone \/ alone' = {},
           made' \in Nat, made <= made', Tidy(cats, chans', made'),
           NEW i \in Nat \ {0}, i <= Len(Plan(run[h])) + 1,
           Wizard!Proceed(h, i, cats, chans'),
           alone' = {h} => \A j \in 1..(i - 1) : Done(Plan(run[h])[j], cats, chans')
    PROVE  WizardInv'
<1>1. /\ Fits(run[h], cats, chans, made) /\ made \in Nat
      /\ alone = {h} => Settled(run[h], cats, chans, row, kept)
      /\ row \in Choices /\ kept \in Choices /\ changed \in BOOLEAN
      /\ alone \subseteq Admins /\ run = [g \in Admins |-> run[g]]
  BY DEF WizardInv, Tidy
<1>2. /\ run[h] \in Application(made')
      /\ \A n \in Wizard!Names, c \in cats : c.id = run[h].home[n] => c.name = n
  <2>1. run[h] \in Application(made)
    BY <1>1 DEF Fits
  <2>2. 0..made \subseteq 0..made'
    BY <1>1
  <2>3. run[h] \in Application(made')
    BY <2>1, <2>2 DEF Application
  <2> QED BY <1>1, <2>3 DEF Fits
<1>3. PICK r :
         /\ run' = [run EXCEPT ![h] = r]
         /\ Fits(r, cats, chans', made')
         /\ r.choice = run[h].choice
         /\ r.pc \in {"category", "channel", "reply"}
         /\ \/ \E n \in Wizard!Names : /\ run[h].home[n] # 0
                                       /\ ~\E c \in cats : c.id = run[h].home[n]
            \/ \E j \in 1..(i - 1) : ~Done(Plan(r)[j], cats, chans')
            \/ /\ \A n \in Wizard!Names :
                     r.home[n] = 0 \/ \E c \in cats : c.id = r.home[n]
               /\ r.pc # "reply" => \A j \in 1..(r.at - 1) : Done(Plan(r)[j], cats, chans')
               /\ r.pc = "reply" => \A j \in 1..Len(Plan(r)) : Done(Plan(r)[j], cats, chans')
  BY <1>1, <1>2, ProceedFits
<1>4. Plan(r) = Plan(run[h])
  BY <1>3 DEF Plan
<1>5. alone' = {h} => Settled(r, cats, chans', row, kept)
  <2> SUFFICES ASSUME alone' = {h} PROVE Settled(r, cats, chans', row, kept)
    OBVIOUS
  <2>1. /\ \A n \in Wizard!Names :
              run[h].home[n] = 0 \/ \E c \in cats : c.id = run[h].home[n]
        /\ kept = run[h].choice.settings
    <3>1. alone = {h}
      OBVIOUS
    <3> QED BY <1>1, <3>1 DEF Settled
  <2>2. \A j \in 1..(i - 1) : Done(Plan(r)[j], cats, chans')
    BY <1>4
  <2> QED BY <1>3, <2>1, <2>2 DEF Settled
<1>6. \A g \in Admins : g # h => run[g].pc = "idle"
  BY OthersIdle
<1>7. Wizard!Stops(h)
  BY DEF Wizard!Proceed
<1>8. view' \in [open : BOOLEAN, choice : Wizard!Selections]
  BY <1>7, StopsTyped
<1>9. r.pc # "idle" /\ alone' \subseteq Admins /\ Tidy(cats', chans', made')
      /\ Fits(r, cats', chans', made')
  BY <1>1, <1>3
<1> QED BY <1>1, <1>3, <1>5, <1>6, <1>8, <1>9, ApplicationStep

LEMMA LadderFits ==
    ASSUME WizardInv, NEW h \in Admins, Wizard!Ladder(h)
    PROVE  WizardInv'
<1>1. /\ run[h].pc = "ladder" /\ Wizard!Proceed(h, 1, cats, chans)
      /\ UNCHANGED <<row, kept, cats, chans, changed, alone, made>>
  BY DEF Wizard!Ladder, Wizard!bounds
<1>2. made \in Nat /\ Tidy(cats, chans, made) /\ Fits(run[h], cats, chans, made)
  BY DEF WizardInv, Tidy
<1>3. Len(Plan(run[h])) \in Nat
  BY <1>2, Plans DEF Fits, Application
<1>4. 1 \in Nat \ {0} /\ 1 <= Len(Plan(run[h])) + 1 /\ 1..(1 - 1) = {} /\ made <= made'
  BY <1>1, <1>2, <1>3
<1>5. Wizard!Proceed(h, 1, cats, chans') /\ Tidy(cats, chans', made') /\ made' \in Nat
  BY <1>1, <1>2
<1> QED BY <1>1, <1>4, <1>5, ProceedStep

LEMMA RefusedFits ==
    ASSUME WizardInv, NEW h \in Admins, Wizard!Refused(h)
    PROVE  WizardInv'
<1> DEFINE i == run[h].at + 1
<1>1. /\ run[h].pc \in {"category", "channel"} /\ Wizard!Proceed(h, i, cats, chans)
      /\ alone' = {} /\ UNCHANGED <<row, kept, cats, chans, changed, made>>
  BY DEF Wizard!Refused
<1>2. made \in Nat /\ Tidy(cats, chans, made) /\ Fits(run[h], cats, chans, made)
  BY DEF WizardInv, Tidy
<1>3. /\ run[h].at \in Nat \ {0} /\ run[h].at <= Len(Plan(run[h]))
      /\ Len(Plan(run[h])) \in Nat
  BY <1>1, <1>2, Plans DEF Fits, Lacking, Application
<1>4. i \in Nat \ {0} /\ i <= Len(Plan(run[h])) + 1 /\ made <= made'
  BY <1>1, <1>2, <1>3
<1>5. Wizard!Proceed(h, i, cats, chans') /\ Tidy(cats, chans', made') /\ made' \in Nat
  BY <1>1, <1>2
<1>6. alone' # {h}
  BY <1>1
<1> HIDE DEF i
<1> QED BY <1>1, <1>4, <1>5, <1>6, ProceedStep

LEMMA CreateChannelFits ==
    ASSUME WizardInv, NEW h \in Admins, Wizard!CreateChannel(h)
    PROVE  WizardInv'
<1> DEFINE p == Plan(run[h])
           at == run[h].at
           s == p[at]
           c == run[h].home[s.category]
           new == [id |-> made + 1, name |-> s.name, in |-> c]
<1>1. /\ run[h].pc = "channel" /\ c \in Wizard!Ids(cats)
      /\ made' = made + 1 /\ chans' = chans \cup {new}
      /\ Wizard!Proceed(h, at + 1, cats, chans')
      /\ UNCHANGED <<row, kept, cats, changed, alone>>
  BY DEF Wizard!CreateChannel, Wizard!Entry, Plan
<1>2. /\ made \in Nat /\ Tidy(cats, chans, made) /\ Fits(run[h], cats, chans, made)
      /\ alone = {h} => Settled(run[h], cats, chans, row, kept)
  BY DEF WizardInv, Tidy
<1>3. /\ at \in Nat \ {0} /\ at <= Len(p) /\ Len(p) \in Nat
      /\ s.category \in Wizard!Names /\ s.name \in STRING
      /\ c # 0 /\ ~\E d \in chans : d.name = s.name /\ d.in = c
  <2>1. run[h].choice \in Wizard!Selections /\ at \in Nat \ {0} /\ at <= Len(p)
        /\ c # 0 /\ ~\E d \in chans : d.name = s.name /\ d.in = c
    BY <1>1, <1>2 DEF Fits, Lacking, Application
  <2>2. at \in 1..Len(p)
    BY <2>1, Plans
  <2> QED BY <2>1, <2>2, Plans
<1>4. PICK k \in cats : k.id = c
  BY <1>1 DEF Wizard!Ids
<1>5. k.id \in 1..made /\ k.name = s.category
  BY <1>2, <1>3, <1>4 DEF Tidy, Fits
<1> HIDE DEF s, c
<1>6. Tidy(cats, chans', made')
  <2>1. /\ made' \in Nat /\ 1..made \subseteq 1..made' /\ 0..made \subseteq 0..made'
        /\ made' \in 1..made' /\ c \in 0..made'
    BY <1>1, <1>2, <1>4, <1>5
  <2>2. new \in [id : 1..made', name : STRING, in : 0..made']
    BY <1>1, <1>3, <2>1
  <2>3. /\ cats \subseteq [id : 1..made, name : Wizard!Names]
        /\ chans \subseteq [id : 1..made, name : STRING, in : 0..made]
    BY <1>2 DEF Tidy
  <2>4. /\ cats \subseteq [id : 1..made', name : Wizard!Names]
        /\ chans' \subseteq [id : 1..made', name : STRING, in : 0..made']
    BY <1>1, <2>1, <2>2, <2>3
  <2>5. \A d \in chans' : d.in = 0 \/ \E x \in cats : x.id = d.in
    BY <1>1, <1>2, <1>4 DEF Tidy
  <2>6. \A x, y \in chans' : x.name = y.name /\ x.in = y.in /\ x.in # 0 => x = y
    <3>1. new.name = s.name /\ new.in = c
      OBVIOUS
    <3> HIDE DEF new
    <3> QED BY <1>1, <1>2, <1>3, <3>1 DEF Tidy
  <2> QED BY <1>2, <2>1, <2>4, <2>5, <2>6 DEF Tidy
<1>7. alone = {h} => \A j \in 1..at : Done(p[j], cats, chans')
  <2> SUFFICES ASSUME alone = {h}, NEW j \in 1..at PROVE Done(p[j], cats, chans')
    OBVIOUS
  <2>1. CASE j = at
    <3>1. new \in chans' /\ new.name = s.name /\ new.in = k.id
      BY <1>1, <1>4
    <3>2. Done(s, cats, chans')
      BY <1>5, <3>1 DEF Done
    <3> QED BY <2>1, <3>2 DEF s
  <2>2. CASE j # at
    <3>1. j \in 1..(at - 1)
      BY <1>3, <2>2
    <3>2. Done(p[j], cats, chans)
      BY <1>1, <1>2, <3>1 DEF Settled
    <3> QED BY <1>1, <3>2 DEF Done
  <2> QED BY <2>1, <2>2
<1>8. /\ at + 1 \in Nat \ {0} /\ at + 1 <= Len(p) + 1 /\ made <= made' /\ made' \in Nat
      /\ (at + 1) - 1 = at
  BY <1>1, <1>2, <1>3
<1>9. /\ run[h].pc \in {"ladder", "category", "channel"}
      /\ UNCHANGED <<row, kept, changed, cats>> /\ alone' = alone
      /\ Wizard!Proceed(h, at + 1, cats, chans')
  BY <1>1
<1>10. alone' = {h} => \A j \in 1..((at + 1) - 1) : Done(p[j], cats, chans')
  BY <1>7, <1>8, <1>9
<1> HIDE DEF at
<1> QED BY <1>6, <1>8, <1>9, <1>10, ProceedStep

LEMMA CreateCategoryFits ==
    ASSUME WizardInv, NEW h \in Admins, Wizard!CreateCategory(h)
    PROVE  WizardInv'
<1> DEFINE p == Plan(run[h])
           n == p[run[h].at].category
           new == [id |-> made + 1, name |-> n]
           home == [run[h].home EXCEPT ![n] = made + 1]
           r == [run[h] EXCEPT !.pc = "channel", !.home = home]
<1>1. /\ run[h].pc = "category" /\ made' = made + 1 /\ cats' = cats \cup {new}
      /\ run' = [run EXCEPT ![h].pc = "channel", ![h].home[n] = made + 1]
      /\ UNCHANGED <<view, row, kept, chans, changed, alone>>
  BY DEF Wizard!CreateCategory, Wizard!Entry, Plan
<1>2. /\ made \in Nat /\ Tidy(cats, chans, made) /\ Fits(run[h], cats, chans, made)
      /\ run = [g \in Admins |-> run[g]]
      /\ alone = {h} => Settled(run[h], cats, chans, row, kept)
      /\ view \in [open : BOOLEAN, choice : Wizard!Selections]
      /\ row \in Choices /\ kept \in Choices /\ changed \in BOOLEAN
      /\ alone \subseteq Admins
  BY DEF WizardInv, Tidy
<1>3. /\ run[h] \in Application(made) /\ run[h].home \in [Wizard!Names -> 0..made]
      /\ run[h].at \in Nat \ {0} /\ run[h].at <= Len(p) /\ n \in Wizard!Names
      /\ run[h].home[n] = 0 /\ ~\E c \in cats : c.name = n
  <2>1. /\ run[h] \in Application(made) /\ run[h].home \in [Wizard!Names -> 0..made]
        /\ run[h].at \in Nat \ {0} /\ run[h].at <= Len(p)
        /\ run[h].home[n] = 0 /\ ~\E c \in cats : c.name = n
        /\ run[h].choice \in Wizard!Selections
    BY <1>1, <1>2 DEF Fits, Lacking, Application
  <2>2. run[h].at \in 1..Len(p)
    BY <2>1, Plans
  <2> QED BY <2>1, <2>2, Plans
<1>4. run' = [run EXCEPT ![h] = r]
  <2> HIDE DEF n
  <2> QED BY <1>1, <1>2
<1>5. /\ made + 1 \in Nat /\ 1..made \subseteq 1..(made + 1)
      /\ 0..made \subseteq 0..(made + 1) /\ made + 1 \in 1..(made + 1)
      /\ made + 1 \in 0..(made + 1) /\ made + 1 # 0 /\ made + 1 \notin 0..made
  BY <1>2
<1> HIDE DEF n
<1>6. /\ home \in [Wizard!Names -> 0..(made + 1)] /\ home[n] = made + 1
      /\ \A x \in Wizard!Names : x # n => home[x] = run[h].home[x]
  BY <1>3, <1>5
<1> HIDE DEF home
<1>7. /\ r \in Application(made + 1) /\ r.pc = "channel" /\ r.home = home
      /\ r.at = run[h].at /\ r.choice = run[h].choice /\ Plan(r) = p
  BY <1>3, <1>6 DEF Application, Plan
<1> HIDE DEF r
<1>8. /\ cats \subseteq [id : 1..made, name : Wizard!Names]
      /\ chans \subseteq [id : 1..made, name : STRING, in : 0..made]
      /\ new \in [id : 1..(made + 1), name : Wizard!Names]
      /\ new.id = made + 1 /\ new.name = n
  BY <1>2, <1>3, <1>5 DEF Tidy
<1> HIDE DEF new
<1>9. Tidy(cats', chans, made + 1)
  <2>1. /\ cats' \subseteq [id : 1..(made + 1), name : Wizard!Names]
        /\ chans \subseteq [id : 1..(made + 1), name : STRING, in : 0..(made + 1)]
    BY <1>1, <1>5, <1>8
  <2>2. \A d \in chans : d.in = 0 \/ \E x \in cats' : x.id = d.in
    BY <1>1, <1>2 DEF Tidy
  <2>3. \A c \in cats : c.id # made + 1 /\ c.name # n
    BY <1>3, <1>5, <1>8
  <2>4. \A c, d \in cats' : c.id = d.id \/ c.name = d.name => c = d
    BY <1>1, <1>2, <1>8, <2>3 DEF Tidy
  <2> QED BY <1>2, <1>5, <2>1, <2>2, <2>4 DEF Tidy
<1>10. Fits(r, cats', chans, made + 1)
  <2>1. ASSUME NEW x \in Wizard!Names, NEW c \in cats', c.id = home[x] PROVE c.name = x
    <3>1. CASE x = n
      <4>1. c.id = made + 1
        BY <1>6, <2>1, <3>1
      <4>2. c = new
        BY <1>1, <1>5, <1>8, <4>1
      <4> QED BY <1>8, <3>1, <4>2
    <3>2. CASE x # n
      <4>1. c.id = run[h].home[x] /\ run[h].home[x] \in 0..made
        BY <1>3, <1>6, <2>1, <3>2
      <4>2. c \in cats
        BY <1>1, <1>5, <1>8, <4>1
      <4> QED BY <1>2, <4>1, <4>2 DEF Fits
    <3> QED BY <3>1, <3>2
  <2>2. \A d \in chans : d.in # made + 1
    BY <1>5, <1>8
  <2>3. Lacking(r, cats', chans)
    BY <1>3, <1>5, <1>6, <1>7, <2>2 DEF Lacking, n
  <2>4. r.at <= Len(Plan(r)) + 1
    <3>1. Len(p) \in Nat
      BY <1>3, Plans DEF Application
    <3> QED BY <1>3, <1>7, <3>1
  <2> QED BY <1>7, <2>1, <2>3, <2>4 DEF Fits
<1>11. alone = {h} => Settled(r, cats', chans, row, kept)
  <2> SUFFICES ASSUME alone = {h} PROVE Settled(r, cats', chans, row, kept)
    OBVIOUS
  <2>1. /\ \A x \in Wizard!Names :
              run[h].home[x] = 0 \/ \E c \in cats : c.id = run[h].home[x]
        /\ kept = run[h].choice.settings
        /\ \A j \in 1..(run[h].at - 1) : Done(p[j], cats, chans)
    BY <1>1, <1>2 DEF Settled
  <2>2. \A x \in Wizard!Names : home[x] = 0 \/ \E c \in cats' : c.id = home[x]
    BY <1>1, <1>6, <1>8, <2>1
  <2>3. \A j \in 1..(run[h].at - 1) : Done(p[j], cats', chans)
    BY <1>1, <2>1 DEF Done
  <2> QED BY <1>7, <2>1, <2>2, <2>3 DEF Settled
<1>12. \A i \in Admins : i # h => run[i].pc = "idle"
  BY <1>1, OthersIdle
<1>13. /\ Tidy(cats', chans', made') /\ Fits(r, cats', chans', made')
       /\ alone' = {h} => Settled(r, cats', chans', row', kept')
       /\ r.pc # "idle"
  BY <1>1, <1>7, <1>9, <1>10, <1>11
<1> QED BY <1>1, <1>2, <1>4, <1>12, <1>13, ApplicationStep

-----------------------------------------------------------------------------
LEMMA EndsFits ==
    ASSUME WizardInv, NEW h \in Admins, Wizard!Fails(h) \/ Wizard!Reply(h)
    PROVE  WizardInv'
<1>1. /\ run[h].pc # "idle" /\ run' = [run EXCEPT ![h] = Wizard!Idle]
      /\ UNCHANGED <<view, row, kept, cats, chans, changed, alone, made>>
  BY DEF Wizard!Fails, Wizard!Reply, Wizard!bounds
<1>2. /\ Tidy(cats, chans, made)
      /\ view \in [open : BOOLEAN, choice : Wizard!Selections]
      /\ row \in Choices /\ kept \in Choices /\ changed \in BOOLEAN
      /\ alone \subseteq Admins
  BY DEF WizardInv
<1>3. \A i \in Admins : i # h => run[i].pc = "idle"
  BY <1>1, OthersIdle
<1>4. /\ Tidy(cats', chans', made') /\ Fits(Wizard!Idle, cats', chans', made')
      /\ Settled(Wizard!Idle, cats', chans', row', kept')
  BY <1>1, <1>2, IdleFits, IdleSettled
<1> QED BY <1>1, <1>2, <1>3, <1>4, ApplicationStep

\* What is deleted leaves no name twice, and nothing there that was lacking.
LEMMA DeletedFits == WizardInv /\ Wizard!DeletedByHand => WizardInv'
<1> SUFFICES ASSUME WizardInv, Wizard!DeletedByHand PROVE WizardInv'
  OBVIOUS
<1>1. alone' = {} /\ UNCHANGED <<view, run, row, kept, changed, made>>
  BY DEF Wizard!DeletedByHand
<1>2. /\ Tidy(cats, chans, made)
      /\ chans \subseteq [id : 1..made, name : STRING, in : 0..made] /\ made \in Nat
  BY DEF WizardInv, Tidy
<1>3. /\ cats' \subseteq cats /\ Tidy(cats', chans', made)
      /\ \A d \in chans' : d.in # 0 => d \in chans
  <2>1. ASSUME NEW c \in chans, chans' = chans \ {c}, UNCHANGED cats
        PROVE  /\ cats' \subseteq cats /\ Tidy(cats', chans', made)
               /\ \A d \in chans' : d.in # 0 => d \in chans
    BY <1>2, <2>1 DEF Tidy
  <2>2. ASSUME NEW c \in cats, cats' = cats \ {c},
               chans' = {[x EXCEPT !.in = IF @ = c.id THEN 0 ELSE @] : x \in chans}
        PROVE  /\ cats' \subseteq cats /\ Tidy(cats', chans', made)
               /\ \A d \in chans' : d.in # 0 => d \in chans
    <3>1. ASSUME NEW d \in chans'
          PROVE  /\ d \in [id : 1..made, name : STRING, in : 0..made]
                 /\ d.in # 0 => d \in chans /\ d.in # c.id
      <4>1. PICK x \in chans : d = [x EXCEPT !.in = IF x.in = c.id THEN 0 ELSE x.in]
        BY <2>2
      <4>2. x \in [id : 1..made, name : STRING, in : 0..made]
        BY <1>2
      <4>3. d.in = IF x.in = c.id THEN 0 ELSE x.in
        BY <4>1, <4>2
      <4>4. d \in [id : 1..made, name : STRING, in : 0..made]
        <5>1. (IF x.in = c.id THEN 0 ELSE x.in) \in 0..made
          BY <1>2, <4>2
        <5> QED BY <4>1, <4>2, <5>1
      <4>5. x.in # c.id => d = x
        BY <4>1, <4>2
      <4> QED BY <4>3, <4>4, <4>5
    <3>2. \A d \in chans' : d.in = 0 \/ \E k \in cats' : k.id = d.in
      BY <1>2, <2>2, <3>1 DEF Tidy
    <3>3. \A x, y \in chans' : x.name = y.name /\ x.in = y.in /\ x.in # 0 => x = y
      BY <1>2, <3>1 DEF Tidy
    <3>4. chans' \subseteq [id : 1..made, name : STRING, in : 0..made]
      BY <3>1
    <3> QED BY <1>2, <2>2, <3>1, <3>2, <3>3, <3>4 DEF Tidy
  <2> QED BY <2>1, <2>2 DEF Wizard!DeletedByHand
<1>4. ASSUME NEW h \in Admins PROVE Fits(run[h], cats', chans', made)
  <2>1. Fits(run[h], cats, chans, made)
    BY DEF WizardInv
  <2> QED BY <1>3, <2>1 DEF Fits, Lacking
<1>5. \A h \in Admins : alone' # {h}
  BY <1>1
<1> QED BY <1>1, <1>3, <1>4, <1>5 DEF WizardInv

LEMMA WizardStep == OneAtATime /\ WizardInv /\ [Wizard!Next]_wizard => WizardInv'
<1> SUFFICES ASSUME OneAtATime, WizardInv, [Wizard!Next]_wizard PROVE WizardInv'
  OBVIOUS
<1>1. /\ view \in [open : BOOLEAN, choice : Wizard!Selections]
      /\ row \in Choices /\ kept \in Choices /\ changed \in BOOLEAN
      /\ alone \subseteq Admins
  BY DEF WizardInv
<1>2. ASSUME UNCHANGED <<run, row, kept, cats, chans, alone, made>>,
             changed' \in BOOLEAN,
             view' \in [open : BOOLEAN, choice : Wizard!Selections]
      PROVE  WizardInv'
  BY <1>2 DEF WizardInv
<1>3. CASE Wizard!OpenWizard
  <2>1. /\ view' = [open |-> TRUE, choice |-> Wizard!Blank] /\ changed' = FALSE
        /\ UNCHANGED <<run, row, kept, cats, chans, alone, made>>
    BY <1>3 DEF Wizard!OpenWizard, Wizard!bounds
  <2>2. view' \in [open : BOOLEAN, choice : Wizard!Selections]
    BY <2>1, BlankChoice
  <2>3. changed' \in BOOLEAN
    BY <2>1
  <2> QED BY <1>2, <2>1, <2>2, <2>3
<1>4. CASE Wizard!Choose
  <2>1. PICK c \in Wizard!Selections : view' = [view EXCEPT !.choice = c]
    BY <1>4 DEF Wizard!Choose
  <2>2. view' \in [open : BOOLEAN, choice : Wizard!Selections]
    BY <1>1, <2>1
  <2> QED BY <1>1, <1>2, <1>4, <2>2 DEF Wizard!Choose, Wizard!bounds
<1>5. CASE Wizard!Cancel
  BY <1>1, <1>2, <1>5, BlankChoice DEF Wizard!Cancel, Wizard!bounds
<1>6. CASE Wizard!Crash
  BY <1>1, <1>6, BlankChoice, NoneUnderWay DEF Wizard!Crash
<1>7. CASE Wizard!DeletedByHand
  BY <1>7, DeletedFits
<1>8. ASSUME NEW h \in Admins, Wizard!Finish(h) \/ Wizard!SetupQuick(h) PROVE WizardInv'
  BY <1>1, <1>8, BeginsFits DEF Wizard!Finish, Wizard!SetupQuick
<1>9. ASSUME NEW h \in Admins, Wizard!Save(h) PROVE WizardInv'
  BY <1>9, SaveFits
<1>10. ASSUME NEW h \in Admins, Wizard!Commit(h) PROVE WizardInv'
  BY <1>10, CommitFits
<1>11. ASSUME NEW h \in Admins, Wizard!Ladder(h) PROVE WizardInv'
  BY <1>11, LadderFits
<1>12. ASSUME NEW h \in Admins, Wizard!CreateCategory(h) PROVE WizardInv'
  BY <1>12, CreateCategoryFits
<1>13. ASSUME NEW h \in Admins, Wizard!CreateChannel(h) PROVE WizardInv'
  BY <1>13, CreateChannelFits
<1>14. ASSUME NEW h \in Admins, Wizard!Refused(h) PROVE WizardInv'
  BY <1>14, RefusedFits
<1>15. ASSUME NEW h \in Admins, Wizard!Fails(h) \/ Wizard!Reply(h) PROVE WizardInv'
  BY <1>15, EndsFits
<1>16. CASE UNCHANGED wizard
  BY <1>1, <1>2, <1>16 DEF wizard
<1> QED
  BY <1>3, <1>4, <1>5, <1>6, <1>7, <1>8, <1>9, <1>10, <1>11, <1>12, <1>13, <1>14,
     <1>15, <1>16 DEF Wizard!Next

LEMMA WizardInvariant == OneAtATime => (PartsSpec => []WizardInv)
<1> SUFFICES ASSUME OneAtATime PROVE PartsSpec => []WizardInv
  OBVIOUS
<1>1. PartsInit => WizardInv
  <2> SUFFICES ASSUME Wizard!Init PROVE WizardInv
    BY DEF PartsInit
  <2>1. /\ view = Wizard!Closed /\ run = [h \in Admins |-> Wizard!Idle]
        /\ row \in Choices /\ kept = row /\ cats = {} /\ chans = {}
        /\ changed = FALSE /\ alone = {} /\ made = 0
    BY DEF Wizard!Init
  <2>2. Tidy(cats, chans, made)
    BY <2>1 DEF Tidy
  <2>3. /\ \A h \in Admins : run[h] = Wizard!Idle
        /\ run = [h \in Admins |-> run[h]]
    BY <2>1
  <2>4. /\ changed \in BOOLEAN /\ alone \subseteq Admins
        /\ view \in [open : BOOLEAN, choice : Wizard!Selections]
    BY <2>1, BlankChoice
  <2> QED BY <2>1, <2>2, <2>3, <2>4, IdleFits, IdleSettled, BlankChoice DEF WizardInv
<1>2. WizardInv /\ [PartsNext]_<<part, parts>> => WizardInv'
  <2>1. [PartsNext]_<<part, parts>> => [Wizard!Next]_wizard
    BY DEF PartsNext, parts
  <2> QED BY <2>1, WizardStep
<1> QED BY <1>1, <1>2, PTL DEF PartsSpec

\* For any templates, and whatever was refused, broken off or deleted before:
\* applying them one after the other makes no category and no channel twice
\* (NeverDuplicated).
THEOREM NothingTwice == OneAtATime => (PartsSpec => []NeverDuplicated)
<1> SUFFICES ASSUME OneAtATime PROVE PartsSpec => []NeverDuplicated
  OBVIOUS
<1>1. WizardInv => NeverDuplicated
  BY DEF WizardInv, Tidy, NeverDuplicated, Wizard!NeverDuplicated
<1> QED BY <1>1, WizardInvariant, PTL

\* For any template: an application that met nobody and no refusal has, when it
\* replies, committed the choice and every channel of the plan in its category
\* (FinishedMeansDone).
THEOREM FinishedIsDone == OneAtATime => (PartsSpec => FinishedMeansDone)
<1> SUFFICES ASSUME OneAtATime PROVE PartsSpec => FinishedMeansDone
  OBVIOUS
<1> DEFINE Finished ==
             \A h \in Admins : run[h].pc = "reply" /\ run'[h] = Wizard!Idle /\ alone = {h}
                   /\ refused' = refused =>
                /\ kept = run[h].choice.settings
                /\ \A i \in 1..Wizard!Last(h) : \E c \in chans, d \in cats :
                      /\ c.name = Wizard!Entry(h, i).name /\ c.in = d.id
                      /\ d.name = Wizard!Entry(h, i).category
<1>1. WizardInv => Finished
  <2> SUFFICES ASSUME WizardInv, NEW h \in Admins, run[h].pc = "reply", alone = {h}
               PROVE  /\ kept = run[h].choice.settings
                      /\ \A i \in 1..Wizard!Last(h) : \E c \in chans, d \in cats :
                            /\ c.name = Wizard!Entry(h, i).name /\ c.in = d.id
                            /\ d.name = Wizard!Entry(h, i).category
    OBVIOUS
  <2>1. Settled(run[h], cats, chans, row, kept)
    BY DEF WizardInv
  <2> QED BY <2>1 DEF Settled, Done, Plan, Wizard!Last, Wizard!Entry
<1>2. WizardInv /\ [PartsNext]_<<part, parts>> => [Finished]_Wizard!vars
  BY <1>1
<1> QED
  BY <1>2, WizardInvariant, PTL
  DEF PartsSpec, FinishedMeansDone, Wizard!FinishedMeansDone
===============================================================================
