----------------------------- MODULE GuildConfig -----------------------------
(***************************************************************************)
(* One guild's settings (cogs/config.py): the guilds row and the rows of   *)
(* permissions, edited from /admin's commands, from a panel's controls     *)
(* and by /setup, and shown on a panel.                                    *)
(*                                                                         *)
(* The bot has one connection to SQLite, so that a commit makes durable    *)
(* whatever any handler has written.  An action is one awaited statement   *)
(* with the local code up to the next; that of ensure_guild and its commit *)
(* are one.  Inputs are those that pass the handlers' validation, the row  *)
(* exists (ensure_guild; a teardown is left out) and the features the      *)
(* JSON names are those of FEATURE_KEYS.                                   *)
(***************************************************************************)
EXTENDS Naturals

CONSTANTS
    Admins,     \* handlers that may be in flight together
    Nil,
    Features, Channels, Keys, Positions,
    Wizards,    \* the choices with which /setup is finished
    Apart,      \* no two handlers in flight edit the same column
    MaxRuns,    \* bound on handlers
    MaxCrashes

VARIABLES
    live,    \* the settings as the connection reads them
    saved,   \* as committed
    dirty,   \* history: handlers whose write is not committed
    task,    \* what each handler carries across an await
    shown,   \* what the panel's message shows
    calm,    \* history: the handler that has had the settings to itself
    runs, crashes

bounds == <<runs, crashes>>
vars == <<live, saved, dirty, task, shown, calm, bounds>>

NoEdit == [kind |-> "none", to |-> Nil]
Idle == [pc |-> "idle", edit |-> NoEdit, panel |-> FALSE, seen |-> Nil]

Left(t) == task[t].pc \in {"ensure", "read", "write"}

\* A handler's edit is asked from its start, applied by its UPDATE and
\* answered by the handler's reply.
Promise == INSTANCE Settings WITH
    cfg <- live, disk <- saved,
    req <- [t \in Admins |->
               IF task[t].edit = NoEdit THEN Nil
               ELSE [edit |-> task[t].edit, left |-> Left(t)]]

Edits == {e \in Promise!Edits : e.kind = "setup" => e.to \in Wizards}

\* The value that stands for nothing is no handler and no edit under way.
ASSUME NilAssumption ==
    Nil \notin Admins /\ Nil \notin [edit : Promise!Edits, left : BOOLEAN]

\* The columns that an edit writes.
Columns(e) ==
    CASE e.kind \in {"feature", "features"} -> {"features"}
      [] e.kind \in {"minimal", "toggle"} -> {"minimal"}
      [] e.kind = "audit" -> {"audit"}
      [] e.kind = "permission" -> {"perms"}
      [] e.kind = "reset" -> {"perms", "minimal"}
      [] e.kind = "setup" -> {"features", "audit", "minimal"}
      [] e.kind = "none" -> {}

Init ==
    /\ live = Promise!Default /\ saved = live
    /\ dirty = {}
    /\ task = [t \in Admins |-> Idle]
    /\ shown = Nil /\ calm = Nil
    /\ runs = 0 /\ crashes = 0

-----------------------------------------------------------------------------
Goto(t, pc) == task' = [task EXCEPT ![t].pc = pc]
Ends(t) == task' = [task EXCEPT ![t] = Idle]

Begins(t, e, panel, pc) ==
    /\ task[t] = Idle
    /\ runs < MaxRuns /\ runs' = runs + 1
    /\ Apart => \A u \in Admins : Columns(task[u].edit) \cap Columns(e) = {}
    /\ task' = [task EXCEPT ![t].pc = pc, ![t].edit = e, ![t].panel = panel]
    /\ calm' = IF \A u \in Admins : task[u] = Idle THEN t ELSE Nil
    /\ UNCHANGED <<live, saved, dirty, shown, crashes>>

\* A command of /admin.
Command(t) ==
    \E e \in Edits :
        /\ e.kind \in {"feature", "audit", "minimal", "permission"}
        /\ Begins(t, e, FALSE, "ensure")

\* The guild's name is typed to confirm /admin's reset.
Reset(t) == \E e \in Edits : e.kind = "reset" /\ Begins(t, e, FALSE, "ensure")

\* A select or a button of the panel.
Control(t) ==
    \E e \in Edits :
        /\ shown # Nil
        /\ e.kind \in {"features", "audit", "toggle"}
        /\ Begins(t, e, TRUE, "ensure")

\* The modal that the panel's last button opens.
Threshold(t) ==
    \E e \in Edits :
        /\ shown # Nil
        /\ e.kind = "permission"
        /\ Begins(t, e, TRUE, "ensure")

\* Finish of the wizard, or /admin setup-quick.
Setup(t) == \E e \in Edits : e.kind = "setup" /\ Begins(t, e, FALSE, "write")

\* The panel is opened; /config show reads and renders the same way.
Panel(t) == Begins(t, NoEdit, TRUE, "summary")

-----------------------------------------------------------------------------
Saves == saved' = live /\ dirty' = {}

Ensure(t) ==
    /\ task[t].pc = "ensure"
    /\ Saves
    /\ Goto(t, IF task[t].edit.kind \in {"feature", "features", "toggle"}
               THEN "read" ELSE "write")
    /\ UNCHANGED <<live, shown, calm, bounds>>

Read(t) ==
    /\ task[t].pc = "read"
    /\ task' = [task EXCEPT ![t].pc = "write", ![t].seen = live]
    /\ UNCHANGED <<live, saved, dirty, shown, calm, bounds>>

\* Mutant of Written: the statement writes the row back as it was read.
WrittenBack(t) ==
    LET e == task[t].edit
        row == IF task[t].seen = Nil THEN live ELSE task[t].seen
    IN  Promise!Effect(e, row)

\* What the UPDATE leaves: the column it names, computed from what was read.
Written(t) ==
    LET e == task[t].edit
        new == Promise!Effect(e, IF task[t].seen = Nil THEN live ELSE task[t].seen)
    IN  CASE e.kind \in {"feature", "features"} ->
                [live EXCEPT !.features = new.features]
          [] e.kind = "toggle" -> [live EXCEPT !.minimal = new.minimal]
          [] OTHER -> new

\* A reset has a second statement, that of the minimal mode.
Write(t) ==
    /\ task[t].pc = "write"
    /\ live' = Written(t)
    /\ dirty' = dirty \cup {t}
    /\ IF task[t].edit.kind = "reset"
       THEN task' = [task EXCEPT ![t].edit = Promise!MinimalOff]
       ELSE Goto(t, "commit")
    /\ UNCHANGED <<saved, shown, calm, bounds>>

Commit(t) ==
    /\ task[t].pc = "commit"
    /\ Saves
    /\ Goto(t, IF task[t].panel THEN "summary" ELSE "answer")
    /\ UNCHANGED <<live, shown, calm, bounds>>

Answer(t) ==
    /\ task[t].pc = "answer"
    /\ Ends(t)
    /\ UNCHANGED <<live, saved, dirty, shown, calm, bounds>>

-----------------------------------------------------------------------------
(***************************************************************************)
(* _build_summary, then the panel's message                                *)
(***************************************************************************)
\* Mutant of SummaryRow: the row is not read again after the write.
SummaryKept(t) ==
    /\ task[t].pc = "summary"
    /\ Saves
    /\ task' = [task EXCEPT ![t].pc = "perms",
                            ![t].seen = IF @ = Nil THEN live ELSE @]
    /\ UNCHANGED <<live, shown, calm, bounds>>

\* ensure_guild, and the guilds row.
SummaryRow(t) ==
    /\ task[t].pc = "summary"
    /\ Saves
    /\ task' = [task EXCEPT ![t].pc = "perms", ![t].seen = live]
    /\ UNCHANGED <<live, shown, calm, bounds>>

SummaryPermissions(t) ==
    /\ task[t].pc = "perms"
    /\ task' = [task EXCEPT ![t].pc = "publish", ![t].seen.perms = live.perms]
    /\ UNCHANGED <<live, saved, dirty, shown, calm, bounds>>

Publish(t) ==
    /\ task[t].pc = "publish"
    /\ shown' = task[t].seen
    /\ Ends(t)
    /\ UNCHANGED <<live, saved, dirty, calm, bounds>>

-----------------------------------------------------------------------------
\* SQLite drops what is not committed; the panel's controls die with the bot.
Crash ==
    /\ crashes < MaxCrashes /\ crashes' = crashes + 1
    /\ live' = saved /\ dirty' = {}
    /\ task' = [t \in Admins |-> Idle]
    /\ shown' = Nil /\ calm' = Nil
    /\ UNCHANGED <<saved, runs>>

Next ==
    \/ \E t \in Admins :
          \/ Command(t) \/ Reset(t) \/ Control(t) \/ Threshold(t)
          \/ Setup(t) \/ Panel(t)
          \/ Ensure(t) \/ Read(t) \/ Write(t) \/ Commit(t) \/ Answer(t)
          \/ SummaryRow(t) \/ SummaryPermissions(t) \/ Publish(t)
    \/ Crash

Spec == Init /\ [][Next]_vars

-----------------------------------------------------------------------------
TypeOK ==
    /\ live \in Promise!Settings /\ saved \in Promise!Settings
    /\ shown \in Promise!Settings \cup {Nil}
    /\ dirty \subseteq Admins
    /\ \A t \in Admins :
          /\ task[t].edit \in Edits \cup {NoEdit}
          /\ task[t].pc \in {"idle", "ensure", "read", "write", "commit",
                             "answer", "summary", "perms", "publish"}
          /\ task[t].panel \in BOOLEAN
          /\ task[t].seen \in Promise!Settings \cup {Nil}
    /\ calm \in Admins \cup {Nil}
    /\ {runs, crashes} \subseteq Nat

\* Handlers that edit different settings interleave statement by statement on
\* the bot's one connection, commit each other's writes and crash: still every
\* edit is applied once, to the settings as they are, changes nothing else, and
\* is answered only when it is on disk ("every change was saved the moment you
\* made it", ConfigPanelView.on_timeout).
KeepsPromise == Promise!Spec

\* A panel that is refreshed while no other handler runs shows the settings as
\* they are, whatever earlier ones have left on it (refresh, _build_summary).
CalmPanelIsLive ==
    [][\A t \in Admins :
          calm = t /\ task[t].pc = "publish" /\ task'[t] = Idle /\ shown' # Nil
              => shown' = live']_vars

\* ConfigPanelView: "whatever is on screen is always exactly what's live".
PanelIsLive ==
    shown # Nil /\ (\A t \in Admins : task[t] = Idle) => shown = live
=============================================================================
