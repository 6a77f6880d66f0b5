------------------------------ MODULE Scaffold ------------------------------
(***************************************************************************)
(* The setup wizard and what its Finish does (cogs/setup.py, opened from   *)
(* cogs/hub.py too; /admin setup-quick does the same without the wizard):  *)
(* the settings are saved, the ladder is made (module Ladder: one step     *)
(* here), and the template's channels are created or reused by name.       *)
(*                                                                         *)
(* An action is one awaited call with the local code up to the next one.   *)
(* The bot's picture of the guild is Discord's own at every step.          *)
(***************************************************************************)
EXTENDS Naturals, Sequences, FiniteSetsExt

CONSTANTS
    Handlers,   \* interactions that may be in flight together
    Settings,   \* what the selects and toggles can be set to
    Templates,
    Channels,   \* ChannelSpecs of each template, in order
    OneAtATime, \* no two applications overlap
    MaxRuns,    \* bound on applications
    MaxFaults,  \* bound on calls that are refused or fail, and crashes
    MaxHands    \* bound on channels and categories deleted in the client

VARIABLES
    view,       \* the wizard: is it open, what does it hold
    run,        \* what each application carries across an await
    row, saved, \* the guild's settings as written and as committed
    cats,       \* the categories there are
    chans,      \* the channels there are, each in its category
    changed,    \* history: has this wizard written anything
    calm,       \* history: the application that met no one and no refusal
    runs, made, faults, hands  \* what the bounds count

bounds == <<runs, made, faults, hands>>
vars == <<view, run, row, saved, cats, chans, changed, calm, bounds>>

Selections == [settings : Settings, template : Templates, ladder : BOOLEAN]

Names == UNION {{Channels[t][i].category : i \in DOMAIN Channels[t]} : t \in Templates}
NoHome == [n \in Names |-> 0]
Blank == CHOOSE c \in Selections : Channels[c.template] = <<>> /\ ~c.ladder
Idle == [pc |-> "idle", wizard |-> FALSE, choice |-> Blank, at |-> 1, home |-> NoHome]
Closed == [open |-> FALSE, choice |-> Blank]

Init ==
    /\ view = Closed
    /\ run = [h \in Handlers |-> Idle]
    /\ row \in Settings /\ saved = row
    /\ cats = {} /\ chans = {}
    /\ changed = FALSE /\ calm = {}
    /\ runs = 0 /\ made = 0 /\ faults = 0 /\ hands = 0

Entry(h, i) == Channels[run[h].choice.template][i]
Last(h) == Len(Channels[run[h].choice.template])

Fault == faults < MaxFaults /\ faults' = faults + 1

-----------------------------------------------------------------------------
(***************************************************************************)
(* The wizard.                                                             *)
(***************************************************************************)
OpenWizard ==
    /\ ~view.open
    /\ \A h \in Handlers : ~run[h].wizard
    /\ view' = [open |-> TRUE, choice |-> Blank]
    /\ changed' = FALSE
    /\ UNCHANGED <<run, row, saved, cats, chans, calm, bounds>>

\* A select or a toggle, also while a Finish is under way.
Choose ==
    /\ view.open
    /\ \E c \in Selections : view' = [view EXCEPT !.choice = c]
    /\ UNCHANGED <<run, row, saved, cats, chans, changed, calm, bounds>>

Cancel ==
    /\ view.open /\ view' = Closed
    /\ UNCHANGED <<run, row, saved, cats, chans, changed, calm, bounds>>

Begins(h, choice, wizard) ==
    /\ run[h] = Idle
    /\ runs < MaxRuns /\ runs' = runs + 1
    /\ OneAtATime => \A i \in Handlers : run[i] = Idle
    /\ run' = [run EXCEPT ![h] = [Idle EXCEPT !.pc = "save", !.wizard = wizard,
                                              !.choice = choice]]
    /\ calm' = IF \A i \in Handlers : run[i] = Idle THEN {h} ELSE {}
    /\ UNCHANGED <<view, row, saved, cats, chans, changed, made, faults, hands>>

Finish(h) == view.open /\ Begins(h, view.choice, TRUE)

SetupQuick(h) == \E c \in Selections : Begins(h, c, FALSE)

-----------------------------------------------------------------------------
(***************************************************************************)
(* apply_setup_selection                                                   *)
(***************************************************************************)
Save(h) ==
    /\ run[h].pc = "save"
    /\ row' = run[h].choice.settings
    /\ run' = [run EXCEPT ![h].pc = "commit"]
    /\ changed' = (changed \/ run[h].wizard)
    /\ UNCHANGED <<view, saved, cats, chans, calm, bounds>>

\* self.stop(), once the application has come to its end
Stops(h) == view' = IF run'[h].pc = "reply" /\ run[h].wizard THEN Closed ELSE view

Commit(h) ==
    LET c == run[h].choice
        more == Channels[c.template] # <<>> \/ c.ladder
    IN  /\ run[h].pc = "commit"
        /\ saved' = row
        /\ run' = [run EXCEPT ![h].pc = IF more THEN "ladder" ELSE "reply"]
        /\ Stops(h)
        /\ UNCHANGED <<row, cats, chans, changed, calm, bounds>>

-----------------------------------------------------------------------------
(***************************************************************************)
(* _apply_channels.  What is there already is passed over without a call,  *)
(* so a step is followed by the next call that is needed.                  *)
(***************************************************************************)
Ids(S) == {x.id : x \in S}

\* categories.get, or else the guild's first category of that name
CategoryOf(h, n, there) ==
    LET named == Ids({c \in there : c.name = n})
    IN  IF run[h].home[n] # 0 THEN run[h].home[n]
        ELSE IF named = {} THEN 0 ELSE Min(named)

\* Mutant of Lacks: only a category that this run has met is looked into.
LacksUnmet(h, i, there, Chans) ==
    LET s == Entry(h, i)  home == run[h].home[s.category]
    IN  home = 0 \/ ~\E c \in Chans : c.name = s.name /\ c.in = home

Lacks(h, i, there, Chans) ==
    LET s == Entry(h, i)  home == CategoryOf(h, s.category, there)
    IN  home = 0 \/ ~\E c \in Chans : c.name = s.name /\ c.in = home

\* On to the next spec that is not there, from i on, or to the reply.
Proceed(h, i, there, Chans) ==
    LET lacking == {j \in i..Last(h) : Lacks(h, j, there, Chans)}
        next == IF lacking = {} THEN Last(h) + 1 ELSE Min(lacking)
        met == {Entry(h, j).category : j \in {k \in i..Last(h) : k <= next}}
        home == [n \in Names |-> IF n \in met THEN CategoryOf(h, n, there)
                                 ELSE run[h].home[n]]
    IN  /\ run' = [run EXCEPT ![h].at = next, ![h].home = home,
              ![h].pc = IF next > Last(h) THEN "reply"
                        ELSE IF home[Entry(h, next).category] = 0 THEN "category"
                        ELSE "channel"]
        /\ Stops(h)

Ladder(h) ==
    /\ run[h].pc = "ladder"
    /\ Proceed(h, 1, cats, chans)
    /\ UNCHANGED <<row, saved, cats, chans, changed, calm, bounds>>

\* Mutant of CreateCategory: on to the next spec.
CreateCategoryOnly(h) ==
    LET n == Entry(h, run[h].at).category IN
    /\ run[h].pc = "category"
    /\ made' = made + 1
    /\ cats' = cats \cup {[id |-> made', name |-> n]}
    /\ Proceed(h, run[h].at + 1, cats', chans)
    /\ UNCHANGED <<row, saved, chans, changed, calm, runs, faults, hands>>

CreateCategory(h) ==
    LET n == Entry(h, run[h].at).category IN
    /\ run[h].pc = "category"
    /\ made' = made + 1
    /\ cats' = cats \cup {[id |-> made', name |-> n]}
    /\ run' = [run EXCEPT ![h].pc = "channel", ![h].home[n] = made']
    /\ UNCHANGED <<view, row, saved, chans, changed, calm, runs, faults, hands>>

\* In a category that is gone the channel cannot be created (Fails).
CreateChannel(h) ==
    LET s == Entry(h, run[h].at)  c == run[h].home[s.category] IN
    /\ run[h].pc = "channel" /\ c \in Ids(cats)
    /\ made' = made + 1
    /\ chans' = chans \cup {[id |-> made', name |-> s.name, in |-> c]}
    /\ Proceed(h, run[h].at + 1, cats, chans')
    /\ UNCHANGED <<row, saved, cats, changed, calm, runs, faults, hands>>

\* Forbidden: this spec is given up.
Refused(h) ==
    /\ run[h].pc \in {"category", "channel"}
    /\ Fault /\ calm' = {}
    /\ Proceed(h, run[h].at + 1, cats, chans)
    /\ UNCHANGED <<row, saved, cats, chans, changed, runs, made, hands>>

\* Any other exception ends the application; the wizard stays open.
Fails(h) ==
    /\ \/ run[h].pc \in {"ladder", "category", "channel"} /\ Fault
       \/ /\ run[h].pc = "channel"
          /\ run[h].home[Entry(h, run[h].at).category] \notin Ids(cats)
          /\ UNCHANGED faults
    /\ run' = [run EXCEPT ![h] = Idle]
    /\ UNCHANGED <<view, row, saved, cats, chans, changed, calm, runs, made, hands>>

Reply(h) ==
    /\ run[h].pc = "reply"
    /\ run' = [run EXCEPT ![h] = Idle]
    /\ UNCHANGED <<view, row, saved, cats, chans, changed, calm, bounds>>

-----------------------------------------------------------------------------
\* A view does not outlive the process.
Crash ==
    /\ Fault
    /\ view' = Closed /\ run' = [h \in Handlers |-> Idle]
    /\ row' = saved
    /\ UNCHANGED <<saved, cats, chans, changed, calm, runs, made, hands>>

\* Without its category a channel is in none.
DeletedByHand ==
    /\ hands < MaxHands /\ hands' = hands + 1
    /\ \/ \E c \in chans : chans' = chans \ {c} /\ UNCHANGED cats
       \/ \E c \in cats :
             /\ cats' = cats \ {c}
             /\ chans' = {[x EXCEPT !.in = IF @ = c.id THEN 0 ELSE @] : x \in chans}
    /\ calm' = {}
    /\ UNCHANGED <<view, run, row, saved, changed, runs, made, faults>>

Next ==
    \/ OpenWizard \/ Choose \/ Cancel \/ Crash \/ DeletedByHand
    \/ \E h \in Handlers :
          \/ Finish(h) \/ SetupQuick(h) \/ Save(h) \/ Commit(h) \/ Ladder(h)
          \/ CreateCategory(h) \/ CreateChannel(h) \/ Refused(h) \/ Fails(h)
          \/ Reply(h)

Spec == Init /\ [][Next]_vars

-----------------------------------------------------------------------------
TypeOK ==
    /\ view \in [open : BOOLEAN, choice : Selections]
    /\ \A h \in Handlers :
          /\ run[h].pc \in {"idle", "save", "commit", "ladder", "category",
                            "channel", "reply"}
          /\ run[h].wizard \in BOOLEAN /\ run[h].choice \in Selections
          /\ run[h].at \in 1..(Last(h) + 1)
          /\ run[h].home \in [Names -> 0..made]
    /\ row \in Settings /\ saved \in Settings
    /\ \A c \in cats : c.id \in 1..made /\ c.name \in Names
    /\ \A c \in chans : c.id \in 1..made /\ c.in \in {0} \cup Ids(cats)
    /\ changed \in BOOLEAN /\ calm \subseteq Handlers

\* "Applying a template twice never duplicates a category or channel": while
\* applications do not overlap, whatever was refused, broken off by a crash or
\* deleted by hand in the ones before (_apply_channels).
NeverDuplicated ==
    /\ \A c, d \in cats : c.name = d.name => c = d
    /\ \A c, d \in chans : c.name = d.name /\ c.in = d.in /\ c.in # 0 => c = d

\* "Configuration saved": an application that had the guild to itself and was
\* refused nothing has committed what the wizard held when Finish was pressed,
\* whatever was chosen in it since, and every channel of the template is there
\* (SetupView.finish).
FinishedMeansDone ==
    [][\A h \in Handlers : run[h].pc = "reply" /\ run'[h] = Idle /\ calm = {h}
          /\ faults' = faults =>
          /\ saved = run[h].choice.settings
          /\ \A i \in 1..Last(h) : \E c \in chans, d \in cats :
                /\ c.name = Entry(h, i).name /\ c.in = d.id
                /\ d.name = Entry(h, i).category]_vars

\* "Setup cancelled. Nothing was changed.": not so while a Finish is under way
\* or after one that an exception ended (SetupView.cancel).
CancelChangesNothing == [][Cancel => ~changed]_vars
=============================================================================
