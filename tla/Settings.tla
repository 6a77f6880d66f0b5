------------------------------- MODULE Settings -------------------------------
(***************************************************************************)
(* What a guild's administrators are promised of its settings: an edit is  *)
(* applied once, to the settings as they are at that moment, changes only  *)
(* what it names, and is answered only when it would survive a crash.      *)
(***************************************************************************)
CONSTANTS
    Admins,      \* who may have an edit under way
    Nil,
    Features,    \* what can be switched on
    Channels,    \* where audit notes can go
    Keys,        \* permissions
    Positions    \* rungs of the ladder

VARIABLES
    cfg,   \* the settings as the bot reads them
    disk,  \* those a crash leaves
    req,   \* each administrator's edit, what is left of it
    dirty  \* whose edits a crash would lose

vars == <<cfg, disk, req, dirty>>

Settings == [features : SUBSET Features, audit : Channels \cup {Nil},
             minimal : BOOLEAN, perms : [Keys -> Positions \cup {Nil}]]

Default == [features |-> {}, audit |-> Nil, minimal |-> FALSE,
            perms |-> [k \in Keys |-> Nil]]

Edits ==
    [kind : {"feature"}, to : Features \X BOOLEAN]
    \cup [kind : {"features"}, to : SUBSET Features]
    \cup [kind : {"audit"}, to : Channels \cup {Nil}]
    \cup [kind : {"minimal"}, to : BOOLEAN]
    \cup [kind : {"toggle", "reset"}, to : {Nil}]
    \cup [kind : {"permission"}, to : Keys \X Positions]
    \cup [kind : {"setup"}, to : Settings]

\* The settings c after edit e; a reset clears the thresholds first.
Effect(e, c) ==
    CASE e.kind = "feature" ->
            [c EXCEPT !.features = IF e.to[2] THEN @ \cup {e.to[1]}
                                              ELSE @ \ {e.to[1]}]
      [] e.kind = "features" -> [c EXCEPT !.features = e.to]
      [] e.kind = "audit" -> [c EXCEPT !.audit = e.to]
      [] e.kind = "minimal" -> [c EXCEPT !.minimal = e.to]
      [] e.kind = "toggle" -> [c EXCEPT !.minimal = ~@]
      [] e.kind = "reset" -> [c EXCEPT !.perms = Default.perms]
      [] e.kind = "permission" -> [c EXCEPT !.perms[e.to[1]] = e.to[2]]
      [] e.kind = "setup" -> [e.to EXCEPT !.perms = c.perms]

MinimalOff == [kind |-> "minimal", to |-> FALSE]

Init ==
    /\ cfg = Default /\ disk = Default
    /\ req = [a \in Admins |-> Nil]
    /\ dirty = {}

Ask(a) ==
    /\ req[a] = Nil
    /\ \E e \in Edits : req' = [req EXCEPT ![a] = [edit |-> e, left |-> TRUE]]
    /\ UNCHANGED <<cfg, disk, dirty>>

Apply(a) ==
    /\ req[a] # Nil /\ req[a].left
    /\ LET e == req[a].edit
       IN  /\ cfg' = Effect(e, cfg)
           /\ req' = [req EXCEPT ![a] = IF e.kind = "reset"
                                        THEN [edit |-> MinimalOff, left |-> TRUE]
                                        ELSE [edit |-> e, left |-> FALSE]]
    /\ dirty' = dirty \cup {a}
    /\ UNCHANGED disk

Commit ==
    /\ disk' = cfg /\ dirty' = {}
    /\ UNCHANGED <<cfg, req>>

Answer(a) ==
    /\ req[a] # Nil /\ ~req[a].left /\ a \notin dirty
    /\ req' = [req EXCEPT ![a] = Nil]
    /\ UNCHANGED <<cfg, disk, dirty>>

Crash ==
    /\ cfg' = disk /\ dirty' = {}
    /\ req' = [a \in Admins |-> Nil]
    /\ UNCHANGED disk

Next == Commit \/ Crash \/ \E a \in Admins : Ask(a) \/ Apply(a) \/ Answer(a)

Spec == Init /\ [][Next]_vars
=============================================================================
